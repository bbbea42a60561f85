------------------------------ MODULE FrameParts ------------------------------
(***************************************************************************)
(* The frame around a window: where its titlebar, icon, title, buttons and *)
(* drag region are (decorations/frame.rs), and which of them, or which     *)
(* edge, a point of it belongs to (decorations/hit_test.rs).  Painting     *)
(* uses the first, input the second.                                       *)
(*                                                                         *)
(* Themes and sizes change with the configuration and the client; the      *)
(* geometry is computed anew whenever it is asked for.                     *)
(***************************************************************************)
EXTENDS Integers, FiniteSets
CONSTANTS Themes,        \* [bar, border, button, gap, edge, count, drag, left, icon, centered]
          ClientSizes,         \* [w, h] of clients
          IconPadding, TitlePadding,
          Margin,        \* GRAB_MARGIN: how far handles reach into the frame
          Reach          \* RESIZE_OUTSET: how far they reach past it

\* A BorderSize is at most 4 wide, GRAB_MARGIN is 16.
ASSUME FramePartsAssumption ==
  /\ {IconPadding, TitlePadding, Margin, Reach} \subseteq Nat
  /\ Themes \subseteq [bar: Nat, border: 0..Margin - 1, button: Nat, gap: Nat, edge: Nat, count: Nat,
                       drag: Nat, left: BOOLEAN, icon: BOOLEAN, centered: BOOLEAN]
  /\ ClientSizes \subseteq [w: Nat, h: Nat]

VARIABLES theme, client, tiled
partsVars == <<theme, client, tiled>>
------------------------------------------------------------------------------
Nowhere == [x |-> 0, y |-> 0, w |-> 0, h |-> 0]
AtLeast0(n) == IF n > 0 THEN n ELSE 0
Lower(a, b) == IF a < b THEN a ELSE b
Upper(a, b) == IF a > b THEN a ELSE b
ContainsPoint(r, p) == p.x >= r.x /\ p.x < r.x + r.w /\ p.y >= r.y /\ p.y < r.y + r.h

Bar == IF tiled THEN 0 ELSE theme.bar
ButtonSize == Lower(theme.button, Bar)
WholeFrame == [x |-> -theme.border, y |-> -Bar - theme.border,
               w |-> client.w + 2 * theme.border, h |-> client.h + Bar + 2 * theme.border]
Titlebar == [x |-> 0, y |-> -Bar, w |-> client.w, h |-> Bar]
ClientArea == [x |-> 0, y |-> 0, w |-> client.w, h |-> client.h]

IconSize == AtLeast0(Bar - 2 * IconPadding)
HasIcon == theme.icon /\ IconSize > 0
Icon == IF HasIcon /\ ~tiled
        THEN [x |-> IconPadding, y |-> IconPadding - Bar, w |-> IconSize, h |-> IconSize] ELSE Nowhere
LeftAnchor == Upper(IF HasIcon THEN IconSize + 2 * IconPadding ELSE TitlePadding, theme.edge)

\* The i-th of n squares of this size against the right end of a row.
FromRight(i, n, size, width) == width - theme.edge - (n - i + 1) * size - (n - i) * theme.gap
Button(i) ==
  [x |-> IF theme.left THEN LeftAnchor + (i - 1) * (ButtonSize + theme.gap)
         ELSE FromRight(i, theme.count, ButtonSize, client.w),
   y |-> (Bar - ButtonSize) \div 2 - Bar, w |-> ButtonSize, h |-> ButtonSize]
ButtonsWidth ==
  IF theme.count = 0 THEN 0 ELSE theme.count * ButtonSize + (theme.count - 1) * theme.gap + theme.edge

TitleLeft == IF theme.left THEN LeftAnchor + ButtonsWidth ELSE LeftAnchor
TitleRight == IF theme.left THEN client.w - TitlePadding ELSE client.w - ButtonsWidth
Center == client.w \div 2
\* As wide as the left of it allows.
TitleHalfLeft == AtLeast0(Center - TitleLeft)
TitleHalf == AtLeast0(Lower(Center - TitleLeft, TitleRight - Center))
Title ==
  IF theme.centered THEN [x |-> Center - TitleHalf, y |-> -Bar, w |-> 2 * TitleHalf, h |-> Bar]
  ELSE [x |-> TitleLeft, y |-> -Bar, w |-> AtLeast0(TitleRight - TitleLeft), h |-> Bar]
DragRegion == [x |-> theme.drag, y |-> -Bar, w |-> AtLeast0(client.w - 2 * theme.drag), h |-> Bar]

\* The buttons over a client that draws its own frame.
OverlayButton(i) ==
  LET size == Lower(theme.button, client.h) IN
  [x |-> FromRight(i, theme.count, size, client.w), y |-> theme.edge, w |-> size, h |-> size]

\* The edges whose handles p is at.
Near(p) ==
  LET f == WholeFrame IN
  IF ~ContainsPoint([x |-> f.x - Reach, y |-> f.y - Reach, w |-> f.w + 2 * Reach + 1, h |-> f.h + 2 * Reach + 1], p) THEN {}
  ELSE {e \in {"top", "bottom", "left", "right"} :
          CASE e = "top" -> p.y < f.y + Margin
            [] e = "bottom" -> p.y > f.y + f.h - Margin
            [] e = "left" -> p.x < f.x + Margin
            [] e = "right" -> p.x > f.x + f.w - Margin}

\* Two edges make a corner, which comes before everything.
HitTestFrame(p) ==
  LET near == Near(p)
      buttons == {i \in 1..theme.count : ContainsPoint(Button(i), p)}
  IN  IF near \cap {"top", "bottom"} # {} /\ near \cap {"left", "right"} # {} THEN <<"corner", near>>
      ELSE IF buttons # {} THEN <<"button", buttons>>
      ELSE IF ~tiled /\ ContainsPoint(DragRegion, p) THEN <<"titlebar">>
      ELSE IF ~tiled /\ ContainsPoint(Titlebar, p) THEN <<"none">>
      ELSE IF ContainsPoint(ClientArea, p) THEN <<"client">>
      ELSE IF near # {} THEN <<"edge", near>>
      ELSE <<"none">>
------------------------------------------------------------------------------
FramePartsInit == theme \in Themes /\ client \in ClientSizes /\ tiled = FALSE

\* set_decoration_theme
Retheme == theme' \in Themes \ {theme} /\ UNCHANGED <<client, tiled>>
CommitSize == client' \in ClientSizes \ {client} /\ UNCHANGED <<theme, tiled>>
ChangeWindowLayout == tiled' = ~tiled /\ UNCHANGED <<theme, client>>

FramePartsNext == Retheme \/ CommitSize \/ ChangeWindowLayout
FramePartsSpec == FramePartsInit /\ [][FramePartsNext]_partsVars
------------------------------------------------------------------------------
Overlap(a, b) ==
  /\ a.w > 0 /\ a.h > 0 /\ b.w > 0 /\ b.h > 0
  /\ a.x < b.x + b.w /\ b.x < a.x + a.w /\ a.y < b.y + b.h /\ b.y < a.y + a.h
Within(a, b) == a.x >= b.x /\ a.y >= b.y /\ a.x + a.w <= b.x + b.w /\ a.y + a.h <= b.y + b.h

\* However narrow the window: the title covers neither the icon nor a button,
\* and no two buttons touch.  Where there is room for the icon and the buttons
\* these do not cover each other either, and stay in the titlebar.
PartsApart ==
  /\ \A i \in 1..theme.count :
       /\ ~Overlap(Title, Button(i))
       /\ \A j \in 1..theme.count \ {i} : ~Overlap(Button(i), Button(j)) /\ ~Overlap(OverlayButton(i), OverlayButton(j))
       /\ client.w >= LeftAnchor + ButtonsWidth =>
            ~Overlap(Icon, Button(i)) /\ (tiled \/ Within(Button(i), Titlebar))
  /\ ~Overlap(Title, Icon)

\* Every point of the frame does something, margins of the drag region
\* excepted, and no point is in two buttons.
EveryPointAnswers ==
  \A x \in WholeFrame.x .. WholeFrame.x + WholeFrame.w - 1, y \in WholeFrame.y .. WholeFrame.y + WholeFrame.h - 1 :
    LET p == [x |-> x, y |-> y]
        part == HitTestFrame(p)
    IN  /\ part = <<"none">> => ContainsPoint(Titlebar, p) /\ ~ContainsPoint(DragRegion, p)
        /\ part[1] = "button" => Cardinality(part[2]) = 1

\* What the frame of a window shows can be told apart and used.
FrameSound == PartsApart /\ EveryPointAnswers
==============================================================================
