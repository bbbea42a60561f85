-------------------------------- MODULE Tiling --------------------------------
(***************************************************************************)
(* The tiling layout: a master column and a stack beside it, laid out anew *)
(* whenever the tiled windows of a workspace, the output or the            *)
(* configuration change (state.rs).                                        *)
(*                                                                         *)
(* One output, so every workspace is laid out for it.  Windows carry ids   *)
(* in the order they were created, which is the order of their tiles.      *)
(* Placement over D-Bus and maximizing are in WindowModes.                 *)
(***************************************************************************)
EXTENDS Integers, FiniteSets
CONSTANTS Tiled,        \* ids of the windows
          Spaces,       \* ids of the workspaces
          Arrangements       \* size of the output, gap, padding, border and share of the master in tenths

NoSpace == 0
NoTile == [x |-> 0, y |-> 0, w |-> 0, h |-> 0]

ASSUME TilingAssumption ==
  /\ IsFiniteSet(Tiled) /\ Tiled \subseteq Nat
  /\ NoSpace \notin Spaces
  /\ Arrangements \subseteq [w : Nat \ {0}, h : Nat \ {0}, gap : Nat, padding : Nat, border : Nat, ratio : Nat]

VARIABLES
  layout,     \* one of Arrangements
  tiles       \* each window: its workspace or NoSpace, its state, where it is
tilingVars == <<layout, tiles>>

TilingInit ==
  /\ layout \in Arrangements
  /\ tiles = [w \in Tiled |-> [on |-> NoSpace, minimized |-> FALSE, fullscreen |-> FALSE, at |-> NoTile]]
------------------------------------------------------------------------------
Least(a, b) == IF a < b THEN a ELSE b
Most(a, b) == IF a > b THEN a ELSE b
Clamp(n, low, high) == Most(low, Least(n, high))

Padded(l) ==
  LET padding == Clamp(l.padding, 0, Least(l.w, l.h) \div 2)
  IN  [x |-> padding, y |-> padding, w |-> Most(l.w - padding * 2, 1), h |-> Most(l.h - padding * 2, 1)]
Gap(l) == Clamp(l.gap, 0, Least(l.w, l.h) \div 4)

\* The last tile as high as the others, and no room left for the gaps.
MasterStackEven(area, n, gap, ratio) ==
  LET height == Most(area.h \div (n - 1), 1)
      master == Clamp(((area.w - gap) * ratio) \div 10, 1, Most(area.w - gap - 1, 1))
  IN  IF n <= 1 THEN <<area>>
      ELSE [i \in 1..n |->
             IF i = 1 THEN [area EXCEPT !.w = master]
             ELSE [x |-> area.x + master + gap, y |-> area.y + (i - 2) * (height + gap),
                   w |-> Most(area.w - master - gap, 1), h |-> height]]

\* The n rectangles of area: the first is the master, the last of the stack
\* takes what rounding leaves.
MasterStack(area, n, gap, ratio) ==
  IF n <= 1 THEN <<area>>
  ELSE
    LET stacked == n - 1
        share == ((area.w - gap) * Clamp(ratio, 1, 9) * 2 + 10) \div 20
        master == Clamp(share, 1, Most(area.w - gap - 1, 1))
        left == area.x + master + gap
        width == Most(area.w - master - gap, 1)
        height == Most((area.h - gap * (stacked - 1)) \div stacked, 1)
    IN  [i \in 1..n |->
          IF i = 1 THEN [area EXCEPT !.w = master]
          ELSE LET y == area.y + (i - 2) * (height + gap)
               IN  [x |-> left, y |-> y, w |-> width,
                    h |-> IF i = n THEN Most(area.y + area.h - y, 1) ELSE height]]

Here(ts, id) == {w \in Tiled : ts[w].on = id /\ ~ts[w].minimized /\ ~ts[w].fullscreen}

\* Tiles are given in the order of the ids.
Rank(windows, w) == Cardinality({v \in windows : v <= w})
Slots(l, ts, id) ==
  LET windows == Here(ts, id)
      slots == MasterStack(Padded(l), Cardinality(windows), Gap(l), l.ratio)
  IN  [w \in windows |-> slots[Rank(windows, w)]]

\* The client of a framed window gets what the border leaves.
Inside(l, r) ==
  [x |-> r.x + l.border, y |-> r.y + l.border,
   w |-> Most(r.w - 2 * l.border, 1), h |-> Most(r.h - 2 * l.border, 1)]

Retile(l, ts, id) ==
  LET slots == Slots(l, ts, id)
  IN  [w \in Tiled |-> IF w \in Here(ts, id) THEN [ts[w] EXCEPT !.at = Inside(l, slots[w])]
                       ELSE ts[w]]

FullscreenAt(l, t) == [t EXCEPT !.at = [x |-> 0, y |-> 0, w |-> l.w, h |-> l.h]]

RelayoutAll(l, ts) ==
  LET Tile(w) == [ts[w] EXCEPT !.at = Inside(l, Slots(l, ts, ts[w].on)[w])]
  IN  [w \in Tiled |-> IF ts[w].on = NoSpace \/ ts[w].minimized THEN ts[w]
                       ELSE IF ts[w].fullscreen THEN FullscreenAt(l, ts[w]) ELSE Tile(w)]
------------------------------------------------------------------------------
MapTile(w, id) ==
  /\ tiles[w].on = NoSpace
  /\ tiles' = Retile(layout, [tiles EXCEPT ![w].on = id, ![w].fullscreen = FALSE], id)
  /\ UNCHANGED layout

UnmapTile(w) ==
  /\ tiles[w].on # NoSpace
  /\ tiles' = Retile(layout, [tiles EXCEPT ![w] = [@ EXCEPT !.on = NoSpace, !.minimized = FALSE, !.at = NoTile]], tiles[w].on)
  /\ UNCHANGED layout

MinimizeTile(w) ==
  /\ tiles[w].on # NoSpace /\ ~tiles[w].minimized
  /\ tiles' = Retile(layout, [tiles EXCEPT ![w].minimized = TRUE], tiles[w].on)
  /\ UNCHANGED layout

UnminimizeTile(w) ==
  /\ tiles[w].minimized
  /\ tiles' = Retile(layout, [tiles EXCEPT ![w].minimized = FALSE], tiles[w].on)
  /\ UNCHANGED layout

\* Laying out the workspace it comes to, and not the one it leaves.
MoveTileForward(w, id) ==
  /\ tiles[w].on \notin {NoSpace, id}
  /\ tiles' = Retile(layout, [tiles EXCEPT ![w].on = id], id)
  /\ UNCHANGED layout

MoveTile(w, id) ==
  /\ tiles[w].on \notin {NoSpace, id}
  /\ LET moved == [tiles EXCEPT ![w].on = id]
     IN  tiles' = Retile(layout, Retile(layout, moved, tiles[w].on), id)
  /\ UNCHANGED layout

\* The others keep their tiles below a window that becomes fullscreen.
FullscreenTile(w) ==
  /\ tiles[w].on # NoSpace /\ ~tiles[w].minimized
  /\ LET left == [tiles EXCEPT ![w].fullscreen = ~@]
     IN  tiles' = IF tiles[w].fullscreen THEN Retile(layout, left, tiles[w].on)
                  ELSE [left EXCEPT ![w] = FullscreenAt(layout, @)]
  /\ UNCHANGED layout

\* A reload of window or decoration settings, or a new mode of the output.
ChangeLayout ==
  /\ layout' \in Arrangements \ {layout}
  /\ tiles' = RelayoutAll(layout', tiles)

TilingNext ==
  \/ \E w \in Tiled : \/ UnmapTile(w) \/ MinimizeTile(w) \/ UnminimizeTile(w) \/ FullscreenTile(w)
                      \/ \E id \in Spaces : MapTile(w, id) \/ MoveTile(w, id)
  \/ ChangeLayout
TilingSpec == TilingInit /\ [][TilingNext]_tilingVars
------------------------------------------------------------------------------
\* Wherever no window is fullscreen, every tiled window is where the layout of
\* the present windows, output and configuration puts it, whatever was mapped,
\* closed, minimized, moved or reloaded before.
EveryTileInPlace ==
  \A id \in Spaces :
    (\A w \in Tiled : tiles[w].on = id => ~tiles[w].fullscreen) =>
      \A w \in Here(tiles, id) :
        tiles[w].at = Inside(layout, Slots(layout, tiles, id)[w])

Apart(r, s) == r.x + r.w <= s.x \/ s.x + s.w <= r.x \/ r.y + r.h <= s.y \/ s.y + s.h <= r.y

\* The slots of a workspace never overlap, and lie within the padded work area
\* as long as it has a pixel for the master, one for the stack and a row for
\* each stacked window, with the gaps between them.
SlotsFit ==
  \A id \in Spaces :
    LET slots == Slots(layout, tiles, id)
        area == Padded(layout)
        n == Cardinality(Here(tiles, id))
        roomy == n <= 1 \/ (area.w >= Gap(layout) + 2 /\ area.h >= (n - 1) + Gap(layout) * (n - 2))
    IN  roomy => \A w \in Here(tiles, id) :
          LET r == slots[w] IN
          /\ r.w >= 1 /\ r.h >= 1
          /\ r.x >= area.x /\ r.y >= area.y
          /\ r.x + r.w <= area.x + area.w /\ r.y + r.h <= area.y + area.h
          /\ \A v \in Here(tiles, id) \ {w} : Apart(r, slots[v])
==============================================================================
