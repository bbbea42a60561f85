----------------------------- MODULE WindowModes -----------------------------
(***************************************************************************)
(* Where a floating window is: maximized, fullscreen, minimized, moved and *)
(* resized by the pointer, by its client and over D-Bus, while the output  *)
(* changes its size (state.rs, grabs.rs, handlers.rs, input.rs).           *)
(*                                                                         *)
(* Geometry has one dimension, since the code treats both alike: a place   *)
(* is [loc, size].  The window is mapped once and stays mapped.            *)
(***************************************************************************)
EXTENDS Integers
CONSTANTS OutputSizes,        \* sizes an output may take
          Locations, Sizes,   \* where windows are dragged to, sizes they are given
          Opened,             \* the place it is mapped at
          Inset, Frame,       \* width of the left border, and of both
          MaxMoves            \* bound: drags, placements over D-Bus, minimizations, output changes
ASSUME WindowModesAssumption ==
  /\ OutputSizes \subseteq Nat /\ Inset \in Nat /\ Frame \in Nat
  /\ Locations \subseteq Int /\ Sizes \subseteq Nat \ {0}
  /\ Opened \in [loc : Int, size : Nat \ {0}]

None == [loc |-> 0, size |-> 0]

VARIABLES
  output,      \* the size of the output; the work area is all of it
  view,        \* the window: see below
  pointerGrab, \* "none", "move" or "resize": what a drag of the pointer does
  sized,       \* the size a resize grab asked for last
  moves        \* bounded count of these
modeVars == <<output, view, pointerGrab, sized, moves>>

\* inSpace: whether the space holds the window, and then at loc; size: of the
\* last commit; asked: size of the last configure, 0 where the client chooses;
\* restore and resize: ManagedWindow's; minimized: the location kept, if any.
\* For the properties only: before is the place the window had when it entered
\* its first mode; off says that it has been put elsewhere since its mode placed
\* it; slid that something else than the resize has moved it.
NoAnchor == [left |-> FALSE, initial |-> None, active |-> FALSE]
NotMinimized == -99

WindowModesInit ==
  /\ output \in OutputSizes
  /\ view = [inSpace |-> TRUE, loc |-> Opened.loc, size |-> Opened.size, asked |-> 0,
             maximized |-> FALSE, fullscreen |-> FALSE, minimized |-> NotMinimized,
             restore |-> None, resize |-> NoAnchor,
             before |-> None, off |-> FALSE, slid |-> FALSE]
  /\ pointerGrab = "none" /\ sized = 0 /\ moves = 0
------------------------------------------------------------------------------
Larger(a, b) == IF a > b THEN a ELSE b
Smaller(a, b) == IF a < b THEN a ELSE b

ElementGeometry(v) == IF v.inSpace THEN [loc |-> v.loc, size |-> v.size] ELSE None
Moded(v) == v.maximized \/ v.fullscreen

\* Puts the window into the space, a minimized one too.
MoveWindow(v, loc) == [v EXCEPT !.inSpace = TRUE, !.loc = loc, !.slid = v.resize.active]
ConfigureAndPlace(v, size, loc) == [MoveWindow(v, loc) EXCEPT !.asked = size]

\* A window placed while it is minimized comes back where it was before.
ModePlace(v, size, loc) ==
  [ConfigureAndPlace(v, size, loc) EXCEPT !.off = v.minimized # NotMinimized]
ApplyMaximized(v, out) == ModePlace(v, Larger(out - Frame, 1), Inset)
ApplyFullscreen(v, out) == ModePlace(v, out, 0)

\* Entering a second mode would remember the place in the first one.
RememberLast(v) ==
  [v EXCEPT !.restore = ElementGeometry(v), !.before = IF Moded(v) THEN @ ELSE ElementGeometry(v)]

Remember(v) ==
  [v EXCEPT !.restore = IF @ = None THEN ElementGeometry(v) ELSE @,
            !.before = IF Moded(v) THEN @ ELSE ElementGeometry(v)]
Restore(v) ==
  LET u == [v EXCEPT !.before = None, !.off = FALSE] IN
  IF v.restore = None THEN [u EXCEPT !.asked = 0]
  ELSE [ConfigureAndPlace(u, v.restore.size, v.restore.loc) EXCEPT !.restore = None]

SetMaximized(v, maximized) ==
  IF maximized THEN ApplyMaximized([Remember(v) EXCEPT !.maximized = TRUE], output)
  ELSE Restore([v EXCEPT !.maximized = FALSE])

\* relayout_all: a floating window is kept inside the work area.
KeptInside(v, out) ==
  LET size == Smaller(v.size, Larger(out - Frame, 1))
      last == Larger(out - size - Frame + Inset, Inset)
      loc == Smaller(Larger(v.loc, Inset), last)
  IN  IF size = v.size /\ loc = v.loc THEN v ELSE ConfigureAndPlace(v, size, loc)

\* Maximized windows treated like the others.
RelayoutFullscreen(v, out) ==
  IF v.minimized # NotMinimized THEN [v EXCEPT !.off = Moded(v)]
  ELSE IF v.fullscreen THEN ApplyFullscreen(v, out) ELSE KeptInside(v, out)

\* Minimized windows are left alone, and come back to where they were.
Relayout(v, out) ==
  IF v.minimized # NotMinimized THEN [v EXCEPT !.off = Moded(v)]
  ELSE IF v.fullscreen THEN ApplyFullscreen(v, out)
  ELSE IF v.maximized THEN ApplyMaximized(v, out)
  ELSE KeptInside(v, out)
------------------------------------------------------------------------------
\* A titlebar button, a shortcut, D-Bus or the client.
Maximize ==
  /\ ~view.fullscreen
  /\ \E maximized \in BOOLEAN : view' = SetMaximized(view, maximized)
  /\ UNCHANGED <<output, pointerGrab, sized, moves>>

SetFullscreen ==
  /\ LET v == [view EXCEPT !.fullscreen = ~@] IN
     view' = IF ~view.fullscreen THEN ApplyFullscreen([Remember(view) EXCEPT !.fullscreen = TRUE], output)
             ELSE IF view.maximized THEN ApplyMaximized(v, output)
             ELSE Restore(v)
  /\ UNCHANGED <<output, pointerGrab, sized, moves>>

MinimizeWindow ==
  /\ moves < MaxMoves /\ moves' = moves + 1
  /\ view.inSpace
  /\ view' = [view EXCEPT !.minimized = view.loc, !.inSpace = FALSE]
  /\ UNCHANGED <<output, pointerGrab, sized>>

\* Focusing a minimized window brings it back.
Unminimize ==
  /\ view.minimized # NotMinimized
  /\ view' = [view EXCEPT !.minimized = NotMinimized, !.inSpace = TRUE,
                           !.loc = view.minimized, !.slid = view.resize.active]
  /\ UNCHANGED <<output, pointerGrab, sized, moves>>

MoveResizeWindow ==
  /\ moves < MaxMoves
  /\ \E size \in Sizes, loc \in Locations :
       view' = [ConfigureAndPlace(view, size, loc) EXCEPT !.off = Moded(view)]
  /\ moves' = moves + 1
  /\ UNCHANGED <<output, pointerGrab, sized>>

ModesOutputChanged ==
  /\ moves < MaxMoves /\ moves' = moves + 1
  /\ \E out \in OutputSizes \ {output} :
       output' = out /\ view' = Relayout(view, out)
  /\ UNCHANGED <<pointerGrab, sized>>
------------------------------------------------------------------------------
\* A maximized window that is dragged is restored below the pointer.
BeginMove ==
  /\ moves < MaxMoves /\ moves' = moves + 1
  /\ pointerGrab = "none" /\ view.inSpace /\ ~view.fullscreen
  /\ pointerGrab' = "move"
  /\ IF view.maximized
     THEN \E loc \in Locations : view' = MoveWindow(SetMaximized(view, FALSE), loc)
     ELSE UNCHANGED view
  /\ UNCHANGED <<output, sized>>

BeginResize ==
  /\ moves < MaxMoves /\ moves' = moves + 1
  /\ pointerGrab = "none" /\ view.inSpace /\ ~view.fullscreen
  /\ pointerGrab' = "resize"
  /\ \E left \in BOOLEAN :
       view' = [view EXCEPT !.slid = FALSE,
                 !.resize = [left |-> left, initial |-> ElementGeometry(view), active |-> TRUE]]
  /\ sized' = view.size
  /\ UNCHANGED output

\* The drag goes on whatever mode the window has entered meanwhile.
Drag ==
  \/ /\ pointerGrab = "move"
     /\ \E loc \in Locations : view' = [MoveWindow(view, loc) EXCEPT !.off = Moded(view)]
     /\ UNCHANGED <<output, pointerGrab, sized, moves>>
  \/ /\ pointerGrab = "resize"
     /\ \E size \in Sizes \ {sized} :
          sized' = size /\ view' = [view EXCEPT !.asked = size, !.off = Moded(view)]
     /\ UNCHANGED <<output, pointerGrab, moves>>

\* The button is released, or the grab is taken away.
EndDrag ==
  /\ pointerGrab # "none"
  /\ view' = IF pointerGrab = "resize" THEN [view EXCEPT !.resize.active = FALSE, !.slid = FALSE] ELSE view
  /\ pointerGrab' = "none" /\ sized' = 0
  /\ UNCHANGED <<output, moves>>

LocationFor(anchor, size) ==
  anchor.initial.loc + (IF anchor.left THEN anchor.initial.size - size ELSE 0)

\* An anchor that is forgotten by the first commit.
AnchoredOnce(v) ==
  IF v.resize = NoAnchor THEN v
  ELSE [v EXCEPT !.inSpace = TRUE, !.loc = LocationFor(v.resize, v.size), !.off = Moded(v), !.slid = FALSE,
                 !.resize = NoAnchor]

Anchored(v) ==
  IF v.resize = NoAnchor THEN v
  ELSE [v EXCEPT !.inSpace = TRUE, !.loc = LocationFor(v.resize, v.size), !.off = Moded(v), !.slid = FALSE,
                 !.resize = IF @.active THEN @ ELSE NoAnchor]

\* The client draws the size it was asked for, or once more the one it has.
CommitWindow ==
  /\ \E size \in {view.size} \cup (IF view.asked = 0 THEN Sizes ELSE {view.asked}) :
       view' = Anchored([view EXCEPT !.size = size])
  /\ UNCHANGED <<output, pointerGrab, sized, moves>>

WindowModesNext ==
  \/ Maximize \/ SetFullscreen \/ MinimizeWindow \/ Unminimize \/ MoveResizeWindow
  \/ ModesOutputChanged \/ BeginMove \/ BeginResize \/ Drag \/ EndDrag \/ CommitWindow
WindowModesSpec == WindowModesInit /\ [][WindowModesNext]_modeVars
------------------------------------------------------------------------------
\* A maximized or fullscreen window covers what its mode says, of the output as
\* it is now, through changes of the output, from one mode to the other and
\* back, minimized and brought back: unless a drag, a resize or a caller put it
\* elsewhere, or the mode or the output changed while it was minimized.
Placed ==
  view.inSpace /\ view.minimized = NotMinimized /\ ~view.off =>
    /\ view.fullscreen => view.loc = 0 /\ view.asked = output
    /\ view.maximized /\ ~view.fullscreen => view.loc = Inset /\ view.asked = Larger(output - Frame, 1)

\* Leaving the last mode gives the window the place it had before the first
\* one, whatever happened in between; a drag that restores it picks the
\* location itself.
RestoredStep ==
  Moded(view) /\ ~Moded(view') /\ view.before # None =>
    /\ view'.asked = view.before.size
    /\ view'.loc = view.before.loc \/ pointerGrab' # pointerGrab
Restored == [][RestoredStep]_modeVars

\* As long as a resize is in progress, and nothing else moves the window, the
\* edge opposite to the one that is dragged stays where it was, whichever size
\* the client has got to.
OppositeEdgeStays ==
  LET r == view.resize IN
  pointerGrab = "resize" /\ view.inSpace /\ ~view.slid =>
    /\ r.active
    /\ IF r.left THEN view.loc + view.size = r.initial.loc + r.initial.size
                 ELSE view.loc = r.initial.loc
==============================================================================
