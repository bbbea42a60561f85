----------------------------- MODULE PointerScene -----------------------------
(***************************************************************************)
(* What is painted and what the pointer hits: the order in which an output *)
(* is painted (render/mod.rs), the order in which input asks who is below  *)
(* the pointer (input.rs), and the focus of the pointer, which is brought  *)
(* up to date at the end of an iteration of the event loop if one of its   *)
(* operations has asked for it (state.rs).                                 *)
(*                                                                         *)
(* The output has one dimension.  Panels are layer surfaces; a window has  *)
(* at most one popup, which reaches past its end.                          *)
(***************************************************************************)
EXTENDS Retaining, SequencesExt
CONSTANTS Apps,          \* the windows
          Points,        \* the positions of the output
          Positions,     \* those the pointer goes to
          Homes,         \* where windows are placed
          Width,         \* of each window
          Style,         \* of each window: "plain", "frame" or "overlay" (hybrid controls)
          OnTop,         \* windows with the rule always_on_top
          Panels,        \* each panel: its layer and the points it covers
          Outset         \* how far resize handles reach past a frame

ASSUME PointerSceneAssumption ==
    /\ Homes \subseteq Int /\ Homes # {}
    /\ Width \in [Apps -> Nat] /\ Outset \in Nat
    /\ \A l \in DOMAIN Panels : Panels[l].layer \in {"background", "bottom", "top", "overlay"}

Nobody == <<"nobody">>
Locker == <<"locker">>

VARIABLES
  stack,     \* the windows of the space that are shown, the topmost last
  app,       \* each window: its place, whether it is fullscreen, has a popup
  panels,    \* the mapped panels in the order of the layer map
  lock,      \* "open", "locked", or "shown" with a surface of the locker
  pointer,   \* its location, its focus, an implicit grab and the focus after it
  dirty,     \* pointer_focus_dirty
  settled,   \* nothing has happened since the iteration ended
  stale      \* for the properties only: see below
sceneVars == <<stack, app, panels, lock, pointer, dirty, settled, stale>>

NewApp == [at |-> CHOOSE p \in Homes : TRUE, fullscreen |-> FALSE, popup |-> FALSE]

PointerSceneInit ==
  /\ stack = <<>> /\ panels = <<>> /\ lock = "open"
  /\ app = [w \in Apps |-> NewApp]
  /\ pointer \in [at : Positions, focus : {Nobody}, grabbed : {FALSE}, under : {Nobody}]
  /\ dirty = FALSE /\ settled = TRUE /\ stale = FALSE
------------------------------------------------------------------------------
Client(w) == app[w].at .. (app[w].at + Width[w] - 1)
Popup(w) == IF app[w].popup THEN {app[w].at + Width[w] - 1, app[w].at + Width[w]} ELSE {}
Controls(w) ==
  IF Style[w] = "overlay" /\ ~app[w].fullscreen THEN {app[w].at + Width[w] - 1} ELSE {}
FrameBy(w, outset) ==
  IF Style[w] = "frame" /\ ~app[w].fullscreen
  THEN (app[w].at - 1 - outset) .. (app[w].at + Width[w] + outset) ELSE {}

\* Stable: fullscreen windows last, before them those that stay on top.
ZOrdered ==
  LET Is(full, top) == Retained(stack, {w \in Apps : app[w].fullscreen = full /\ (w \in OnTop) = top})
  IN  Is(FALSE, FALSE) \o Is(FALSE, TRUE) \o Is(TRUE, FALSE) \o Is(TRUE, TRUE)
Covered == LET z == ZOrdered IN z # <<>> /\ app[Last(z)].fullscreen

OnLayer(layer) ==
  LET on == Retained(panels, {l \in DOMAIN Panels : Panels[l].layer = layer})
  IN  [i \in DOMAIN on |-> [is |-> <<"panel", on[i]>>, area |-> Panels[on[i]].covers]]

\* From back to front, the elements of a frame.
WindowElements(w) ==
  << [is |-> <<"frame", w>>, area |-> FrameBy(w, 0)], [is |-> <<"client", w>>, area |-> Client(w)],
     [is |-> <<"frame", w>>, area |-> Controls(w)], [is |-> <<"popup", w>>, area |-> Popup(w)] >>
SceneElements ==
  IF lock # "open" THEN <<[is |-> Nobody, area |-> Points]>>
                        \o (IF lock = "shown" THEN <<[is |-> Locker, area |-> Points]>> ELSE <<>>)
  ELSE LET z == ZOrdered
           windows == FlattenSeq([i \in DOMAIN z |-> WindowElements(z[i])])
       IN  IF Covered THEN windows \o OnLayer("overlay")
           ELSE OnLayer("background") \o OnLayer("bottom") \o windows
                \o OnLayer("top") \o OnLayer("overlay")

\* Whatever of a window is at p: the controls come first, then its surfaces,
\* then its frame with the handles around it.
WindowTarget(w, p) ==
  CASE p \in Controls(w) -> <<"frame", w>>
    [] p \in Popup(w) \ Controls(w) -> <<"popup", w>>
    [] p \in Client(w) \ (Popup(w) \cup Controls(w)) -> <<"client", w>>
    [] p \in FrameBy(w, Outset) \ (Client(w) \cup Popup(w)) -> <<"frame", w>>
    [] OTHER -> Nobody

\* The last of a sequence that has something at p.
LayerTarget(layer, p) ==
  LET here == {i \in DOMAIN panels : Panels[panels[i]].layer = layer /\ p \in Panels[panels[i]].covers}
  IN  IF here = {} THEN Nobody ELSE <<"panel", panels[Max(here)]>>
StackTarget(p) ==
  LET z == ZOrdered
      here == {i \in DOMAIN z : WindowTarget(z[i], p) # Nobody}
  IN  IF here = {} THEN Nobody ELSE WindowTarget(z[Max(here)], p)

FirstOf(a, b) == IF a # Nobody THEN a ELSE b
UpperTarget(p) ==
  FirstOf(LayerTarget("overlay", p), IF Covered THEN Nobody ELSE LayerTarget("top", p))
LowerTarget(p) ==
  IF Covered THEN Nobody ELSE FirstOf(LayerTarget("bottom", p), LayerTarget("background", p))

\* Panels above windows although one of these is fullscreen.
PointerTargetUncovered(p) ==
  IF lock # "open" THEN IF lock = "shown" THEN Locker ELSE Nobody
  ELSE FirstOf(FirstOf(LayerTarget("overlay", p), LayerTarget("top", p)),
               FirstOf(StackTarget(p), LowerTarget(p)))

PointerTarget(p) ==
  IF lock # "open" THEN IF lock = "shown" THEN Locker ELSE Nobody
  ELSE FirstOf(UpperTarget(p), FirstOf(StackTarget(p), LowerTarget(p)))

\* Of the elements at p the one painted last.
Foremost(elements, p) ==
  LET here == {i \in DOMAIN elements : p \in elements[i].area}
  IN  IF here = {} THEN Nobody ELSE elements[Max(here)].is

IsFrame(thing) == \E w \in Apps : thing = <<"frame", w>>
SurfaceUnder(p) == LET t == PointerTarget(p) IN IF IsFrame(t) THEN Nobody ELSE t
------------------------------------------------------------------------------
Dirty == dirty' = TRUE /\ settled' = FALSE /\ UNCHANGED stale
\* The scene changes and nobody asks for the focus to be looked at again.
Unmarked == settled' = FALSE /\ stale' = TRUE /\ UNCHANGED dirty

Without(s, x) == Retained(s, Range(s) \ {x})
Raised(w) == Append(Without(stack, w), w)
On(w) == w \in Range(stack)

\* A window is mapped, restored or brought in by a switch of the workspace.
ShowApp(w) ==
  /\ ~On(w)
  /\ stack' = Append(stack, w)
  /\ \E at \in Homes : app' = [app EXCEPT ![w] = [NewApp EXCEPT !.at = at]]
  /\ Dirty /\ UNCHANGED <<panels, lock, pointer>>

\* It is closed, minimized or goes with its workspace.
HideApp(w) ==
  /\ On(w)
  /\ stack' = Without(stack, w)
  /\ app' = [app EXCEPT ![w] = NewApp]
  /\ Dirty /\ UNCHANGED <<panels, lock, pointer>>

FocusApp(w) ==
  /\ On(w)
  /\ stack' = Raised(w)
  /\ Dirty /\ UNCHANGED <<app, panels, lock, pointer>>

\* Nobody would look at the focus again.
MoveAppQuietly(w) ==
  /\ On(w)
  /\ \E at \in Homes \ {app[w].at} : app' = [app EXCEPT ![w].at = at]
  /\ stack' = Raised(w)
  /\ settled' = FALSE /\ UNCHANGED <<panels, lock, pointer, dirty, stale>>

\* map_element restacks.
MoveApp(w) ==
  /\ On(w)
  /\ \E at \in Homes \ {app[w].at} : app' = [app EXCEPT ![w].at = at]
  /\ stack' = Raised(w)
  /\ Dirty /\ UNCHANGED <<panels, lock, pointer>>

\* Only the move that comes with it asks for the focus to be looked at.
FullscreenApp(w) ==
  /\ On(w)
  /\ \E at \in IF app[w].fullscreen THEN Homes ELSE {1} :
       /\ app' = [app EXCEPT ![w].fullscreen = ~@, ![w].at = at]
       /\ stack' = IF app[w].fullscreen /\ at = app[w].at THEN stack ELSE Raised(w)
       /\ IF at = app[w].at THEN Unmarked ELSE Dirty
  /\ UNCHANGED <<panels, lock, pointer>>

\* The client draws its popup.  (Nor does a commit of another size ask for
\* anything; the sizes of windows stay what they are here.)
CommitApp(w) ==
  /\ On(w)
  /\ ~app[w].popup /\ app' = [app EXCEPT ![w].popup = TRUE]
  /\ Unmarked /\ UNCHANGED <<stack, panels, lock, pointer>>

PopupDestroyed(w) ==
  /\ app[w].popup /\ app' = [app EXCEPT ![w].popup = FALSE]
  /\ Dirty /\ UNCHANGED <<stack, panels, lock, pointer>>

LayoutChanged(l) ==
  /\ panels' = IF l \in Range(panels) THEN Without(panels, l) ELSE Append(panels, l)
  /\ Dirty /\ UNCHANGED <<stack, app, lock, pointer>>

\* Locking and unlocking take the pointer from everybody.
LockScreen ==
  /\ lock' = IF lock = "open" THEN "locked" ELSE "open"
  /\ pointer' = [pointer EXCEPT !.grabbed = FALSE, !.focus = Nobody, !.under = Nobody]
  /\ Dirty /\ UNCHANGED <<stack, app, panels>>

LockSurfaceCommits ==
  /\ lock = "locked" /\ lock' = "shown"
  /\ Dirty /\ UNCHANGED <<stack, app, panels, pointer>>

\* During the implicit grab of a press the focus stays; with sloppy focus the
\* window below the pointer is raised.
MovePointer ==
  /\ \E p \in Positions \ {pointer.at} :
       /\ pointer' = IF pointer.grabbed THEN [pointer EXCEPT !.at = p, !.under = SurfaceUnder(p)]
                     ELSE [pointer EXCEPT !.at = p, !.focus = SurfaceUnder(p)]
       /\ \/ UNCHANGED <<stack, dirty>>
          \/ /\ ~pointer.grabbed
             /\ \E w \in Apps : /\ PointerTarget(p) \in {<<part, w>> : part \in {"frame", "client", "popup"}}
                                /\ stack' = Raised(w)
             /\ dirty' = TRUE
  /\ settled' = FALSE /\ stale' = (stale /\ pointer.grabbed)
  /\ UNCHANGED <<app, panels, lock>>

\* The window that is hit is focused; what follows a press on its frame is
\* in WindowModes.
PressButton ==
  /\ ~pointer.grabbed
  /\ LET target == PointerTarget(pointer.at) IN
     /\ IF \E w \in Apps : target \in {<<part, w>> : part \in {"frame", "client", "popup"}}
        THEN stack' = Raised(target[2]) /\ dirty' = TRUE
        ELSE UNCHANGED <<stack, dirty>>
     /\ pointer' = IF IsFrame(target) THEN pointer
                   ELSE [pointer EXCEPT !.grabbed = TRUE, !.under = pointer.focus]
  /\ settled' = FALSE /\ UNCHANGED <<app, panels, lock, stale>>

ReleaseButton ==
  /\ pointer.grabbed
  /\ pointer' = [pointer EXCEPT !.grabbed = FALSE, !.focus = pointer.under, !.under = Nobody]
  /\ settled' = FALSE /\ UNCHANGED <<stack, app, panels, lock, dirty, stale>>

\* The request is taken even though a grab keeps it from being served.
RefreshPointer ==
  /\ ~settled /\ settled' = TRUE
  /\ dirty' = FALSE
  /\ IF dirty /\ ~pointer.grabbed
     THEN pointer' = [pointer EXCEPT !.focus = SurfaceUnder(pointer.at)] /\ stale' = FALSE
     ELSE UNCHANGED pointer /\ stale' = (stale \/ dirty)
  /\ UNCHANGED <<stack, app, panels, lock>>

PointerSceneNext ==
  \/ \E w \in Apps : \/ ShowApp(w) \/ HideApp(w) \/ FocusApp(w) \/ MoveApp(w)
                     \/ FullscreenApp(w) \/ CommitApp(w) \/ PopupDestroyed(w)
  \/ \E l \in DOMAIN Panels : LayoutChanged(l)
  \/ LockScreen \/ LockSurfaceCommits
  \/ MovePointer \/ PressButton \/ ReleaseButton \/ RefreshPointer
PointerSceneSpec == PointerSceneInit /\ [][PointerSceneNext]_sceneVars
------------------------------------------------------------------------------
\* The window w and those over it.
FromUp(w) ==
  LET z == ZOrdered IN {z[j] : j \in {k \in DOMAIN z : \E i \in 1..k : z[i] = w}}
UpperPanels == {l \in DOMAIN Panels : Panels[l].layer \in {"top", "overlay"}}

\* Whatever windows, popups, panels and lock surfaces there are: the pointer
\* hits what the user sees below it.  Handles reach past the frame they belong
\* to, over what is behind the window and nothing else, and the controls of a
\* window come before its own popup.
SeenIsHit ==
  LET elements == SceneElements IN
  \A p \in Points :
    LET hit == PointerTarget(p)
        seen == Foremost(elements, p)
    IN  \/ hit = seen
        \/ \E w \in Apps :
              /\ hit = <<"frame", w>>
              /\ \/ /\ p \in FrameBy(w, Outset) \ FrameBy(w, 0)
                    /\ seen \notin ({"frame", "client", "popup"} \X FromUp(w)) \cup ({"panel"} \X UpperPanels)
                 \/ p \in Controls(w) /\ seen = <<"popup", w>>

\* After every iteration the pointer is in the surface that is below it:
\* whatever was mapped, closed, raised, moved or locked meanwhile.  stale marks
\* the changes that leave the focus to the next motion: commits, a fullscreen
\* mode that does not move the window, and anything during a grab.
FocusFollows ==
  settled /\ ~pointer.grabbed /\ ~stale => pointer.focus = SurfaceUnder(pointer.at)
==============================================================================
