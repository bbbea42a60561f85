------------------------------- MODULE Desktop -------------------------------
(***************************************************************************)
(* Windows, workspaces and the keyboard focus of BlairState (state.rs), as *)
(* functions on the part d of that state they read and write. Geometry and *)
(* stacking are left out: which window of a workspace is the topmost is an *)
(* argument of the operators that ask.                                     *)
(*                                                                         *)
(* An output is named by its place in the order of the names. One surface  *)
(* stands for the layer surfaces that may take the keyboard, one for the   *)
(* surface of a session locker; popups are not modelled.                   *)
(***************************************************************************)
EXTENDS Integers, SequencesExt, FiniteSetsExt, Retaining

CONSTANTS
    Windows, NoWindow,
    NoFocus, Layer, Locker,     \* keyboard focus that is not a window
    MaxOutputs,                 \* bound on the outputs of a session
    MaxWorkspace,               \* bound on workspace ids
    Sessions                    \* what a session has, from which one is chosen

NoOutput == 0
Ids == 1..MaxWorkspace

\* The configuration, as far as it matters here: [workspaces] and [focus].
Config == [count : Ids, dynamic : BOOLEAN, wrap : BOOLEAN,
           pins : [Ids -> 0..MaxOutputs],
           focus_new : BOOLEAN, focus_previous : BOOLEAN, sloppy : BOOLEAN]

ASSUME FocusAssumption == /\ IsFiniteSet(Windows) /\ NoWindow \notin Windows
                          /\ {NoFocus, Layer, Locker} \cap Windows = {}
                          /\ NoFocus # Layer /\ NoFocus # Locker /\ Layer # Locker

\* Which session it is never changes: its number of outputs, bounds on windows
\* and workspaces, the configurations that may be loaded, the interactivities
\* of its layer surfaces, and whether a client may lock it.
ASSUME OutputsAssumption == MaxOutputs \in Nat \ {0} /\ MaxWorkspace \in Nat \ {0}
ASSUME SessionsAssumption ==
    \A i \in DOMAIN Sessions :
        /\ Sessions[i].configs \subseteq {c \in Config : c.count >= Sessions[i].outputs}
        /\ DOMAIN Sessions[i] = {"outputs", "windows", "workspaces", "configs", "layers", "locking"}
        /\ Sessions[i].outputs \in 1..MaxOutputs /\ Sessions[i].workspaces \in Ids
        /\ Sessions[i].layers \subseteq {"none", "demand", "exclusive"}

Keyboards == Windows \cup {NoFocus, Layer, Locker}

\* ManagedWindow.
Window == [is : {"absent", "created", "mapped"}, on : Ids, minimized : BOOLEAN]

\* What an API client makes of the events it is sent.
View == [windows : SUBSET Windows, minimized : SUBSET Windows,
         focused : Windows \cup {NoWindow}, shown : UNION {[1..n -> Ids] : n \in 1..MaxOutputs}]

-----------------------------------------------------------------------------
(* Readers. *)

Outputs(d) == DOMAIN d.shown
Mapped(d) == {w \in Windows : d.windows[w].is = "mapped"}
On(d, id) == {w \in Mapped(d) : d.windows[w].on = id}
Visible(d, id) == {w \in On(d, id) : ~d.windows[w].minimized}
Shown(d) == Range(d.shown)

\* focused_workspace_id.
Current(d) == d.shown[d.output]

\* The windows that topmost_window_on may find.
Topmost(d, id) == IF Visible(d, id) = {} THEN {NoWindow} ELSE Visible(d, id)

\* focused_workspace_window.
WorkspaceWindow(d) ==
    LET w == d.focus_of[Current(d)] IN
    IF w \in Mapped(d) /\ ~d.windows[w].minimized THEN w ELSE NoWindow

\* resolve_workspace_target; no workspace is 0.
Resolved(d, id) ==
    IF id \in d.workspaces THEN id
    ELSE IF ~d.config.wrap \/ d.config.dynamic THEN NoOutput
    ELSE IF id = 0 THEN d.config.count ELSE ((id - 1) % d.config.count) + 1

Removable(d, id) ==
    /\ d.config.dynamic /\ id > d.config.count
    /\ id \in d.workspaces \ Shown(d)
    /\ On(d, id) = {}

Without(seq, w) == Retained(seq, Windows \ {w})

-----------------------------------------------------------------------------
(* The keyboard focus. *)

\* Where set_keyboard_focus sends the keyboard when surface is asked for.
Target(d, surface) ==
    IF d.locked THEN IF d.lock_surface THEN Locker ELSE NoFocus
    ELSE IF d.layer = "exclusive" THEN Layer
    ELSE surface

\* keyboard_focus_changed: the window w, or a surface of no window.
FocusChanged(d, w) ==
    IF w = d.focused THEN d
    ELSE LET e == [d EXCEPT !.focused = w, !.told.focused = w]
         IN  IF w = NoWindow \/ d.windows[w].on \notin d.workspaces THEN e
             ELSE [e EXCEPT !.focus_of[d.windows[w].on] = w,
                            !.history[d.windows[w].on] = Append(Without(@, w), w)]

\* Smithay reports a change of focus only when there is a new focus.
SetKeyboardFocus(d, surface) ==
    LET target == Target(d, surface)
        e == [d EXCEPT !.keyboard = target]
    IN  IF d.keyboard = target \/ target = NoFocus THEN e
        ELSE FocusChanged(e, IF target \in Windows THEN target ELSE NoWindow)

\* Mutant of FocusPrevious: minimized windows are candidates.
FocusPreviousMinimized(d) ==
    LET candidates == Retained(d.history[Current(d)], On(d, Current(d)) \ {d.focused})
    IN  SetKeyboardFocus(d, IF candidates = <<>> THEN NoFocus ELSE Last(candidates))

\* focus_previous_window.
FocusPrevious(d) ==
    LET candidates == Retained(d.history[Current(d)], Visible(d, Current(d)) \ {d.focused})
    IN  SetKeyboardFocus(d, IF candidates = <<>> THEN NoFocus ELSE Last(candidates))

\* release_layer_focus.
ReleaseLayerFocus(d) ==
    IF d.keyboard \in {Layer, NoFocus}
    THEN SetKeyboardFocus(d, IF WorkspaceWindow(d) = NoWindow THEN NoFocus ELSE WorkspaceWindow(d))
    ELSE d

\* Mutant of FocusInteractiveLayer: a layer takes the keyboard only when free.
FocusFreeLayer(d) ==
    IF d.locked THEN d
    ELSE IF d.layer = "none" THEN ReleaseLayerFocus(d)
    ELSE IF d.keyboard = NoFocus THEN SetKeyboardFocus(d, Layer)
    ELSE d

\* focus_interactive_layer_surface.
FocusInteractiveLayer(d) ==
    IF d.locked THEN d
    ELSE IF d.layer = "none" THEN ReleaseLayerFocus(d)
    ELSE IF d.layer = "exclusive" \/ d.keyboard = NoFocus THEN SetKeyboardFocus(d, Layer)
    ELSE d

-----------------------------------------------------------------------------
(* Workspaces. *)

\* A workspace that is not in the list has no focus, history or pin.
Removed(d, ids) ==
    [d EXCEPT !.workspaces = @ \ ids,
              !.focus_of = [id \in Ids |-> IF id \in ids THEN NoWindow ELSE @[id]],
              !.history = [id \in Ids |-> IF id \in ids THEN <<>> ELSE @[id]],
              !.pins = [id \in Ids |-> IF id \in ids THEN NoOutput ELSE @[id]],
              !.changed = TRUE]

\* Mutant of Pruned: a hidden workspace goes with the windows on it.
PrunedHidden(d, id) ==
    IF d.config.dynamic /\ id > d.config.count /\ id \in d.workspaces \ Shown(d)
    THEN Removed(d, {id}) ELSE d

\* Mutant of Pruned: clients are not told.
PrunedQuietly(d, id) == IF Removable(d, id) THEN [Removed(d, {id}) EXCEPT !.changed = d.changed] ELSE d

\* prune_workspace_if_empty.
Pruned(d, id) == IF Removable(d, id) THEN Removed(d, {id}) ELSE d

\* ensure_workspace: every id up to this one.
Ensured(d, id) ==
    IF (id > d.config.count /\ ~d.config.dynamic) \/ 1..id \subseteq d.workspaces THEN d
    ELSE [d EXCEPT !.workspaces = @ \cup 1..id, !.changed = TRUE]

\* Mutant of FocusHere: the restored window is not announced.
FocusHereUntold(d, w) == SetKeyboardFocus([d EXCEPT !.windows[w].minimized = FALSE], w)

\* focus_window_by_id on the focused workspace: the window is restored first.
FocusHere(d, w) ==
    SetKeyboardFocus([d EXCEPT !.windows[w].minimized = FALSE, !.told.minimized = @ \ {w}], w)

\* Mutant of Switched: a workspace that remembers no focus gets none.
SwitchedByMemory(d, id, top) ==
    LET current == Current(d)
        shown == [o \in Outputs(d) |-> IF o = d.output THEN id
                                    ELSE IF d.shown[o] = id THEN current ELSE d.shown[o]]
        target == d.focus_of[id]
        e == [d EXCEPT !.shown = shown, !.told.shown = shown]
        f == IF target \in Mapped(d) THEN FocusHere(e, target) ELSE SetKeyboardFocus(e, NoFocus)
    IN  IF id = current THEN d ELSE Pruned(f, current)

\* switch_workspace for an id that exists. The focused window of a workspace
\* is mapped on it, so focus_window_by_id does not switch again.
Switched(d, id, top) ==
    LET current == Current(d)
        shown == [o \in Outputs(d) |-> IF o = d.output THEN id
                                    ELSE IF d.shown[o] = id THEN current ELSE d.shown[o]]
        target == IF d.focus_of[id] = NoWindow THEN top ELSE d.focus_of[id]
        e == [d EXCEPT !.shown = shown, !.told.shown = shown]
        f == IF target \in Mapped(d) THEN FocusHere(e, target) ELSE SetKeyboardFocus(e, NoFocus)
    IN  IF id = current THEN d ELSE Pruned(f, current)

\* focus_window_by_id.
FocusById(d, w) ==
    LET id == d.windows[w].on IN
    IF id = Current(d) THEN FocusHere(d, w)
    ELSE Switched([d EXCEPT !.focus_of[id] = w], id, NoWindow)

-----------------------------------------------------------------------------
(* Windows. *)

\* map_window on the workspace id, which the rules or the focus choose.
MappedOn(d, w, id) ==
    LET e == [d EXCEPT !.windows[w] = [is |-> "mapped", on |-> id, minimized |-> FALSE],
                       !.told.windows = @ \cup {w}, !.changed = TRUE]
    IN  IF id = Current(d) /\ d.config.focus_new THEN SetKeyboardFocus(e, w)
        ELSE [e EXCEPT !.history[id] = <<w>> \o @,
                       !.focus_of[id] = IF @ = NoWindow THEN w ELSE @]

\* A workspace that had w for its focused window turns to its history.
FocusLeft(d, w, ids) ==
    LET history == [id \in Ids |-> IF id \in ids THEN Without(d.history[id], w) ELSE d.history[id]]
    IN  [d EXCEPT !.history = history,
                  !.focus_of = [id \in Ids |->
                      IF id \notin ids \/ @[id] # w THEN @[id]
                      ELSE IF history[id] = <<>> THEN NoWindow ELSE Last(history[id])]]

\* forget_window_focus.
Forgotten(d, w) ==
    LET e == FocusLeft(d, w, Ids)
        f == [e EXCEPT !.focused = NoWindow]
    IN  IF d.focused # w THEN e
        ELSE IF d.config.focus_previous THEN FocusPrevious(f)
        ELSE SetKeyboardFocus(f, NoFocus)

\* unmap_window and toplevel_destroyed: w leaves the screen and becomes is.
Closed(d, w, is) ==
    LET id == d.windows[w].on
        left == [is |-> is, on |-> IF is = "absent" THEN 1 ELSE id, minimized |-> FALSE]
        e == Forgotten([d EXCEPT !.windows[w] = left], w)
    IN  IF w \notin Mapped(d) THEN e
        ELSE Pruned([e EXCEPT !.told.windows = @ \ {w},
                              !.told.minimized = @ \ {w},
                              !.told.focused = IF @ = w THEN NoWindow ELSE @,
                              !.changed = TRUE], id)

\* minimize_window.
Minimized(d, w) ==
    IF d.windows[w].minimized THEN d
    ELSE LET e == [d EXCEPT !.windows[w].minimized = TRUE, !.told.minimized = @ \cup {w}]
         IN  IF d.focused = w THEN FocusPrevious(e) ELSE e

\* Mutant of Moved: the old workspace remembers the window.
MovedRemembered(d, w, id) ==
    LET e == [d EXCEPT !.windows[w].on = id]
        f == IF d.focused = w THEN FocusPrevious(e) ELSE e
    IN  IF d.windows[w].on = id THEN d ELSE Pruned([f EXCEPT !.changed = TRUE], d.windows[w].on)

\* move_window_to_workspace.
Moved(d, w, id) ==
    LET previous == d.windows[w].on
        e == FocusLeft([d EXCEPT !.windows[w].on = id], w, {previous})
        f == IF d.focused = w THEN FocusPrevious(e) ELSE e
    IN  IF previous = id THEN d ELSE Pruned([f EXCEPT !.changed = TRUE], previous)

\* toggle_desktop: what it hid comes back, or the windows in order disappear,
\* the focused one last.
Toggled(d, order) ==
    LET id == Current(d)
        Restore(e, w) == IF w \in On(e, id) /\ e.windows[w].minimized THEN FocusHere(e, w) ELSE e
    IN  IF d.hidden[id] # <<>>
        THEN FoldLeft(Restore, [d EXCEPT !.hidden[id] = <<>>], d.hidden[id])
        ELSE [FoldLeft(Minimized, d, order) EXCEPT !.hidden[id] = order]

-----------------------------------------------------------------------------
(* Configuration. *)

\* Mutant of Resized: the last workspace is taken for its index.
ResizedByIndex(d, c) ==
    LET Clamped(id) == IF id > c.count THEN c.count - 1 ELSE id
        e == [d EXCEPT !.config = c,
                       !.workspaces = @ \cup 1..c.count,
                       !.pins = [id \in Ids |-> IF id <= c.count THEN c.pins[id] ELSE @[id]]]
    IN  IF c.dynamic THEN Removed(e, {id \in Ids : Removable(e, id)})
        ELSE [Removed(e, {id \in Ids : id > c.count}) EXCEPT
                  !.windows = [w \in Windows |-> [d.windows[w] EXCEPT !.on = Clamped(@)]],
                  !.shown = [o \in Outputs(d) |-> Clamped(d.shown[o])]]

\* The workspaces of c, with the windows and outputs that are on others moved
\* to the last one, unless c is dynamic: then only what is unused goes.
Resized(d, c) ==
    LET Clamped(id) == IF id > c.count THEN c.count ELSE id
        e == [d EXCEPT !.config = c,
                       !.workspaces = @ \cup 1..c.count,
                       !.pins = [id \in Ids |-> IF id <= c.count THEN c.pins[id] ELSE @[id]]]
    IN  IF c.dynamic THEN Removed(e, {id \in Ids : Removable(e, id)})
        ELSE [Removed(e, {id \in Ids : id > c.count}) EXCEPT
                  !.windows = [w \in Windows |-> [d.windows[w] EXCEPT !.on = Clamped(@)]],
                  !.shown = [o \in Outputs(d) |-> Clamped(d.shown[o])]]

\* Only windows that are on a workspace stay in its history.
Cleaned(d) ==
    LET history == [id \in Ids |-> Retained(d.history[id], {w \in Windows : d.windows[w].on = id})]
    IN  [d EXCEPT !.history = history,
                  !.focus_of = [id \in Ids |-> IF @[id] \in Range(history[id]) THEN @[id] ELSE NoWindow]]

\* Every output shows the last workspace pinned to it; where two show the
\* same, the later one takes the first that is not assigned yet.
Assigned(d) ==
    LET pinned(o) == {id \in d.workspaces : d.pins[id] = o}
        wanted == [o \in Outputs(d) |-> IF pinned(o) = {} THEN d.shown[o] ELSE Max(pinned(o))]
        Assign(shown, o) ==
            LET taken == {shown[p] : p \in 1..o - 1}
                free == d.workspaces \ taken
            IN  IF wanted[o] \in taken /\ free # {} THEN Append(shown, Min(free))
                ELSE Append(shown, wanted[o])
        shown == FoldLeft(Assign, <<>>, [o \in Outputs(d) |-> o])
    IN  [d EXCEPT !.shown = shown, !.told.shown = shown]

\* apply_workspace_config, but for the focus.
Rearranged(d, c) == Assigned(Cleaned(Resized(d, c)))

\* apply_config; the focused window keeps the focus where it is still shown.
Configured(d, c, top) ==
    LET e == Rearranged(d, c)
        Same(field) == d.config[field] = c[field]
    IN  IF \A field \in {"count", "dynamic", "wrap", "pins"} : Same(field)
        THEN [d EXCEPT !.config = c]
        ELSE IF e.focused \in Visible(e, Current(e)) THEN e
        ELSE IF top = NoWindow THEN SetKeyboardFocus(e, NoFocus)
        ELSE FocusHere(e, top)

\* BlairState::new and add_output for every output: an output takes the first
\* workspace that is pinned to it and not shown yet, or the first not shown.
Started(session, c) ==
    LET Added(shown, o) ==
            LET free == {id \in 1..c.count : \A p \in 1..o - 1 : shown[p] # id}
                pinned == {id \in free : c.pins[id] = o}
            IN  Append(shown, Min(IF pinned = {} THEN free ELSE pinned))
        shown == FoldLeft(Added, <<>>, [o \in 1..Sessions[session].outputs |-> o])
    IN  [session |-> session,
         windows |-> [w \in Windows |-> [is |-> "absent", on |-> 1, minimized |-> FALSE]],
         workspaces |-> 1..c.count,
         pins |-> [id \in Ids |-> IF id <= c.count THEN c.pins[id] ELSE NoOutput],
         focus_of |-> [id \in Ids |-> NoWindow],
         history |-> [id \in Ids |-> <<>>],
         shown |-> shown, output |-> 1,
         focused |-> NoWindow, keyboard |-> NoFocus,
         layer |-> "absent", locked |-> FALSE, lock_surface |-> FALSE,
         hidden |-> [id \in Ids |-> <<>>],
         config |-> c,
         told |-> [windows |-> {}, minimized |-> {}, focused |-> NoWindow, shown |-> shown],
         changed |-> FALSE]
=============================================================================
