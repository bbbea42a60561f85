----------------------------- MODULE Workspaces -----------------------------
(***************************************************************************)
(* The handlers of BlairState that change windows, workspaces and the      *)
(* keyboard focus: requests of Wayland clients and of the D-Bus API,       *)
(* pointer, shortcut and hot corner actions, layer surfaces, the session   *)
(* lock and a reload of the configuration, in any order. Each handler runs *)
(* to its end before the next, on the one thread of the compositor.        *)
(***************************************************************************)
EXTENDS Desktop

VARIABLE desktop    \* the part of BlairState described in Desktop

\* The desktop a handler finds; "changed" says whether it sends WorkspacesChanged.
Now == [desktop EXCEPT !.changed = FALSE]

\* What there is in this session.
Session == Sessions[desktop.session]

Init == \E i \in DOMAIN Sessions : \E c \in Sessions[i].configs : desktop = Started(i, c)

-----------------------------------------------------------------------------
(* Toplevels. *)

NewToplevel(w) ==
    /\ Now.windows[w].is = "absent"
    /\ Cardinality({v \in Windows : Now.windows[v].is # "absent"}) < Session.windows
    /\ desktop' = [Now EXCEPT !.windows[w].is = "created", !.windows[w].on = Current(Now)]

\* The first buffer of a toplevel; a rule may name any workspace.
MapWindow(w) ==
    /\ Now.windows[w].is = "created"
    /\ \E id \in Now.workspaces \cup {Current(Now)} : desktop' = MappedOn(Now, w, id)

UnmapWindow(w) ==
    /\ w \in Mapped(Now)
    /\ desktop' = Closed(Now, w, "created")

ToplevelDestroyed(w) ==
    /\ Now.windows[w].is # "absent"
    /\ desktop' = Closed(Now, w, "absent")

\* minimize_request, the title bar and the API.
MinimizeWindow(w) ==
    /\ w \in Mapped(Now)
    /\ desktop' = Minimized(Now, w)

\* focus_window of the API and an activation by a client, also while locked.
FocusWindow(w) ==
    /\ w \in Mapped(Now)
    /\ desktop' = FocusById(Now, w)

-----------------------------------------------------------------------------
(* The pointer. *)

\* move_pointer: the output under the pointer takes the focus, and with the
\* sloppy policy so does the window the pointer is over.
MovePointer(o) ==
    LET d == [Now EXCEPT !.output = o]
        under == IF d.locked THEN {} ELSE Visible(d, Current(d))
        Entered(w) == IF d.config.sloppy /\ w \notin {NoWindow, d.focused}
                      THEN SetKeyboardFocus(d, w) ELSE d
    IN  \E w \in under \cup {NoWindow} : desktop' = Entered(w)

PressWindow(w) ==
    /\ ~Now.locked /\ w \in Visible(Now, Current(Now))
    /\ desktop' = SetKeyboardFocus(Now, w)

PressLayer ==
    /\ ~Now.locked /\ Now.layer \in {"demand", "exclusive"}
    /\ desktop' = SetKeyboardFocus(Now, Layer)

PressLocker ==
    /\ Now.locked /\ Now.lock_surface
    /\ desktop' = SetKeyboardFocus(Now, Locker)

PressNothing == desktop' = SetKeyboardFocus(Now, NoFocus)

-----------------------------------------------------------------------------
(* Workspaces. *)

SwitchFrom(d, id) ==
    LET target == Resolved(d, id) IN
    IF target = NoOutput THEN desktop' = d
    ELSE \E top \in Topmost(d, target) : desktop' = Switched(d, target, top)

SwitchWorkspace(id) == SwitchFrom(Now, id)

\* The workspace shortcut creates what it names, where that is allowed.
WorkspaceShortcut(id) == ~Now.locked /\ SwitchFrom(Ensured(Now, id), id)

NextWorkspace ==
    LET target == Current(Now) + 1 IN
    /\ ~Now.locked
    /\ Now.config.dynamic => target <= Session.workspaces
    /\ SwitchFrom(Ensured(Now, target), target)

PreviousWorkspace ==
    /\ ~Now.locked
    /\ SwitchFrom(Now, IF Current(Now) > 1 THEN Current(Now) - 1
                       ELSE IF Now.config.wrap THEN Now.config.count ELSE 1)

MoveWindowToWorkspace(w, id) ==
    /\ Now.windows[w].is # "absent" /\ id \in Now.workspaces
    /\ desktop' = Moved(Now, w, id)

\* The shortcut moves the window that had the focus last.
MoveShortcut(id) ==
    LET d == Ensured(Now, id) IN
    /\ ~Now.locked /\ Now.focused # NoWindow
    /\ desktop' = IF id \in d.workspaces THEN Moved(d, Now.focused, id) ELSE d

CreateWorkspace ==
    LET free == 1..Session.workspaces \ Now.workspaces IN
    /\ Now.config.dynamic /\ free # {}
    /\ desktop' = [Now EXCEPT !.workspaces = @ \cup {Min(free)}, !.changed = TRUE]

DestroyWorkspace(id) ==
    /\ Removable(Now, id)
    /\ desktop' = Removed(Now, {id})

\* The ids of windows grow in the order of their creation, which is not kept.
ShowDesktop ==
    /\ ~Now.locked
    /\ \E order \in SetToSeqs(Visible(Now, Current(Now))) :
          /\ Now.focused \in Range(order) => Last(order) = Now.focused
          /\ desktop' = Toggled(Now, order)

ApplyConfig(c) ==
    LET d == Rearranged(Now, c) IN
    \E top \in Topmost(d, Current(d)) : desktop' = Configured(Now, c, top)

-----------------------------------------------------------------------------
(* Layer surfaces and the session lock. *)

MapLayer(interactivity) ==
    /\ Now.layer = "absent"
    /\ desktop' = FocusInteractiveLayer([Now EXCEPT !.layer = interactivity])

CommitLayer(interactivity) ==
    /\ Now.layer # "absent"
    /\ desktop' = FocusInteractiveLayer([Now EXCEPT !.layer = interactivity])

UnmapLayer ==
    /\ Now.layer # "absent"
    /\ desktop' = ReleaseLayerFocus([Now EXCEPT !.layer = "absent"])

Lock ==
    /\ Session.locking /\ ~Now.locked
    /\ desktop' = SetKeyboardFocus([Now EXCEPT !.locked = TRUE, !.lock_surface = FALSE], NoFocus)

NewLockSurface ==
    /\ Now.locked /\ ~Now.lock_surface
    /\ desktop' = SetKeyboardFocus([Now EXCEPT !.lock_surface = TRUE], Locker)

LockSurfaceDies ==
    /\ Now.lock_surface
    /\ desktop' = [Now EXCEPT !.lock_surface = FALSE]

Unlock ==
    /\ Now.locked
    /\ desktop' = SetKeyboardFocus([Now EXCEPT !.locked = FALSE, !.lock_surface = FALSE], NoFocus)

Toplevels ==
    \E w \in Windows :
        \/ NewToplevel(w) \/ MapWindow(w) \/ UnmapWindow(w) \/ ToplevelDestroyed(w)
        \/ MinimizeWindow(w) \/ FocusWindow(w)

Pointer ==
    \/ \E o \in Outputs(desktop) : MovePointer(o)
    \/ \E w \in Windows : PressWindow(w)
    \/ PressLayer \/ PressLocker \/ PressNothing

Spaces ==
    \/ \E id \in 0..Session.workspaces : SwitchWorkspace(id)
    \/ \E id \in 1..Session.workspaces : WorkspaceShortcut(id) \/ MoveShortcut(id) \/ DestroyWorkspace(id)
    \/ \E w \in Windows, id \in 1..Session.workspaces : MoveWindowToWorkspace(w, id)
    \/ NextWorkspace \/ PreviousWorkspace \/ CreateWorkspace \/ ShowDesktop
    \/ \E c \in Session.configs : ApplyConfig(c)

Surfaces ==
    \/ \E interactivity \in Session.layers :
          MapLayer(interactivity) \/ CommitLayer(interactivity)
    \/ UnmapLayer
    \/ Lock \/ NewLockSurface \/ LockSurfaceDies \/ Unlock

Next == Toplevels \/ Pointer \/ Spaces \/ Surfaces

Spec == Init /\ [][Next]_desktop

-----------------------------------------------------------------------------
(* Properties. *)

\* The type invariant.
TypeOK ==
    /\ desktop.windows \in [Windows -> Window]
    /\ desktop.workspaces \subseteq Ids
    /\ desktop.pins \in [Ids -> 0..MaxOutputs]
    /\ desktop.focus_of \in [Ids -> Windows \cup {NoWindow}]
    /\ desktop.history \in [Ids -> Seq(Windows)]
    /\ desktop.shown \in [1..Session.outputs -> Ids]
    /\ desktop.output \in Outputs(desktop)
    /\ desktop.focused \in Windows \cup {NoWindow}
    /\ desktop.keyboard \in Keyboards
    /\ desktop.layer \in {"absent", "none", "demand", "exclusive"}
    /\ {desktop.locked, desktop.lock_surface, desktop.changed} \subseteq BOOLEAN
    /\ desktop.hidden \in [Ids -> Seq(Windows)]
    /\ desktop.config \in Session.configs
    /\ desktop.told \in View

\* Keys never go to a window the user does not see: whatever is closed,
\* minimized, moved, switched or reconfigured, the window with the keyboard is
\* the focused one and is visible on an output.
KeyboardSeen ==
    desktop.keyboard \in Windows =>
        /\ desktop.keyboard = desktop.focused
        /\ \E o \in Outputs(desktop) : desktop.keyboard \in Visible(desktop, desktop.shown[o])

\* A session lock takes the keyboard from everybody else, an exclusive layer
\* from the windows, and both give it back when they go.
KeyboardClaimed ==
    /\ desktop.locked => desktop.keyboard \in {Locker, NoFocus}
    /\ ~desktop.locked => desktop.keyboard # Locker
    /\ ~desktop.locked /\ desktop.layer = "exclusive" => desktop.keyboard = Layer
    /\ desktop.keyboard = Layer => desktop.layer \in {"demand", "exclusive"}

\* The focus a workspace remembers is always on a window that is mapped on it.
HistorySound ==
    \A id \in Ids :
        LET kept == IF id \in desktop.workspaces THEN On(desktop, id) ELSE {}
        IN  /\ Range(desktop.history[id]) \subseteq kept
            /\ desktop.focus_of[id] \in kept \cup {NoWindow}
            /\ IsInjective(desktop.history[id])

\* No mapped window and no output is on a workspace that does not exist, the
\* configured workspaces exist, and each output shows a different one.
NothingStranded ==
    /\ \A w \in Mapped(desktop) : desktop.windows[w].on \in desktop.workspaces
    /\ Shown(desktop) \subseteq desktop.workspaces
    /\ 1..desktop.config.count \subseteq desktop.workspaces
    /\ desktop.config.dynamic \/ desktop.workspaces = 1..desktop.config.count
    /\ IsInjective(desktop.shown)

\* What is remembered, shown and configured names windows and workspaces that
\* are there.
DesktopSound == HistorySound /\ NothingStranded

\* A client that follows the events from the start knows the windows, which of
\* them are minimized or focused, and the workspace of every output.
EventsTell ==
    desktop.told = [windows |-> Mapped(desktop),
                    minimized |-> {w \in Mapped(desktop) : desktop.windows[w].minimized},
                    focused |-> desktop.focused,
                    shown |-> desktop.shown]

\* WorkspacesChanged is sent whenever the set of workspaces or the number of
\* windows of one of them changes.
ChangesTold ==
    [][\/ desktop'.workspaces # desktop.workspaces
       \/ \E id \in Ids : Cardinality(On(desktop', id)) # Cardinality(On(desktop, id))
       => desktop'.changed]_desktop

\* Whoever switches an output to a workspace with visible windows can type
\* into one of them at once, unless a layer or the lock claims the keyboard.
SwitchFocuses ==
    [][/\ desktop'.shown # desktop.shown
       /\ desktop'.config = desktop.config
       /\ ~desktop'.locked /\ desktop'.layer # "exclusive"
       /\ Visible(desktop', Current(desktop')) # {}
       => desktop'.keyboard \in Visible(desktop', Current(desktop'))]_desktop
=============================================================================
