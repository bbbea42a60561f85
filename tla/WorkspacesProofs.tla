-------------------------- MODULE WorkspacesProofs --------------------------
(***************************************************************************)
(* Proofs about Desktop and Workspaces, for any windows, outputs,          *)
(* workspaces and configurations: each operator of Desktop is shown to     *)
(* keep the parts of the inductive invariant, then each handler.           *)
(***************************************************************************)
EXTENDS Workspaces, SequenceFacts

-----------------------------------------------------------------------------
(* The inductive invariant, of the desktop d. *)

State ==
    [session : DOMAIN Sessions, windows : [Windows -> Window],
     workspaces : SUBSET Ids, pins : [Ids -> 0..MaxOutputs],
     focus_of : [Ids -> Windows \cup {NoWindow}], history : [Ids -> Seq(Windows)],
     shown : UNION {[1..n -> Ids] : n \in 1..MaxOutputs}, output : 1..MaxOutputs,
     focused : Windows \cup {NoWindow}, keyboard : Keyboards,
     layer : {"absent", "none", "demand", "exclusive"},
     locked : BOOLEAN, lock_surface : BOOLEAN,
     hidden : [Ids -> Seq(Windows)], config : Config, told : View, changed : BOOLEAN]

\* What a session has does not change.
InSession(d) ==
    /\ d \in State
    /\ DOMAIN d.shown = 1..Sessions[d.session].outputs
    /\ d.output \in Outputs(d)
    /\ d.config \in Sessions[d.session].configs

\* KeyboardClaimed, of d.
Claims(d) ==
    /\ d.locked => d.keyboard \in {Locker, NoFocus}
    /\ ~d.locked => d.keyboard # Locker
    /\ ~d.locked /\ d.layer = "exclusive" => d.keyboard = Layer
    /\ d.keyboard = Layer => d.layer \in {"demand", "exclusive"}

\* KeyboardSeen, of d.
Seen(d) ==
    d.keyboard \in Windows =>
        /\ d.keyboard = d.focused
        /\ \E o \in Outputs(d) : d.keyboard \in Visible(d, d.shown[o])

\* HistorySound, of d.
Remembered(d, id) == IF id \in d.workspaces THEN On(d, id) ELSE {}
Histories(d) ==
    \A id \in Ids :
        /\ Range(d.history[id]) \subseteq Remembered(d, id)
        /\ d.focus_of[id] \in Remembered(d, id) \cup {NoWindow}
        /\ IsInjective(d.history[id])

\* NothingStranded, of d.
Spaced(d) ==
    /\ \A w \in Mapped(d) : d.windows[w].on \in d.workspaces
    /\ Shown(d) \subseteq d.workspaces
    /\ 1..d.config.count \subseteq d.workspaces
    /\ d.config.dynamic \/ d.workspaces = 1..d.config.count
    /\ IsInjective(d.shown)

\* EventsTell, of d; what the clients know of the windows and outputs alone.
ToldRest(d) ==
    /\ d.told.windows = Mapped(d)
    /\ d.told.minimized = {w \in Mapped(d) : d.windows[w].minimized}
    /\ d.told.shown = d.shown
ToldAll(d) == ToldRest(d) /\ d.told.focused = d.focused

\* The focused window is on the desktop, though perhaps not on the screen.
FocusKept(d) == d.focused \in Mapped(d) \cup {NoWindow}

DesktopInv(d) ==
    InSession(d) /\ Claims(d) /\ Seen(d) /\ Histories(d) /\ Spaced(d) /\ ToldAll(d) /\ FocusKept(d)

-----------------------------------------------------------------------------
(* The keyboard focus. *)

\* What a change of the focus leaves alone.
SameButFocus(d, r) ==
    /\ r.session = d.session /\ r.windows = d.windows /\ r.workspaces = d.workspaces
    /\ r.pins = d.pins /\ r.shown = d.shown /\ r.output = d.output
    /\ r.layer = d.layer /\ r.locked = d.locked /\ r.lock_surface = d.lock_surface
    /\ r.hidden = d.hidden /\ r.config = d.config /\ r.changed = d.changed
    /\ r.told.windows = d.told.windows /\ r.told.minimized = d.told.minimized
    /\ r.told.shown = d.told.shown

LEMMA WithoutFacts ==
  ASSUME NEW s \in Seq(Windows), NEW w
  PROVE  /\ Without(s, w) \in Seq(Windows)
         /\ Range(Without(s, w)) = Range(s) \ {w}
         /\ IsInjective(s) => IsInjective(Without(s, w))
<1>1. Range(s) \subseteq Windows
  BY DEF Range
<1>2. /\ Retained(s, Windows \ {w}) \in Seq(Windows)
      /\ Range(Retained(s, Windows \ {w})) = Range(s) \cap (Windows \ {w})
      /\ IsInjective(s) => IsInjective(Retained(s, Windows \ {w}))
  BY RetainedFacts
<1> QED BY <1>1, <1>2 DEF Without

LEMMA FocusChangedFacts ==
  ASSUME NEW d \in State, NEW w \in Windows \cup {NoWindow},
         w # NoWindow => w \in Mapped(d)
  PROVE  LET r == FocusChanged(d, w) IN
         /\ r \in State /\ SameButFocus(d, r)
         /\ r.keyboard = d.keyboard /\ r.focused = w
         /\ IF w = d.focused THEN r.told = d.told ELSE r.told.focused = w
         /\ Histories(d) => Histories(r)
<1> DEFINE r == FocusChanged(d, w)
           e == [d EXCEPT !.focused = w, !.told.focused = w]
           on == d.windows[w].on
<1>1. CASE w = d.focused
  <2>1. r = d
    BY <1>1 DEF FocusChanged
  <2> QED BY <1>1, <2>1 DEF SameButFocus
<1>2. CASE w # d.focused
  <2>1. /\ e \in State /\ SameButFocus(d, e) /\ e.keyboard = d.keyboard
        /\ e.focused = w /\ e.told.focused = w
        /\ e.history = d.history /\ e.focus_of = d.focus_of
    BY DEF State, View, SameButFocus
  <2>2. CASE w = NoWindow \/ on \notin d.workspaces
    <3>1. r = e
      BY <1>2, <2>2 DEF FocusChanged
    <3> HIDE DEF e
    <3>2. Histories(d) => Histories(e)
      BY <2>1 DEF Histories, Remembered, On, Mapped, SameButFocus
    <3> QED BY <1>2, <2>1, <3>1, <3>2
  <2>3. CASE w # NoWindow /\ on \in d.workspaces
    <3> DEFINE h == Append(Without(d.history[on], w), w)
               f == [e EXCEPT !.focus_of[on] = w, !.history[on] = h]
    <3>1. w \in Windows /\ w \in Mapped(d) /\ on \in Ids /\ d.history[on] \in Seq(Windows)
      BY <2>3 DEF State, Window
    <3>2. /\ h \in Seq(Windows)
          /\ Range(h) = (Range(d.history[on]) \ {w}) \cup {w}
          /\ IsInjective(d.history[on]) => IsInjective(h)
      <4>1. /\ Without(d.history[on], w) \in Seq(Windows)
            /\ Range(Without(d.history[on], w)) = Range(d.history[on]) \ {w}
            /\ IsInjective(d.history[on]) => IsInjective(Without(d.history[on], w))
        BY <3>1, WithoutFacts
      <4> QED BY <3>1, <4>1, AppendFacts
    <3>3. r = f
      BY <1>2, <2>1, <2>3 DEF FocusChanged
    <3> HIDE DEF e, h
    <3>4. /\ f \in State /\ SameButFocus(e, f) /\ f.keyboard = e.keyboard
          /\ f.focused = e.focused /\ f.told = e.told
          /\ \A id \in Ids : f.history[id] = IF id = on THEN h ELSE e.history[id]
          /\ \A id \in Ids : f.focus_of[id] = IF id = on THEN w ELSE e.focus_of[id]
      BY <2>1, <3>1, <3>2 DEF State, SameButFocus
    <3> HIDE DEF f
    <3>5. SameButFocus(d, f)
      BY <2>1, <3>4 DEF SameButFocus
    <3>6. ASSUME Histories(d) PROVE Histories(f)
      <4>1. \A id : Remembered(f, id) = Remembered(d, id)
        BY <3>5 DEF Remembered, On, Mapped, SameButFocus
      <4>2. w \in Remembered(d, on)
        BY <2>3, <3>1 DEF Remembered, On
      <4> SUFFICES ASSUME NEW id \in Ids
                   PROVE  /\ Range(f.history[id]) \subseteq Remembered(d, id)
                          /\ f.focus_of[id] \in Remembered(d, id) \cup {NoWindow}
                          /\ IsInjective(f.history[id])
        BY <4>1 DEF Histories
      <4>3. CASE id = on
        BY <2>1, <3>2, <3>4, <3>6, <4>2, <4>3 DEF Histories
      <4>4. CASE id # on
        BY <2>1, <3>4, <3>6, <4>4 DEF Histories
      <4> QED BY <4>3, <4>4
    <3> QED BY <1>2, <2>1, <3>3, <3>4, <3>5, <3>6
  <2> QED BY <2>2, <2>3
<1> QED BY <1>1, <1>2

\* A window with the keyboard is the focused one.
KeysFollow(d) == d.keyboard \in Windows => d.keyboard = d.focused

\* The surfaces that may be asked for.
Askable(d, s) ==
    /\ s \in Keyboards
    /\ s \in Windows => \E o \in Outputs(d) : s \in Visible(d, d.shown[o])
    /\ s = Layer => d.layer \in {"demand", "exclusive"}
    /\ s = Locker => d.locked

LEMMA KeyboardFacts ==
  /\ NoFocus \in Keyboards /\ Layer \in Keyboards /\ Locker \in Keyboards /\ Windows \subseteq Keyboards
  /\ NoFocus \notin Windows /\ Layer \notin Windows /\ Locker \notin Windows /\ NoWindow \notin Windows
  /\ NoFocus # Layer /\ NoFocus # Locker /\ Layer # Locker
BY FocusAssumption DEF Keyboards

LEMMA SetFocusFacts ==
  ASSUME NEW d \in State, NEW s \in Keyboards, s \in Windows => s \in Mapped(d)
  PROVE  LET r == SetKeyboardFocus(d, s) IN
         /\ r \in State /\ SameButFocus(d, r)
         /\ r.keyboard = Target(d, s)
         /\ \/ r.focused = d.focused /\ r.told.focused = d.told.focused
            \/ r.told.focused = r.focused /\ (r.focused = NoWindow \/ (r.focused = s /\ s \in Windows))
         /\ r.keyboard \in Windows =>
               \/ r.focused = r.keyboard
               \/ d.keyboard = r.keyboard /\ r.focused = d.focused
         /\ Histories(d) => Histories(r)
<1> DEFINE r == SetKeyboardFocus(d, s)
           target == Target(d, s)
           e == [d EXCEPT !.keyboard = target]
           w == IF target \in Windows THEN target ELSE NoWindow
<1>1. target \in Keyboards /\ (target \in Windows => target = s)
  BY KeyboardFacts DEF Target
<1> HIDE DEF target
<1>2. /\ e \in State /\ SameButFocus(d, e) /\ e.keyboard = target
      /\ e.focused = d.focused /\ e.told = d.told
      /\ e.history = d.history /\ e.focus_of = d.focus_of
  BY <1>1 DEF State, SameButFocus
<1>3. Histories(d) => Histories(e)
  <2> HIDE DEF e
  <2> QED BY <1>2 DEF Histories, Remembered, On, Mapped, SameButFocus
<1>4. CASE d.keyboard = target \/ target = NoFocus
  <2>1. r = e
    BY <1>4 DEF SetKeyboardFocus, target
  <2> HIDE DEF e
  <2>2. target \in Windows => d.keyboard = target
    BY <1>4, KeyboardFacts
  <2> QED BY <1>2, <1>3, <2>1, <2>2 DEF target
<1>5. CASE ~(d.keyboard = target \/ target = NoFocus)
  <2>1. r = FocusChanged(e, w)
    BY <1>5 DEF SetKeyboardFocus, target
  <2>2. w \in Windows \cup {NoWindow} /\ (w # NoWindow => w \in Mapped(e)) /\ (w # NoWindow => w = s /\ s \in Windows)
    BY <1>1, <1>2 DEF Mapped, SameButFocus
  <2>3. target \in Windows => w = target
    OBVIOUS
  <2> HIDE DEF e, w
  <2>4. /\ r \in State /\ SameButFocus(e, r)
        /\ r.keyboard = e.keyboard /\ r.focused = w
        /\ IF w = e.focused THEN r.told = e.told ELSE r.told.focused = w
        /\ Histories(e) => Histories(r)
    BY <1>2, <2>1, <2>2, FocusChangedFacts
  <2>5. SameButFocus(d, r)
    BY <1>2, <2>4 DEF SameButFocus
  <2> QED BY <1>2, <1>3, <2>2, <2>3, <2>4, <2>5 DEF target
<1> QED BY <1>4, <1>5

\* What does not depend on the focus.
LEMMA SameRest ==
  ASSUME NEW d, NEW r, SameButFocus(d, r)
  PROVE  /\ Spaced(d) <=> Spaced(r)
         /\ ToldRest(d) <=> ToldRest(r)
         /\ Mapped(d) = Mapped(r) /\ Outputs(d) = Outputs(r) /\ Current(d) = Current(r)
         /\ \A id : Visible(d, id) = Visible(r, id) /\ On(d, id) = On(r, id)
         /\ r \in State /\ InSession(d) => InSession(r)
<1>1. /\ Mapped(d) = Mapped(r) /\ Outputs(d) = Outputs(r) /\ Current(d) = Current(r)
      /\ \A id : On(d, id) = On(r, id)
  BY DEF SameButFocus, Mapped, Outputs, On, Current
<1>2. \A id : Visible(d, id) = Visible(r, id)
  BY <1>1 DEF SameButFocus, Visible
<1>3. Spaced(d) <=> Spaced(r)
  BY <1>1 DEF SameButFocus, Spaced, Shown
<1>4. ToldRest(d) <=> ToldRest(r)
  BY <1>1 DEF SameButFocus, ToldRest
<1>5. r \in State /\ InSession(d) => InSession(r)
  BY <1>1 DEF SameButFocus, InSession
<1> QED BY <1>1, <1>2, <1>3, <1>4, <1>5

\* The invariant but for who has the keyboard.
Settled(d) ==
    InSession(d) /\ Histories(d) /\ Spaced(d) /\ ToldAll(d) /\ FocusKept(d) /\ KeysFollow(d)

LEMMA FocusSettles ==
  ASSUME NEW d, Settled(d), NEW s, Askable(d, s)
  PROVE  /\ DesktopInv(SetKeyboardFocus(d, s))
         /\ SameButFocus(d, SetKeyboardFocus(d, s))
         /\ SetKeyboardFocus(d, s).keyboard = Target(d, s)
<1> DEFINE r == SetKeyboardFocus(d, s)
<1>1. d \in State /\ s \in Keyboards
  BY DEF Settled, InSession, Askable
<1>2. s \in Windows => s \in Mapped(d)
  BY DEF Askable, Visible, On
<1>3. /\ r \in State /\ SameButFocus(d, r)
      /\ r.keyboard = Target(d, s)
      /\ \/ r.focused = d.focused /\ r.told.focused = d.told.focused
         \/ r.told.focused = r.focused /\ (r.focused = NoWindow \/ (r.focused = s /\ s \in Windows))
      /\ r.keyboard \in Windows =>
            \/ r.focused = r.keyboard
            \/ d.keyboard = r.keyboard /\ r.focused = d.focused
      /\ Histories(d) => Histories(r)
  BY <1>1, <1>2, SetFocusFacts
<1> HIDE DEF r
<1>4. /\ Spaced(d) <=> Spaced(r)
      /\ ToldRest(d) <=> ToldRest(r)
      /\ Mapped(d) = Mapped(r) /\ Outputs(d) = Outputs(r) /\ Current(d) = Current(r)
      /\ \A id : Visible(d, id) = Visible(r, id) /\ On(d, id) = On(r, id)
      /\ InSession(d) => InSession(r)
  BY <1>3, SameRest
<1>5. InSession(r) /\ Spaced(r) /\ Histories(r)
  BY <1>3, <1>4 DEF Settled
<1>6. ToldAll(r)
  BY <1>3, <1>4 DEF Settled, ToldAll
<1>7. FocusKept(r)
  BY <1>2, <1>3, <1>4 DEF Settled, FocusKept
<1>8. Claims(r)
  BY <1>3, KeyboardFacts DEF Askable, Claims, Target, SameButFocus
<1>9. Seen(r)
  <2> SUFFICES ASSUME r.keyboard \in Windows
               PROVE  /\ r.keyboard = r.focused
                      /\ \E o \in Outputs(r) : r.keyboard \in Visible(r, r.shown[o])
    BY DEF Seen
  <2>1. r.keyboard = s
    BY <1>3, KeyboardFacts DEF Target
  <2>2. r.keyboard = r.focused
    BY <1>3 DEF Settled, KeysFollow
  <2>3. r.shown = d.shown
    BY <1>3 DEF SameButFocus
  <2> QED BY <1>4, <2>1, <2>2, <2>3 DEF Askable
<1> QED BY <1>3, <1>5, <1>6, <1>7, <1>8, <1>9 DEF DesktopInv, r

LEMMA InvSettled ==
  ASSUME NEW d, DesktopInv(d)
  PROVE  Settled(d)
BY DEF DesktopInv, Settled, Seen, KeysFollow

\* The current workspace is one, and it is shown.
LEMMA CurrentFacts ==
  ASSUME NEW d, InSession(d)
  PROVE  /\ Current(d) \in Ids /\ Current(d) \in Shown(d)
         /\ d.output \in Outputs(d) /\ Current(d) = d.shown[d.output]
         /\ \A w \in Visible(d, Current(d)) : Askable(d, w)
<1>0. PICK n \in 1..MaxOutputs : d.shown \in [1..n -> Ids]
  BY DEF InSession, State
<1>1. d.shown \in [Outputs(d) -> Ids] /\ d.output \in Outputs(d)
  BY <1>0 DEF InSession, Outputs
<1>2. Current(d) \in Ids /\ Current(d) \in Shown(d) /\ Current(d) = d.shown[d.output]
  BY <1>1 DEF Current, Shown, Range, Outputs
<1>3. ASSUME NEW w \in Visible(d, Current(d)) PROVE Askable(d, w)
  <2>1. w \in Windows
    BY DEF Visible, On, Mapped
  <2> QED BY <1>1, <1>2, <2>1, KeyboardFacts DEF Askable
<1> QED BY <1>1, <1>2, <1>3

LEMMA FocusPreviousIs ==
  ASSUME NEW d \in State, d.output \in Outputs(d)
  PROVE  \E s \in {NoFocus} \cup (Visible(d, Current(d)) \ {d.focused}) :
            FocusPrevious(d) = SetKeyboardFocus(d, s)
<1> DEFINE among == Visible(d, Current(d)) \ {d.focused}
           h == d.history[Current(d)]
           candidates == Retained(h, among)
<1>1. Current(d) \in Ids /\ h \in Seq(Windows)
  BY DEF State, Current, Outputs
<1>2. candidates \in Seq(Windows) /\ Range(candidates) \subseteq among
  BY <1>1, RetainedFacts
<1>3. CASE candidates = <<>>
  BY <1>3 DEF FocusPrevious
<1>4. CASE candidates # <<>>
  <2>1. Last(candidates) \in among
    BY <1>2, <1>4, LastFacts
  <2> QED BY <1>4, <2>1 DEF FocusPrevious
<1> QED BY <1>3, <1>4

LEMMA FocusPreviousKeeps ==
  ASSUME NEW d, Settled(d)
  PROVE  DesktopInv(FocusPrevious(d)) /\ SameButFocus(d, FocusPrevious(d))
<1>1. d \in State /\ d.output \in Outputs(d)
  BY DEF Settled, InSession
<1>2. PICK s \in {NoFocus} \cup (Visible(d, Current(d)) \ {d.focused}) :
         FocusPrevious(d) = SetKeyboardFocus(d, s)
  BY <1>1, FocusPreviousIs
<1>3. Askable(d, s)
  BY CurrentFacts, KeyboardFacts DEF Askable, Settled
<1> QED BY <1>2, <1>3, FocusSettles

\* The window that a workspace with a focus is left to is one the user sees.
LEMMA ReleaseKeeps ==
  ASSUME NEW d, Settled(d), Seen(d), d.keyboard \in {Layer, NoFocus} \/ Claims(d)
  PROVE  DesktopInv(ReleaseLayerFocus(d)) /\ SameButFocus(d, ReleaseLayerFocus(d))
<1> DEFINE w == d.focus_of[Current(d)]
<1>1. Current(d) \in Ids /\ Current(d) \in Shown(d) /\ Current(d) \in d.workspaces
  BY CurrentFacts DEF Settled, Spaced
<1>2. w \in On(d, Current(d)) \cup {NoWindow}
  BY <1>1 DEF Settled, Histories, Remembered
<1>3. WorkspaceWindow(d) # NoWindow => WorkspaceWindow(d) \in Visible(d, Current(d))
  BY <1>2 DEF WorkspaceWindow, Visible
<1>4. Askable(d, IF WorkspaceWindow(d) = NoWindow THEN NoFocus ELSE WorkspaceWindow(d))
  BY <1>3, CurrentFacts, KeyboardFacts DEF Settled, Askable
<1>5. CASE d.keyboard \in {Layer, NoFocus}
  BY <1>4, <1>5, FocusSettles DEF ReleaseLayerFocus
<1>6. CASE d.keyboard \notin {Layer, NoFocus}
  <2>1. ReleaseLayerFocus(d) = d
    BY <1>6 DEF ReleaseLayerFocus
  <2> QED BY <1>6, <2>1 DEF Settled, DesktopInv, SameButFocus
<1> QED BY <1>5, <1>6

-----------------------------------------------------------------------------
(* Workspaces. *)

LEMMA RemovedFacts ==
  ASSUME NEW d \in State, NEW ids \in SUBSET Ids
  PROVE  LET r == Removed(d, ids) IN
         /\ r \in State
         /\ r.session = d.session /\ r.windows = d.windows /\ r.shown = d.shown /\ r.output = d.output
         /\ r.focused = d.focused /\ r.keyboard = d.keyboard
         /\ r.layer = d.layer /\ r.locked = d.locked /\ r.lock_surface = d.lock_surface
         /\ r.hidden = d.hidden /\ r.config = d.config /\ r.told = d.told /\ r.changed
         /\ r.workspaces = d.workspaces \ ids
         /\ \A id \in Ids : r.history[id] = IF id \in ids THEN <<>> ELSE d.history[id]
         /\ \A id \in Ids : r.focus_of[id] = IF id \in ids THEN NoWindow ELSE d.focus_of[id]
         /\ Histories(d) => Histories(r)
<1> DEFINE r == Removed(d, ids)
<1>1. /\ r \in State
      /\ r.session = d.session /\ r.windows = d.windows /\ r.shown = d.shown /\ r.output = d.output
      /\ r.focused = d.focused /\ r.keyboard = d.keyboard
      /\ r.layer = d.layer /\ r.locked = d.locked /\ r.lock_surface = d.lock_surface
      /\ r.hidden = d.hidden /\ r.config = d.config /\ r.told = d.told /\ r.changed
      /\ r.workspaces = d.workspaces \ ids
      /\ \A id \in Ids : r.history[id] = IF id \in ids THEN <<>> ELSE d.history[id]
      /\ \A id \in Ids : r.focus_of[id] = IF id \in ids THEN NoWindow ELSE d.focus_of[id]
  <2> DEFINE f == [id \in Ids |-> IF id \in ids THEN NoWindow ELSE d.focus_of[id]]
             h == [id \in Ids |-> IF id \in ids THEN <<>> ELSE d.history[id]]
             p == [id \in Ids |-> IF id \in ids THEN NoOutput ELSE d.pins[id]]
             e == [d EXCEPT !.workspaces = @ \ ids, !.focus_of = f, !.history = h, !.pins = p, !.changed = TRUE]
  <2>1. f \in [Ids -> Windows \cup {NoWindow}] /\ h \in [Ids -> Seq(Windows)] /\ p \in [Ids -> 0..MaxOutputs]
    BY OutputsAssumption DEF State, NoOutput
  <2>2. /\ \A id \in Ids : h[id] = IF id \in ids THEN <<>> ELSE d.history[id]
        /\ \A id \in Ids : f[id] = IF id \in ids THEN NoWindow ELSE d.focus_of[id]
    OBVIOUS
  <2>3. r = e
    BY DEF Removed, State
  <2> HIDE DEF f, h, p, r
  <2>4. /\ e \in State /\ e.history = h /\ e.focus_of = f
        /\ e.session = d.session /\ e.windows = d.windows /\ e.shown = d.shown /\ e.output = d.output
        /\ e.focused = d.focused /\ e.keyboard = d.keyboard
        /\ e.layer = d.layer /\ e.locked = d.locked /\ e.lock_surface = d.lock_surface
        /\ e.hidden = d.hidden /\ e.config = d.config /\ e.told = d.told /\ e.changed
        /\ e.workspaces = d.workspaces \ ids
    BY <2>1 DEF State
  <2> HIDE DEF e
  <2> QED BY <2>2, <2>3, <2>4
<1> HIDE DEF r
<1>2. ASSUME Histories(d) PROVE Histories(r)
  <2> SUFFICES ASSUME NEW id \in Ids
               PROVE  /\ Range(r.history[id]) \subseteq Remembered(r, id)
                      /\ r.focus_of[id] \in Remembered(r, id) \cup {NoWindow}
                      /\ IsInjective(r.history[id])
    BY DEF Histories
  <2>1. CASE id \in ids
    BY <1>1, <2>1, EmptyFacts
  <2>2. CASE id \notin ids
    <3>1. Remembered(r, id) = Remembered(d, id)
      BY <1>1, <2>2 DEF Remembered, On, Mapped
    <3> QED BY <1>1, <1>2, <2>2, <3>1 DEF Histories
  <2> QED BY <2>1, <2>2
<1> QED BY <1>1, <1>2 DEF r

LEMMA PrunedKeeps ==
  ASSUME NEW d, DesktopInv(d), NEW id \in Ids
  PROVE  /\ DesktopInv(Pruned(d, id))
         /\ Pruned(d, id).shown = d.shown /\ Pruned(d, id).output = d.output
<1>1. CASE ~Removable(d, id)
  BY <1>1 DEF Pruned
<1>2. CASE Removable(d, id)
  <2> DEFINE r == Removed(d, {id})
  <2>1. d \in State
    BY DEF DesktopInv, InSession
  <2>2. /\ r \in State
        /\ r.session = d.session /\ r.windows = d.windows /\ r.shown = d.shown /\ r.output = d.output
        /\ r.focused = d.focused /\ r.keyboard = d.keyboard
        /\ r.layer = d.layer /\ r.locked = d.locked /\ r.lock_surface = d.lock_surface
        /\ r.hidden = d.hidden /\ r.config = d.config /\ r.told = d.told /\ r.changed
        /\ r.workspaces = d.workspaces \ {id}
        /\ Histories(d) => Histories(r)
    BY <2>1, RemovedFacts
  <2>3. Pruned(d, id) = r
    BY <1>2 DEF Pruned
  <2> HIDE DEF r
  <2>4. /\ Mapped(r) = Mapped(d) /\ Outputs(r) = Outputs(d) /\ Shown(r) = Shown(d)
        /\ \A i : On(r, i) = On(d, i) /\ Visible(r, i) = Visible(d, i)
    BY <2>2 DEF Mapped, Outputs, Shown, On, Visible
  <2>5. InSession(r) /\ Claims(r) /\ Seen(r) /\ ToldAll(r) /\ FocusKept(r)
    BY <2>2, <2>4 DEF DesktopInv, InSession, Claims, Seen, ToldAll, ToldRest, FocusKept
  <2>6. Spaced(r)
    <3>1. id \notin Shown(d) /\ id > d.config.count /\ d.config.dynamic /\ On(d, id) = {}
      BY <1>2 DEF Removable
    <3>2. \A w \in Mapped(d) : d.windows[w].on # id
      BY <3>1 DEF On
    <3>3. d.config.count \in Nat
      BY <2>1 DEF State, Config, Ids
    <3>4. id \notin 1..d.config.count
      BY <3>1, <3>3
    <3> QED BY <2>2, <2>4, <3>1, <3>2, <3>4 DEF DesktopInv, Spaced
  <2> QED BY <2>2, <2>3, <2>5, <2>6 DEF DesktopInv
<1> QED BY <1>1, <1>2

\* What the restoration of a window leaves alone.
SameSpaces(d, r) ==
    /\ r.session = d.session /\ r.workspaces = d.workspaces /\ r.pins = d.pins
    /\ r.shown = d.shown /\ r.output = d.output /\ r.layer = d.layer
    /\ r.locked = d.locked /\ r.lock_surface = d.lock_surface
    /\ r.hidden = d.hidden /\ r.config = d.config /\ r.changed = d.changed
    /\ Mapped(r) = Mapped(d) /\ \A id : On(r, id) = On(d, id)

LEMMA FocusHereKeeps ==
  ASSUME NEW d, Settled(d), NEW w, NEW o \in Outputs(d), w \in On(d, d.shown[o])
  PROVE  /\ DesktopInv(FocusHere(d, w)) /\ SameSpaces(d, FocusHere(d, w))
         /\ FocusHere(d, w).keyboard = Target(d, w)
         /\ w \in Visible(FocusHere(d, w), d.shown[o])
<1> DEFINE e == [d EXCEPT !.windows[w].minimized = FALSE, !.told.minimized = @ \ {w}]
           r == FocusHere(d, w)
<1>1. d \in State /\ w \in Windows /\ w \in Mapped(d) /\ d.windows[w].is = "mapped"
  BY DEF Settled, InSession, On, Mapped
<1>2. /\ e \in State
      /\ e.session = d.session /\ e.workspaces = d.workspaces /\ e.pins = d.pins
      /\ e.shown = d.shown /\ e.output = d.output /\ e.layer = d.layer
      /\ e.locked = d.locked /\ e.lock_surface = d.lock_surface
      /\ e.hidden = d.hidden /\ e.config = d.config /\ e.changed = d.changed
      /\ e.keyboard = d.keyboard /\ e.focused = d.focused
      /\ e.history = d.history /\ e.focus_of = d.focus_of
      /\ e.told.windows = d.told.windows /\ e.told.shown = d.told.shown
      /\ e.told.focused = d.told.focused /\ e.told.minimized = d.told.minimized \ {w}
      /\ \A v \in Windows : e.windows[v].is = d.windows[v].is /\ e.windows[v].on = d.windows[v].on
      /\ \A v \in Windows : e.windows[v].minimized = IF v = w THEN FALSE ELSE d.windows[v].minimized
  <2> DEFINE ws == [d.windows EXCEPT ![w].minimized = FALSE]
             t == [d.told EXCEPT !.minimized = @ \ {w}]
             g == [d EXCEPT !.windows = ws, !.told = t]
  <2>1. /\ ws \in [Windows -> Window]
        /\ \A v \in Windows : ws[v].is = d.windows[v].is /\ ws[v].on = d.windows[v].on
        /\ \A v \in Windows : ws[v].minimized = IF v = w THEN FALSE ELSE d.windows[v].minimized
    <3> DEFINE x == [d.windows[w] EXCEPT !.minimized = FALSE]
    <3>1. /\ x \in Window /\ x.is = d.windows[w].is /\ x.on = d.windows[w].on /\ x.minimized = FALSE
          /\ d.windows \in [Windows -> Window]
      BY <1>1 DEF State, Window
    <3>2. ws = [d.windows EXCEPT ![w] = x]
      BY <1>1
    <3> HIDE DEF x
    <3>3. \A v \in Windows : ws[v] = IF v = w THEN x ELSE d.windows[v]
      BY <3>1, <3>2
    <3>4. ws \in [Windows -> Window]
      BY <3>1, <3>2
    <3> HIDE DEF ws
    <3> QED BY <3>1, <3>3, <3>4
  <2>2. /\ t \in View /\ t.windows = d.told.windows /\ t.shown = d.told.shown
        /\ t.focused = d.told.focused /\ t.minimized = d.told.minimized \ {w}
    BY <1>1 DEF State, View
  <2>3. e = g
    BY <1>1 DEF State, View
  <2> HIDE DEF e, ws, t
  <2>4. /\ g \in State /\ g.windows = ws /\ g.told = t
        /\ g.session = d.session /\ g.workspaces = d.workspaces /\ g.pins = d.pins
        /\ g.shown = d.shown /\ g.output = d.output /\ g.layer = d.layer
        /\ g.locked = d.locked /\ g.lock_surface = d.lock_surface
        /\ g.hidden = d.hidden /\ g.config = d.config /\ g.changed = d.changed
        /\ g.keyboard = d.keyboard /\ g.focused = d.focused
        /\ g.history = d.history /\ g.focus_of = d.focus_of
    BY <1>1, <2>1, <2>2 DEF State
  <2> HIDE DEF g
  <2> QED BY <2>1, <2>2, <2>3, <2>4
<1>3. r = SetKeyboardFocus(e, w)
  BY DEF FocusHere
<1> HIDE DEF e
<1>4. Mapped(e) = Mapped(d) /\ \A id : On(e, id) = On(d, id) /\ Remembered(e, id) = Remembered(d, id)
  BY <1>2 DEF Mapped, On, Remembered
<1>5. Settled(e)
  <2>1. InSession(e) /\ Histories(e) /\ FocusKept(e) /\ KeysFollow(e)
    BY <1>2, <1>4 DEF Settled, InSession, Histories, FocusKept, KeysFollow, Outputs
  <2>2. Spaced(e)
    <3>1. \A v \in Mapped(e) : e.windows[v].on = d.windows[v].on
      BY <1>2, <1>4 DEF Mapped
    <3> QED BY <1>2, <1>4, <3>1 DEF Settled, Spaced, Shown
  <2>3. ToldAll(e)
    <3>1. {v \in Mapped(e) : e.windows[v].minimized} = {v \in Mapped(d) : d.windows[v].minimized} \ {w}
      BY <1>2, <1>4 DEF Mapped
    <3> QED BY <1>2, <1>4, <3>1 DEF Settled, ToldAll, ToldRest
  <2> QED BY <2>1, <2>2, <2>3 DEF Settled
<1>6. Askable(e, w)
  <2>1. w \in Visible(e, e.shown[o]) /\ o \in Outputs(e)
    BY <1>1, <1>2, <1>4 DEF Visible, Outputs
  <2> QED BY <1>1, <2>1, KeyboardFacts DEF Askable
<1>7. DesktopInv(r) /\ SameButFocus(e, r) /\ r.keyboard = Target(e, w)
  BY <1>3, <1>5, <1>6, FocusSettles
<1> HIDE DEF r
<1>8. Mapped(r) = Mapped(e) /\ \A id : On(r, id) = On(e, id) /\ Visible(r, id) = Visible(e, id)
  BY <1>7, SameRest
<1>9. Target(e, w) = Target(d, w)
  BY <1>2 DEF Target
<1>10. w \in Visible(e, d.shown[o])
  BY <1>1, <1>2, <1>4 DEF Visible
<1>11. SameSpaces(d, r)
  BY <1>2, <1>4, <1>7, <1>8 DEF SameSpaces, SameButFocus
<1> QED BY <1>7, <1>8, <1>9, <1>10, <1>11 DEF r

\* Clients hear of a change of the workspaces and of the windows on them.
Told(d, r) ==
    /\ d.changed => r.changed
    /\ r.changed \/ (r.workspaces = d.workspaces /\ \A id : On(r, id) = On(d, id))

\* They do, and no output shows another workspace.
Quiet(d, r) == Told(d, r) /\ r.shown = d.shown /\ r.config = d.config

\* The user can type into a window of the workspace the pointer is on.
Landed(r) ==
    ~r.locked /\ r.layer # "exclusive" /\ Visible(r, Current(r)) # {}
        => r.keyboard \in Visible(r, Current(r))

\* What a handler makes of d.
Result(d, r) ==
    DesktopInv(r) /\ Told(d, r) /\ (r.shown = d.shown \/ r.config # d.config \/ Landed(r))

LEMMA QuietFacts ==
  ASSUME NEW d, NEW e, NEW r
  PROVE  /\ Quiet(d, e) /\ Quiet(e, r) => Quiet(d, r)
         /\ SameButFocus(d, e) => Quiet(d, e)
         /\ SameSpaces(d, e) => Quiet(d, e)
         /\ Quiet(d, d)
         /\ DesktopInv(r) /\ Quiet(d, r) => Result(d, r)
         /\ Quiet(d, e) /\ Result(e, r) => Result(d, r)
<1>1. SameButFocus(d, e) => Quiet(d, e)
  BY SameRest DEF SameButFocus, Quiet, Told
<1>2. Told(d, e) /\ Told(e, r) => Told(d, r)
  BY DEF Told
<1>3. SameSpaces(d, e) => Quiet(d, e)
  BY DEF Quiet, SameSpaces, Told
<1>4. Quiet(d, d)
  BY DEF Quiet, Told
<1> QED BY <1>1, <1>2, <1>3, <1>4 DEF Quiet, Result

LEMMA PrunedQuiet ==
  ASSUME NEW d \in State, NEW id \in Ids
  PROVE  Quiet(d, Pruned(d, id)) /\ (Landed(d) => Landed(Pruned(d, id)))
<1>1. CASE ~Removable(d, id)
  BY <1>1, QuietFacts DEF Pruned
<1>2. CASE Removable(d, id)
  <2> DEFINE r == Removed(d, {id})
  <2>1. /\ r.changed /\ r.shown = d.shown /\ r.output = d.output /\ r.windows = d.windows
        /\ r.layer = d.layer /\ r.locked = d.locked /\ r.keyboard = d.keyboard /\ r.config = d.config
    BY RemovedFacts
  <2>2. Pruned(d, id) = r
    BY <1>2 DEF Pruned
  <2> HIDE DEF r
  <2>3. Current(r) = Current(d) /\ \A i : Visible(r, i) = Visible(d, i)
    BY <2>1 DEF Current, Visible, On, Mapped
  <2> QED BY <2>1, <2>2, <2>3 DEF Quiet, Told, Landed
<1> QED BY <1>1, <1>2

LEMMA SwitchedKeeps ==
  ASSUME NEW d, DesktopInv(d), NEW id \in d.workspaces,
         NEW top \in Visible(d, id) \cup {NoWindow},
         top \in Topmost(d, id) \/ d.focus_of[id] # NoWindow
  PROVE  Result(d, Switched(d, id, top))
<1> DEFINE current == Current(d)
           shown == [o \in Outputs(d) |-> IF o = d.output THEN id
                                    ELSE IF d.shown[o] = id THEN current ELSE d.shown[o]]
           target == IF d.focus_of[id] = NoWindow THEN top ELSE d.focus_of[id]
           e == [d EXCEPT !.shown = shown, !.told.shown = shown]
           f == IF target \in Mapped(d) THEN FocusHere(e, target) ELSE SetKeyboardFocus(e, NoFocus)
<1>1. CASE id = current
  BY <1>1, QuietFacts DEF Switched
<1>2. CASE id # current
  <2>0. target = NoWindow => Visible(d, id) = {}
    BY FocusAssumption DEF Topmost, Visible, On, Mapped
  <2>1. d \in State /\ id \in Ids /\ current \in Ids /\ current \in Shown(d) /\ InSession(d)
    BY CurrentFacts DEF DesktopInv, InSession, State
  <2>2. PICK n \in 1..MaxOutputs : d.shown \in [1..n -> Ids]
    BY <2>1 DEF State
  <2>3. Outputs(d) = 1..n /\ d.output \in 1..n /\ current = d.shown[d.output]
    BY <2>1, <2>2 DEF InSession, Outputs, Current
  <2>4. /\ shown \in [1..n -> Ids] /\ DOMAIN shown = Outputs(d)
        /\ \A o \in 1..n : shown[o] = IF o = d.output THEN id
                                      ELSE IF d.shown[o] = id THEN current ELSE d.shown[o]
    <3> HIDE DEF current
    <3> QED BY <2>1, <2>2, <2>3
  <2>5. \A o \in 1..n : d.shown[o] \in Shown(d)
    BY <2>2 DEF Shown, Range
  <2>6. target \in On(d, id) \cup {NoWindow}
    BY <2>1 DEF DesktopInv, Histories, Remembered, Visible
  <2>7. Switched(d, id, top) = Pruned(f, current)
    BY <1>2 DEF Switched
  <2> HIDE DEF shown, target, current
  <2>8. /\ e.layer = d.layer /\ e.locked = d.locked /\ e.lock_surface = d.lock_surface
        /\ e \in State /\ e.shown = shown /\ e.told.shown = shown
        /\ e.session = d.session /\ e.windows = d.windows /\ e.workspaces = d.workspaces
        /\ e.output = d.output /\ e.focused = d.focused /\ e.keyboard = d.keyboard
        /\ e.config = d.config /\ e.history = d.history /\ e.focus_of = d.focus_of
        /\ e.told.windows = d.told.windows /\ e.told.minimized = d.told.minimized
        /\ e.told.focused = d.told.focused /\ e.changed = d.changed
    <3> DEFINE t == [d.told EXCEPT !.shown = shown]
               g == [d EXCEPT !.shown = shown, !.told = t]
    <3>1. shown \in UNION {[1..m -> Ids] : m \in 1..MaxOutputs}
      BY <2>4
    <3>2. /\ t \in View /\ t.shown = shown /\ t.windows = d.told.windows
          /\ t.minimized = d.told.minimized /\ t.focused = d.told.focused
      BY <2>1, <3>1 DEF State, View
    <3>3. e = g
      BY <2>1 DEF State, View
    <3> HIDE DEF t, e
    <3> QED BY <2>1, <3>1, <3>2, <3>3 DEF State
  <2> HIDE DEF e
  <2>9. Mapped(e) = Mapped(d) /\ (\A i : On(e, i) = On(d, i)) /\ Outputs(e) = Outputs(d)
    BY <2>4, <2>8 DEF Mapped, On, Outputs
  <2>10. Settled(e)
    <3>1. InSession(e)
      BY <2>4, <2>8 DEF DesktopInv, InSession, Outputs
    <3>2. Histories(e) /\ FocusKept(e) /\ KeysFollow(e) /\ ToldAll(e)
      BY <2>8, <2>9 DEF DesktopInv, Histories, Remembered, FocusKept, Seen, KeysFollow, ToldAll, ToldRest
    <3>3. Shown(e) \subseteq d.workspaces
      BY <2>1, <2>4, <2>5, <2>8 DEF Shown, Range, DesktopInv, Spaced
    <3>4. IsInjective(shown)
      <4>1. \A o, p \in 1..n : d.shown[o] = d.shown[p] => o = p
        BY <2>2 DEF DesktopInv, Spaced, IsInjective
      <4> QED BY <1>2, <2>3, <2>4, <4>1 DEF IsInjective
    <3>5. Spaced(e)
      BY <2>8, <2>9, <3>3, <3>4 DEF DesktopInv, Spaced
    <3> QED BY <3>1, <3>2, <3>5 DEF Settled
  <2>11. DesktopInv(f) /\ Quiet(e, f) /\ Landed(f)
    <3>1. CASE target \in Mapped(d)
      <4>1. target \in On(e, e.shown[d.output]) /\ d.output \in Outputs(e)
        BY <2>3, <2>4, <2>6, <2>8, <2>9, <3>1, FocusAssumption DEF Mapped
      <4>2. /\ DesktopInv(f) /\ SameSpaces(e, f) /\ f.keyboard = Target(e, target)
            /\ target \in Visible(f, e.shown[d.output])
        BY <2>10, <3>1, <4>1, FocusHereKeeps
      <4> HIDE DEF f
      <4>3. Landed(f)
        BY <2>8, <4>2 DEF Landed, Target, SameSpaces, Current
      <4> QED BY <4>2, <4>3, QuietFacts
    <3>2. CASE target \notin Mapped(d)
      <4>1. Askable(e, NoFocus)
        BY KeyboardFacts DEF Askable
      <4>2. DesktopInv(f) /\ SameButFocus(e, f)
        BY <2>10, <3>2, <4>1, FocusSettles
      <4>3. target = NoWindow
        BY <2>6, <3>2 DEF On
      <4> HIDE DEF f
      <4>4. Visible(f, Current(f)) = Visible(d, id)
        <5>1. Current(f) = id
          BY <2>3, <2>4, <2>8, <4>2 DEF Current, SameButFocus
        <5> QED BY <2>8, <2>9, <4>2, <5>1 DEF Visible, On, Mapped, SameButFocus
      <4> QED BY <2>0, <4>2, <4>3, <4>4, QuietFacts DEF Landed
    <3> QED BY <3>1, <3>2
  <2> HIDE DEF f
  <2>12. DesktopInv(Pruned(f, current)) /\ Quiet(f, Pruned(f, current)) /\ Landed(Pruned(f, current))
    <3>1. f \in State
      BY <2>11 DEF DesktopInv, InSession
    <3> QED BY <2>1, <2>11, <3>1, PrunedKeeps, PrunedQuiet
  <2>13. Told(d, e)
    BY <2>8, <2>9 DEF Told
  <2>14. Told(d, Pruned(f, current))
    BY <2>11, <2>12, <2>13 DEF Quiet, Told
  <2> QED BY <2>7, <2>12, <2>14 DEF Result
<1> QED BY <1>1, <1>2

LEMMA EnsuredKeeps ==
  ASSUME NEW d, DesktopInv(d), NEW id \in Int,
         id \in Ids \/ (id > d.config.count /\ ~d.config.dynamic)
  PROVE  /\ DesktopInv(Ensured(d, id)) /\ Quiet(d, Ensured(d, id))
         /\ Ensured(d, id).windows = d.windows
         /\ Ensured(d, id).session = d.session
         /\ Ensured(d, id).focused = d.focused /\ Ensured(d, id).locked = d.locked
<1> DEFINE stays == (id > d.config.count /\ ~d.config.dynamic) \/ 1..id \subseteq d.workspaces
           e == [d EXCEPT !.workspaces = @ \cup 1..id, !.changed = TRUE]
<1>1. CASE stays
  BY <1>1, QuietFacts DEF Ensured
<1>2. CASE ~stays
  <2>1. Ensured(d, id) = e
    BY <1>2 DEF Ensured
  <2>2. d \in State /\ id \in Ids /\ 1..id \subseteq Ids /\ d.config.count \in Nat
    <3>1. d \in State /\ d.config \in Config
      BY DEF DesktopInv, InSession, State
    <3>2. d.config.count \in Nat
      BY <3>1 DEF Config, Ids
    <3>3. id \in 1..MaxWorkspace
      BY <1>2 DEF Ids
    <3> QED BY <3>1, <3>2, <3>3, OutputsAssumption DEF Ids
  <2>3. /\ e \in State /\ e.workspaces = d.workspaces \cup 1..id /\ e.changed
        /\ e.session = d.session /\ e.windows = d.windows /\ e.shown = d.shown
        /\ e.output = d.output /\ e.focused = d.focused /\ e.keyboard = d.keyboard
        /\ e.layer = d.layer /\ e.locked = d.locked /\ e.lock_surface = d.lock_surface
        /\ e.config = d.config /\ e.history = d.history /\ e.focus_of = d.focus_of
        /\ e.told = d.told
    BY <2>2 DEF State
  <2>4. d.config.dynamic
    <3>1. CASE id > d.config.count
      BY <1>2, <3>1
    <3>2. CASE ~(id > d.config.count)
      <4>1. 1..id \subseteq 1..d.config.count
        BY <2>2, <3>2
      <4> QED BY <1>2, <4>1 DEF DesktopInv, Spaced
    <3> QED BY <3>1, <3>2
  <2> HIDE DEF e
  <2>5. /\ Mapped(e) = Mapped(d) /\ \A i : On(e, i) = On(d, i) /\ Visible(e, i) = Visible(d, i)
        /\ Outputs(e) = Outputs(d) /\ Shown(e) = Shown(d)
    BY <2>3 DEF Mapped, On, Visible, Outputs, Shown
  <2>6. InSession(e) /\ Claims(e) /\ Seen(e) /\ ToldAll(e) /\ FocusKept(e)
    BY <2>3, <2>5 DEF DesktopInv, InSession, Claims, Seen, ToldAll, ToldRest, FocusKept
  <2>7. Spaced(e)
    BY <2>3, <2>4, <2>5 DEF DesktopInv, Spaced
  <2>8. Histories(e)
    <3>1. \A i \in Ids : Remembered(d, i) \subseteq Remembered(e, i)
      BY <2>3, <2>5 DEF Remembered
    <3> QED BY <2>3, <3>1 DEF DesktopInv, Histories
  <2> QED BY <2>1, <2>3, <2>6, <2>7, <2>8 DEF DesktopInv, Quiet, Told
<1> QED BY <1>1, <1>2

LEMMA FocusByIdKeeps ==
  ASSUME NEW d, DesktopInv(d), NEW w \in Mapped(d)
  PROVE  Result(d, FocusById(d, w))
<1> DEFINE id == d.windows[w].on
           e == [d EXCEPT !.focus_of[id] = w]
<1>1. d \in State /\ w \in Windows /\ id \in Ids /\ id \in d.workspaces /\ w \in On(d, id)
  BY DEF DesktopInv, InSession, State, Window, Mapped, On, Spaced
<1>2. CASE id = Current(d)
  <2>1. FocusById(d, w) = FocusHere(d, w)
    BY <1>2 DEF FocusById
  <2>2. InSession(d) /\ Settled(d)
    BY InvSettled DEF DesktopInv
  <2>3. d.output \in Outputs(d) /\ w \in On(d, d.shown[d.output])
    BY <1>1, <1>2, <2>2, CurrentFacts
  <2> QED BY <2>1, <2>2, <2>3, FocusHereKeeps, QuietFacts
<1>3. CASE id # Current(d)
  <2>1. FocusById(d, w) = Switched(e, id, NoWindow)
    BY <1>3 DEF FocusById
  <2> HIDE DEF id
  <2>2. /\ e \in State /\ e.workspaces = d.workspaces /\ e.changed = d.changed
        /\ e.session = d.session /\ e.windows = d.windows /\ e.shown = d.shown
        /\ e.output = d.output /\ e.focused = d.focused /\ e.keyboard = d.keyboard
        /\ e.layer = d.layer /\ e.locked = d.locked /\ e.lock_surface = d.lock_surface
        /\ e.config = d.config /\ e.history = d.history /\ e.told = d.told
        /\ \A i \in Ids : e.focus_of[i] = IF i = id THEN w ELSE d.focus_of[i]
    BY <1>1 DEF State
  <2> HIDE DEF e
  <2>3. /\ Mapped(e) = Mapped(d) /\ \A i : On(e, i) = On(d, i) /\ Visible(e, i) = Visible(d, i)
        /\ Outputs(e) = Outputs(d) /\ Shown(e) = Shown(d)
    BY <2>2 DEF Mapped, On, Visible, Outputs, Shown
  <2>4. InSession(e) /\ Claims(e) /\ Seen(e) /\ ToldAll(e) /\ FocusKept(e) /\ Spaced(e)
    BY <2>2, <2>3 DEF DesktopInv, InSession, Claims, Seen, ToldAll, ToldRest, FocusKept, Spaced
  <2>5. Histories(e)
    BY <1>1, <2>2, <2>3 DEF DesktopInv, Histories, Remembered
  <2>6. DesktopInv(e)
    BY <2>4, <2>5 DEF DesktopInv
  <2>7. Result(e, Switched(e, id, NoWindow))
    <3>1. e.focus_of[id] # NoWindow
      BY <1>1, <2>2, FocusAssumption
    <3> QED BY <1>1, <2>2, <2>6, <3>1, SwitchedKeeps
  <2>8. Quiet(d, e)
    BY <2>2, <2>3 DEF Quiet, Told
  <2> QED BY <2>1, <2>7, <2>8, QuietFacts
<1> QED BY <1>2, <1>3

-----------------------------------------------------------------------------
(* Windows. *)

LEMMA MappedOnKeeps ==
  ASSUME NEW d, DesktopInv(d), NEW w \in Windows, d.windows[w].is = "created",
         NEW id \in d.workspaces
  PROVE  DesktopInv(MappedOn(d, w, id)) /\ Quiet(d, MappedOn(d, w, id))
<1> DEFINE x == [is |-> "mapped", on |-> id, minimized |-> FALSE]
           e == [d EXCEPT !.windows[w] = x, !.told.windows = @ \cup {w}, !.changed = TRUE]
           ws == [d.windows EXCEPT ![w] = x]
           t == [d.told EXCEPT !.windows = @ \cup {w}]
           g == [d EXCEPT !.windows = ws, !.told = t, !.changed = TRUE]
<1>1. d \in State /\ id \in Ids /\ InSession(d)
  BY DEF DesktopInv, InSession, State
<1>2. x \in Window /\ x.is = "mapped" /\ x.on = id /\ x.minimized = FALSE
  BY <1>1 DEF Window
<1>3. /\ t \in View /\ t.windows = d.told.windows \cup {w} /\ t.minimized = d.told.minimized
      /\ t.focused = d.told.focused /\ t.shown = d.told.shown
  BY <1>1 DEF State, View
<1>4. e = g
  BY <1>1 DEF State, View
<1>5. ws \in [Windows -> Window] /\ \A v \in Windows : ws[v] = IF v = w THEN x ELSE d.windows[v]
  <2> HIDE DEF x
  <2> QED BY <1>1, <1>2 DEF State
<1> HIDE DEF x, ws, t, e
<1>6. /\ g \in State /\ g.workspaces = d.workspaces /\ g.changed
      /\ g.session = d.session /\ g.windows = ws /\ g.shown = d.shown
      /\ g.output = d.output /\ g.focused = d.focused /\ g.keyboard = d.keyboard
      /\ g.layer = d.layer /\ g.locked = d.locked /\ g.lock_surface = d.lock_surface
      /\ g.config = d.config /\ g.history = d.history /\ g.focus_of = d.focus_of
      /\ g.told = t
  BY <1>1, <1>3, <1>5 DEF State
<1> HIDE DEF g
<1>7. /\ Mapped(g) = Mapped(d) \cup {w} /\ w \notin Mapped(d)
      /\ \A i : On(g, i) = IF i = id THEN On(d, i) \cup {w} ELSE On(d, i)
      /\ \A i : Visible(d, i) \subseteq Visible(g, i)
      /\ w \in Visible(g, id)
      /\ Outputs(g) = Outputs(d) /\ Shown(g) = Shown(d) /\ Current(g) = Current(d)
  <2>1. Mapped(g) = Mapped(d) \cup {w} /\ w \notin Mapped(d)
    BY <1>2, <1>5, <1>6 DEF Mapped
  <2>2. \A i : On(g, i) = IF i = id THEN On(d, i) \cup {w} ELSE On(d, i)
    BY <1>2, <1>5, <1>6, <2>1 DEF On, Mapped
  <2>3. (\A i : Visible(d, i) \subseteq Visible(g, i)) /\ w \in Visible(g, id)
    BY <1>2, <1>5, <1>6, <2>1, <2>2 DEF Visible, On, Mapped
  <2> QED BY <1>6, <2>1, <2>2, <2>3 DEF Outputs, Shown, Current
<1>8. Settled(g)
  <2>1. InSession(g) /\ FocusKept(g) /\ KeysFollow(g)
    BY <1>6, <1>7 DEF DesktopInv, InSession, FocusKept, Seen, KeysFollow
  <2>2. Spaced(g)
    BY <1>2, <1>5, <1>6, <1>7 DEF DesktopInv, Spaced, Mapped
  <2>3. ToldAll(g)
    <3>1. {v \in Mapped(g) : g.windows[v].minimized} = {v \in Mapped(d) : d.windows[v].minimized}
      BY <1>2, <1>5, <1>6, <1>7 DEF Mapped
    <3> QED BY <1>3, <1>6, <1>7, <3>1 DEF DesktopInv, ToldAll, ToldRest
  <2>4. Histories(g)
    <3>1. \A i \in Ids : Remembered(d, i) \subseteq Remembered(g, i)
      BY <1>6, <1>7 DEF Remembered
    <3> QED BY <1>6, <3>1 DEF DesktopInv, Histories
  <2> QED BY <2>1, <2>2, <2>3, <2>4 DEF Settled
<1>9. CASE id = Current(d) /\ d.config.focus_new
  <2>1. MappedOn(d, w, id) = SetKeyboardFocus(g, w)
    BY <1>4, <1>9 DEF MappedOn, e, x
  <2>2. Askable(g, w)
    BY <1>7, <1>8, <1>9, CurrentFacts DEF Settled
  <2>3. DesktopInv(SetKeyboardFocus(g, w)) /\ SameButFocus(g, SetKeyboardFocus(g, w))
    BY <1>8, <2>2, FocusSettles
  <2> QED BY <1>6, <2>1, <2>3 DEF SameButFocus, Quiet, Told
<1>10. CASE ~(id = Current(d) /\ d.config.focus_new)
  <2> DEFINE h == <<w>> \o g.history[id]
             n == IF g.focus_of[id] = NoWindow THEN w ELSE g.focus_of[id]
             r == [g EXCEPT !.history[id] = h, !.focus_of[id] = n]
  <2>1. MappedOn(d, w, id) = r
    BY <1>1, <1>4, <1>6, <1>10 DEF MappedOn, e, x, State
  <2>2. g.history[id] \in Seq(Windows) /\ w \notin Range(g.history[id]) /\ IsInjective(g.history[id])
    BY <1>1, <1>6, <1>7 DEF State, DesktopInv, Histories, Remembered, On
  <2>3. h \in Seq(Windows) /\ Range(h) = Range(g.history[id]) \cup {w} /\ IsInjective(h)
    BY <2>2, PrependFacts
  <2>4. n \in Windows /\ (n = w \/ n = g.focus_of[id])
    BY <1>1, <1>6 DEF State
  <2> HIDE DEF h, n
  <2>5. /\ r \in State /\ r.workspaces = g.workspaces /\ r.changed = g.changed
        /\ r.session = g.session /\ r.windows = g.windows /\ r.shown = g.shown
        /\ r.output = g.output /\ r.focused = g.focused /\ r.keyboard = g.keyboard
        /\ r.layer = g.layer /\ r.locked = g.locked /\ r.lock_surface = g.lock_surface
        /\ r.config = g.config /\ r.told = g.told
        /\ \A i \in Ids : r.history[i] = IF i = id THEN h ELSE g.history[i]
        /\ \A i \in Ids : r.focus_of[i] = IF i = id THEN n ELSE g.focus_of[i]
    BY <1>1, <1>6, <2>3, <2>4 DEF State
  <2> HIDE DEF r
  <2>6. /\ Mapped(r) = Mapped(g) /\ \A i : On(r, i) = On(g, i) /\ Visible(r, i) = Visible(g, i)
        /\ Outputs(r) = Outputs(g) /\ Shown(r) = Shown(g)
    BY <2>5 DEF Mapped, On, Visible, Outputs, Shown
  <2>7. InSession(r) /\ Spaced(r) /\ ToldAll(r) /\ FocusKept(r)
    BY <1>8, <2>5, <2>6 DEF Settled, InSession, Spaced, ToldAll, ToldRest, FocusKept
  <2>8. Claims(r) /\ Seen(r)
    BY <1>6, <1>7, <2>5, <2>6 DEF DesktopInv, Claims, Seen
  <2>9. Histories(r)
    <3>1. w \in Remembered(g, id) /\ \A i \in Ids : Remembered(r, i) = Remembered(g, i)
      BY <1>6, <1>7, <2>5, <2>6 DEF Remembered
    <3> SUFFICES ASSUME NEW i \in Ids
                 PROVE  /\ Range(r.history[i]) \subseteq Remembered(g, i)
                        /\ r.focus_of[i] \in Remembered(g, i) \cup {NoWindow}
                        /\ IsInjective(r.history[i])
      BY <3>1 DEF Histories
    <3>2. CASE i = id
      BY <1>8, <2>3, <2>4, <2>5, <3>1, <3>2 DEF Settled, Histories
    <3>3. CASE i # id
      BY <1>8, <2>5, <3>3 DEF Settled, Histories
    <3> QED BY <3>2, <3>3
  <2> QED BY <1>6, <2>1, <2>5, <2>7, <2>8, <2>9 DEF DesktopInv, Quiet, Told
<1> QED BY <1>9, <1>10

LEMMA FocusLeftFacts ==
  ASSUME NEW d \in State, NEW w \in Windows, NEW ids \in SUBSET Ids
  PROVE  LET r == FocusLeft(d, w, ids) IN
         /\ r \in State /\ SameButFocus(d, r)
         /\ r.focused = d.focused /\ r.keyboard = d.keyboard /\ r.told = d.told
         /\ \A id \in Ids \ ids : r.history[id] = d.history[id] /\ r.focus_of[id] = d.focus_of[id]
         /\ \A id \in ids :
               /\ Range(r.history[id]) = Range(d.history[id]) \ {w}
               /\ IsInjective(d.history[id]) => IsInjective(r.history[id])
               /\ r.focus_of[id] \in (Range(d.history[id]) \cup {d.focus_of[id], NoWindow}) \ {w}
<1> DEFINE r == FocusLeft(d, w, ids)
           h == [id \in Ids |-> IF id \in ids THEN Without(d.history[id], w) ELSE d.history[id]]
           f == [id \in Ids |-> IF id \notin ids \/ d.focus_of[id] # w THEN d.focus_of[id]
                                ELSE IF h[id] = <<>> THEN NoWindow ELSE Last(h[id])]
           e == [d EXCEPT !.history = h, !.focus_of = f]
<1>1. r = e
  BY DEF FocusLeft, State
<1>2. \A id \in Ids : d.history[id] \in Seq(Windows) /\ d.focus_of[id] \in Windows \cup {NoWindow}
  BY DEF State
<1>3. \A id \in Ids :
        /\ Without(d.history[id], w) \in Seq(Windows)
        /\ Range(Without(d.history[id], w)) = Range(d.history[id]) \ {w}
        /\ IsInjective(d.history[id]) => IsInjective(Without(d.history[id], w))
  BY <1>2, WithoutFacts
<1>4. \A id \in Ids : h[id] = IF id \in ids THEN Without(d.history[id], w) ELSE d.history[id]
  OBVIOUS
<1>5. h \in [Ids -> Seq(Windows)]
  BY <1>2, <1>3
<1> HIDE DEF h
<1>6. \A id \in Ids : h[id] # <<>> => Last(h[id]) \in Range(h[id]) /\ Last(h[id]) \in Windows
  BY <1>5, LastFacts
<1>7. /\ f \in [Ids -> Windows \cup {NoWindow}]
      /\ \A id \in Ids : f[id] = IF id \notin ids \/ d.focus_of[id] # w THEN d.focus_of[id]
                                ELSE IF h[id] = <<>> THEN NoWindow ELSE Last(h[id])
  BY <1>2, <1>6
<1> HIDE DEF f
<1>8. /\ e \in State /\ SameButFocus(d, e)
      /\ e.focused = d.focused /\ e.keyboard = d.keyboard /\ e.told = d.told
      /\ e.history = h /\ e.focus_of = f
  BY <1>5, <1>7 DEF State, SameButFocus
<1> HIDE DEF e
<1>9. \A id \in Ids \ ids : e.history[id] = d.history[id] /\ e.focus_of[id] = d.focus_of[id]
  BY <1>4, <1>7, <1>8
<1>10. ASSUME NEW id \in ids
       PROVE  /\ Range(e.history[id]) = Range(d.history[id]) \ {w}
              /\ IsInjective(d.history[id]) => IsInjective(e.history[id])
              /\ e.focus_of[id] \in (Range(d.history[id]) \cup {d.focus_of[id], NoWindow}) \ {w}
  <2>1. /\ id \in Ids /\ Range(h[id]) = Range(d.history[id]) \ {w}
        /\ IsInjective(d.history[id]) => IsInjective(h[id])
    BY <1>3, <1>4
  <2>2. f[id] \in (Range(d.history[id]) \cup {d.focus_of[id], NoWindow}) \ {w}
    BY <1>6, <1>7, <2>1, FocusAssumption
  <2> QED BY <1>8, <2>1, <2>2
<1> QED BY <1>1, <1>8, <1>9, <1>10

\* Once w is off the screen and forgotten, only the clients do not know of it.
LEMMA ForgottenKeeps ==
  ASSUME NEW d, DesktopInv(d), NEW w \in Windows, NEW left \in Window, left.is # "mapped"
  PROVE  LET e == Forgotten([d EXCEPT !.windows[w] = left], w) IN
         /\ InSession(e) /\ Claims(e) /\ Seen(e) /\ Histories(e) /\ Spaced(e) /\ FocusKept(e)
         /\ e.windows = [d.windows EXCEPT ![w] = left]
         /\ e.workspaces = d.workspaces /\ e.shown = d.shown /\ e.config = d.config /\ e.changed = d.changed
         /\ e.told.windows = d.told.windows /\ e.told.minimized = d.told.minimized
         /\ e.told.shown = d.told.shown
         /\ e.focused # w
         /\ e.told.focused = e.focused \/ (d.focused = w /\ e.told.focused = w /\ e.focused = NoWindow)
<1> DEFINE c == [d EXCEPT !.windows[w] = left]
           ws == [d.windows EXCEPT ![w] = left]
           g == FocusLeft(c, w, Ids)
           f == [g EXCEPT !.focused = NoWindow]
           e == Forgotten(c, w)
<1>1. d \in State /\ InSession(d) /\ d.windows \in [Windows -> Window]
  BY DEF DesktopInv, InSession, State
<1>2. ws \in [Windows -> Window] /\ \A v \in Windows : ws[v] = IF v = w THEN left ELSE d.windows[v]
  BY <1>1
<1>3. /\ c \in State /\ c.windows = ws
      /\ c.session = d.session /\ c.workspaces = d.workspaces /\ c.shown = d.shown
      /\ c.output = d.output /\ c.focused = d.focused /\ c.keyboard = d.keyboard
      /\ c.layer = d.layer /\ c.locked = d.locked /\ c.lock_surface = d.lock_surface
      /\ c.config = d.config /\ c.history = d.history /\ c.focus_of = d.focus_of
      /\ c.told = d.told /\ c.changed = d.changed
  <2> HIDE DEF ws
  <2>1. c = [d EXCEPT !.windows = ws]
    BY <1>1 DEF State, ws
  <2> HIDE DEF c
  <2> QED BY <1>1, <1>2, <2>1 DEF State
<1> HIDE DEF c, ws
<1>4. /\ g \in State /\ SameButFocus(c, g)
      /\ g.focused = c.focused /\ g.keyboard = c.keyboard /\ g.told = c.told
      /\ \A id \in Ids :
            /\ Range(g.history[id]) = Range(c.history[id]) \ {w}
            /\ IsInjective(c.history[id]) => IsInjective(g.history[id])
            /\ g.focus_of[id] \in (Range(c.history[id]) \cup {c.focus_of[id], NoWindow}) \ {w}
  BY <1>3, FocusLeftFacts
<1> HIDE DEF g
<1>5. /\ Mapped(g) = Mapped(d) \ {w}
      /\ \A i : On(g, i) = On(d, i) \ {w} /\ Visible(g, i) = Visible(d, i) \ {w}
      /\ Outputs(g) = Outputs(d) /\ Shown(g) = Shown(d) /\ Current(g) = Current(d)
      /\ g.windows = ws /\ g.workspaces = d.workspaces
  <2>1. g.windows = ws /\ g.workspaces = d.workspaces /\ g.shown = d.shown /\ g.output = d.output
    BY <1>3, <1>4 DEF SameButFocus
  <2>2. Mapped(g) = Mapped(d) \ {w}
    BY <1>2, <2>1 DEF Mapped
  <2>3. \A v \in Mapped(g) : g.windows[v] = d.windows[v]
    BY <1>2, <2>1, <2>2 DEF Mapped
  <2>4. \A i : On(g, i) = On(d, i) \ {w}
    BY <2>2, <2>3 DEF On
  <2>5. \A i : Visible(g, i) = Visible(d, i) \ {w}
    BY <2>2, <2>3, <2>4 DEF Visible, On
  <2> QED BY <2>1, <2>2, <2>4, <2>5 DEF Outputs, Shown, Current
<1>6. InSession(g)
  <2>1. InSession(c)
    BY <1>1, <1>3 DEF InSession, Outputs
  <2> QED BY <1>4, <2>1, SameRest
<1>7. Spaced(g)
  <2>1. \A v \in Mapped(g) : g.windows[v] = d.windows[v] /\ v \in Mapped(d)
    BY <1>2, <1>5 DEF Mapped
  <2>2. g.config = d.config /\ g.shown = d.shown
    BY <1>3, <1>4 DEF SameButFocus
  <2> QED BY <1>5, <2>1, <2>2 DEF DesktopInv, Spaced
<1>8. Histories(g)
  <2>1. \A i \in Ids : Remembered(g, i) = Remembered(d, i) \ {w}
    BY <1>5 DEF Remembered
  <2> SUFFICES ASSUME NEW i \in Ids
               PROVE  /\ Range(g.history[i]) \subseteq Remembered(d, i) \ {w}
                      /\ g.focus_of[i] \in (Remembered(d, i) \ {w}) \cup {NoWindow}
                      /\ IsInjective(g.history[i])
    BY <2>1 DEF Histories
  <2>2. /\ Range(d.history[i]) \subseteq Remembered(d, i)
        /\ d.focus_of[i] \in Remembered(d, i) \cup {NoWindow}
        /\ IsInjective(d.history[i])
    BY DEF DesktopInv, Histories
  <2> QED BY <1>3, <1>4, <2>2
<1>9. CASE d.focused # w
  <2>1. e = g
    BY <1>3, <1>9 DEF Forgotten, g
  <2>2. Claims(g) /\ FocusKept(g)
    BY <1>3, <1>4, <1>5, <1>9 DEF DesktopInv, Claims, FocusKept, SameButFocus
  <2>3. Seen(g)
    BY <1>3, <1>4, <1>5, <1>9 DEF DesktopInv, Seen, SameButFocus
  <2> QED BY <1>3, <1>4, <1>5, <1>6, <1>7, <1>8, <1>9, <2>1, <2>2, <2>3
      DEF SameButFocus, DesktopInv, ToldAll, c, ws
<1>10. CASE d.focused = w
  <2>1. /\ f \in State /\ SameButFocus(g, f)
        /\ f.focused = NoWindow /\ f.keyboard = g.keyboard /\ f.told = g.told
        /\ f.history = g.history /\ f.focus_of = g.focus_of
    BY <1>4 DEF State, SameButFocus
  <2>2. \/ e = FocusPrevious(f)
        \/ e = SetKeyboardFocus(f, NoFocus)
    BY <1>3, <1>10 DEF Forgotten, g, f
  <2> HIDE DEF f
  <2>3. InSession(f) /\ Spaced(f) /\ Mapped(f) = Mapped(g) /\ Outputs(f) = Outputs(g)
        /\ (\A id : Visible(g, id) = Visible(f, id) /\ On(g, id) = On(f, id)) /\ f.output \in Outputs(f)
    BY <1>6, <1>7, <2>1, SameRest DEF InSession
  <2>4. Histories(f)
    BY <1>8, <2>1, <2>3 DEF Histories, Remembered, SameButFocus
  <2>5. PICK s \in {NoFocus} \cup Visible(f, Current(f)) : e = SetKeyboardFocus(f, s)
    BY <2>1, <2>2, <2>3, FocusPreviousIs
  <2>6. Askable(f, s) /\ (s \in Windows => s \in Mapped(f) /\ s # w) /\ s \in Keyboards
    <3>1. Askable(f, s)
      BY <2>3, CurrentFacts, KeyboardFacts DEF Askable
    <3> QED BY <1>5, <2>3, <2>5, <3>1, KeyboardFacts DEF Askable, Visible, On
  <2>7. /\ e \in State /\ SameButFocus(f, e)
        /\ e.keyboard = Target(f, s)
        /\ \/ e.focused = f.focused /\ e.told.focused = f.told.focused
           \/ e.told.focused = e.focused /\ (e.focused = NoWindow \/ (e.focused = s /\ s \in Windows))
        /\ e.keyboard \in Windows =>
              \/ e.focused = e.keyboard
              \/ f.keyboard = e.keyboard /\ e.focused = f.focused
        /\ Histories(f) => Histories(e)
    BY <2>1, <2>5, <2>6, SetFocusFacts
  <2> HIDE DEF e
  <2>8. InSession(e) /\ Spaced(e) /\ Mapped(e) = Mapped(f) /\ Outputs(e) = Outputs(f)
        /\ (\A id : Visible(e, id) = Visible(f, id) /\ On(e, id) = On(f, id))
    BY <2>3, <2>7, SameRest
  <2>9. Claims(e)
    BY <2>6, <2>7, KeyboardFacts DEF Askable, Claims, Target, SameButFocus
  <2>10. e.focused # w /\ FocusKept(e)
    BY <2>1, <2>6, <2>7, <2>8, FocusAssumption DEF FocusKept
  <2>11. Seen(e)
    <3> SUFFICES ASSUME e.keyboard \in Windows
                 PROVE  /\ e.keyboard = e.focused
                        /\ \E o \in Outputs(e) : e.keyboard \in Visible(e, e.shown[o])
      BY DEF Seen
    <3>1. e.keyboard = s /\ s # w
      BY <2>6, <2>7, KeyboardFacts DEF Target
    <3>2. f.keyboard = d.keyboard /\ (d.keyboard \in Windows => d.keyboard = w)
      BY <1>3, <1>4, <1>10, <2>1 DEF DesktopInv, Seen
    <3>3. e.keyboard = e.focused
      BY <2>7, <3>1, <3>2
    <3>4. e.shown = f.shown
      BY <2>7 DEF SameButFocus
    <3> QED BY <2>6, <2>8, <3>1, <3>3, <3>4 DEF Askable
  <2>12. d.told.focused = w
    BY <1>10 DEF DesktopInv, ToldAll
  <2> QED BY <1>3, <1>4, <1>5, <1>10, <2>1, <2>4, <2>7, <2>8, <2>9, <2>10, <2>11, <2>12
      DEF SameButFocus, e, c, ws
<1> QED BY <1>9, <1>10

LEMMA ClosedKeeps ==
  ASSUME NEW d, DesktopInv(d), NEW w \in Windows, NEW is \in {"absent", "created"}
  PROVE  DesktopInv(Closed(d, w, is)) /\ Quiet(d, Closed(d, w, is))
<1> DEFINE id == d.windows[w].on
           left == [is |-> is, on |-> IF is = "absent" THEN 1 ELSE id, minimized |-> FALSE]
           e == Forgotten([d EXCEPT !.windows[w] = left], w)
           g == [e EXCEPT !.told.windows = @ \ {w},
                          !.told.minimized = @ \ {w},
                          !.told.focused = IF @ = w THEN NoWindow ELSE @,
                          !.changed = TRUE]
<1>0. 1 \in Ids
  BY OutputsAssumption DEF Ids
<1>1. d \in State /\ id \in Ids /\ 1 \in Ids /\ d.windows \in [Windows -> Window]
  BY <1>0 DEF DesktopInv, InSession, State, Window
<1>2. left \in Window /\ left.is # "mapped"
  BY <1>1 DEF Window
<1>3. Closed(d, w, is) = IF w \notin Mapped(d) THEN e ELSE Pruned(g, id)
  BY DEF Closed
<1> HIDE DEF left, id
<1>4. /\ InSession(e) /\ Claims(e) /\ Seen(e) /\ Histories(e) /\ Spaced(e) /\ FocusKept(e)
      /\ e.windows = [d.windows EXCEPT ![w] = left]
      /\ e.workspaces = d.workspaces /\ e.shown = d.shown /\ e.config = d.config /\ e.changed = d.changed
      /\ e.told.windows = d.told.windows /\ e.told.minimized = d.told.minimized
      /\ e.told.shown = d.told.shown
      /\ e.focused # w
      /\ e.told.focused = e.focused \/ (d.focused = w /\ e.told.focused = w /\ e.focused = NoWindow)
  BY <1>2, ForgottenKeeps
<1> HIDE DEF e
<1>5. \A v \in Windows : e.windows[v] = IF v = w THEN left ELSE d.windows[v]
  BY <1>1, <1>4
<1>6. /\ Mapped(e) = Mapped(d) \ {w}
      /\ {v \in Mapped(e) : e.windows[v].minimized} = {v \in Mapped(d) : d.windows[v].minimized} \ {w}
      /\ \A i : On(e, i) = On(d, i) \ {w}
  BY <1>2, <1>5 DEF Mapped, On
<1>7. ToldRest(d) /\ d.told.focused = d.focused
  BY DEF DesktopInv, ToldAll
<1>8. CASE w \notin Mapped(d)
  <2>1. Closed(d, w, is) = e
    BY <1>3, <1>8
  <2>2. d.focused # w
    BY <1>8, FocusAssumption DEF DesktopInv, FocusKept
  <2>3. Mapped(e) = Mapped(d) /\ (\A i : On(e, i) = On(d, i))
        /\ {v \in Mapped(e) : e.windows[v].minimized} = {v \in Mapped(d) : d.windows[v].minimized}
    BY <1>6, <1>8 DEF On
  <2>4. ToldAll(e)
    BY <1>4, <1>7, <2>2, <2>3 DEF ToldAll, ToldRest
  <2>5. Quiet(d, e)
    BY <1>4, <2>3 DEF Quiet, Told
  <2> QED BY <1>4, <2>1, <2>4, <2>5 DEF DesktopInv
<1>9. CASE w \in Mapped(d)
  <2> DEFINE focus == IF e.told.focused = w THEN NoWindow ELSE e.told.focused
             t == [e.told EXCEPT !.windows = e.told.windows \ {w}, !.minimized = e.told.minimized \ {w},
                                 !.focused = focus]
             h == [e EXCEPT !.told = t, !.changed = TRUE]
  <2>1. e \in State
    BY <1>4 DEF InSession
  <2>2. /\ t \in View /\ t.windows = e.told.windows \ {w} /\ t.minimized = e.told.minimized \ {w}
        /\ t.focused = focus /\ t.shown = e.told.shown
    BY <2>1 DEF State, View
  <2>3. g = h
    <3> DEFINE W == e.told.windows \ {w}
               M == e.told.minimized \ {w}
    <3>1. g = [e EXCEPT !.told.windows = W, !.told.minimized = M, !.told.focused = focus, !.changed = TRUE]
      BY <2>1 DEF State, View
    <3> HIDE DEF W, M, g, focus
    <3>2. [e EXCEPT !.told.windows = W, !.told.minimized = M, !.told.focused = focus, !.changed = TRUE]
          = [e EXCEPT !.told = [e.told EXCEPT !.windows = W, !.minimized = M, !.focused = focus],
                      !.changed = TRUE]
      BY <2>1 DEF State, View
    <3>3. [e.told EXCEPT !.windows = W, !.minimized = M, !.focused = focus] = t
      BY DEF W, M, t
    <3> HIDE DEF t
    <3> QED BY <3>1, <3>2, <3>3
  <2>4. focus = e.focused
    BY <1>4
  <2> HIDE DEF t, g, focus
  <2>5. /\ h \in State /\ h.workspaces = e.workspaces /\ h.changed
        /\ h.session = e.session /\ h.windows = e.windows /\ h.shown = e.shown
        /\ h.output = e.output /\ h.focused = e.focused /\ h.keyboard = e.keyboard
        /\ h.layer = e.layer /\ h.locked = e.locked /\ h.lock_surface = e.lock_surface
        /\ h.config = e.config /\ h.history = e.history /\ h.focus_of = e.focus_of
        /\ h.told = t
    BY <2>1, <2>2 DEF State
  <2> HIDE DEF h
  <2>6. /\ Mapped(h) = Mapped(e) /\ \A i : On(h, i) = On(e, i) /\ Visible(h, i) = Visible(e, i)
        /\ Outputs(h) = Outputs(e) /\ Shown(h) = Shown(e)
    BY <2>5 DEF Mapped, On, Visible, Outputs, Shown
  <2>7. InSession(h) /\ Claims(h) /\ Seen(h) /\ Histories(h) /\ Spaced(h) /\ FocusKept(h)
    BY <1>4, <2>5, <2>6 DEF InSession, Claims, Seen, Histories, Remembered, Spaced, FocusKept
  <2>8. ToldAll(h)
    <3>1. {v \in Mapped(h) : h.windows[v].minimized} = {v \in Mapped(e) : e.windows[v].minimized}
      BY <2>5, <2>6
    <3> QED BY <1>4, <1>6, <1>7, <2>2, <2>4, <2>5, <2>6, <3>1 DEF ToldAll, ToldRest
  <2>9. DesktopInv(h)
    BY <2>7, <2>8 DEF DesktopInv
  <2>10. DesktopInv(Pruned(h, id)) /\ Quiet(h, Pruned(h, id))
    BY <1>1, <2>5, <2>9, PrunedKeeps, PrunedQuiet DEF id
  <2>11. Quiet(d, Pruned(h, id))
    BY <1>4, <2>5, <2>10 DEF Quiet, Told
  <2> QED BY <1>3, <1>9, <2>3, <2>10, <2>11
<1> QED BY <1>8, <1>9

LEMMA MinimizedKeeps ==
  ASSUME NEW d, DesktopInv(d), NEW w \in Mapped(d)
  PROVE  DesktopInv(Minimized(d, w)) /\ SameSpaces(d, Minimized(d, w))
<1> DEFINE ws == [d.windows EXCEPT ![w].minimized = TRUE]
           t == [d.told EXCEPT !.minimized = @ \cup {w}]
           e == [d EXCEPT !.windows[w].minimized = TRUE, !.told.minimized = @ \cup {w}]
           g == [d EXCEPT !.windows = ws, !.told = t]
<1>1. d \in State /\ InSession(d) /\ w \in Windows /\ d.windows \in [Windows -> Window]
  BY DEF DesktopInv, InSession, State, Mapped
<1>2. CASE d.windows[w].minimized
  BY <1>2 DEF Minimized, SameSpaces
<1>3. CASE ~d.windows[w].minimized
  <2>1. /\ ws \in [Windows -> Window]
        /\ \A v \in Windows : ws[v].is = d.windows[v].is /\ ws[v].on = d.windows[v].on
        /\ \A v \in Windows : ws[v].minimized = IF v = w THEN TRUE ELSE d.windows[v].minimized
    <3> DEFINE x == [d.windows[w] EXCEPT !.minimized = TRUE]
    <3>1. x \in Window /\ x.is = d.windows[w].is /\ x.on = d.windows[w].on /\ x.minimized = TRUE
      BY <1>1 DEF Window
    <3>2. ws = [d.windows EXCEPT ![w] = x]
      BY <1>1
    <3> HIDE DEF x
    <3>3. \A v \in Windows : ws[v] = IF v = w THEN x ELSE d.windows[v]
      BY <1>1, <3>1, <3>2
    <3>4. ws \in [Windows -> Window]
      BY <1>1, <3>1, <3>2
    <3> HIDE DEF ws
    <3> QED BY <3>1, <3>3, <3>4
  <2>2. /\ t \in View /\ t.windows = d.told.windows /\ t.shown = d.told.shown
        /\ t.focused = d.told.focused /\ t.minimized = d.told.minimized \cup {w}
    BY <1>1 DEF State, View
  <2>3. e = g
    BY <1>1 DEF State, View
  <2>4. Minimized(d, w) = IF d.focused = w THEN FocusPrevious(e) ELSE e
    BY <1>3 DEF Minimized
  <2> HIDE DEF e, ws, t
  <2>5. /\ g \in State /\ g.windows = ws /\ g.told = t
        /\ g.session = d.session /\ g.workspaces = d.workspaces /\ g.pins = d.pins
        /\ g.shown = d.shown /\ g.output = d.output /\ g.layer = d.layer
        /\ g.locked = d.locked /\ g.lock_surface = d.lock_surface
        /\ g.hidden = d.hidden /\ g.config = d.config /\ g.changed = d.changed
        /\ g.keyboard = d.keyboard /\ g.focused = d.focused
        /\ g.history = d.history /\ g.focus_of = d.focus_of
    BY <1>1, <2>1, <2>2 DEF State
  <2> HIDE DEF g
  <2>6. /\ Mapped(g) = Mapped(d)
        /\ \A id : On(g, id) = On(d, id) /\ Remembered(g, id) = Remembered(d, id)
        /\ \A id : Visible(g, id) = Visible(d, id) \ {w}
        /\ Outputs(g) = Outputs(d) /\ Shown(g) = Shown(d)
    <3>1. Mapped(g) = Mapped(d)
      BY <2>1, <2>5 DEF Mapped
    <3>2. \A id : On(g, id) = On(d, id)
      BY <2>1, <2>5, <3>1 DEF On, Mapped
    <3>3. \A id : Visible(g, id) = Visible(d, id) \ {w}
      BY <2>1, <2>5, <3>2 DEF Visible, On, Mapped
    <3> QED BY <2>5, <3>1, <3>2, <3>3 DEF Remembered, Outputs, Shown
  <2>7. InSession(g) /\ Histories(g) /\ FocusKept(g) /\ KeysFollow(g)
    BY <1>1, <2>5, <2>6 DEF DesktopInv, InSession, Histories, FocusKept, Seen, KeysFollow
  <2>8. Spaced(g)
    <3>1. \A v \in Mapped(g) : g.windows[v].on = d.windows[v].on
      BY <2>1, <2>5, <2>6 DEF Mapped
    <3> QED BY <2>5, <2>6, <3>1 DEF DesktopInv, Spaced
  <2>9. ToldAll(g)
    <3>1. {v \in Mapped(g) : g.windows[v].minimized} = {v \in Mapped(d) : d.windows[v].minimized} \cup {w}
      BY <1>1, <2>1, <2>5, <2>6 DEF Mapped
    <3> QED BY <2>2, <2>5, <2>6, <3>1 DEF DesktopInv, ToldAll, ToldRest
  <2>10. Settled(g)
    BY <2>7, <2>8, <2>9 DEF Settled
  <2>11. SameSpaces(d, g)
    BY <2>5, <2>6 DEF SameSpaces
  <2>12. CASE d.focused = w
    <3>1. DesktopInv(FocusPrevious(g)) /\ SameButFocus(g, FocusPrevious(g))
      BY <2>10, FocusPreviousKeeps
    <3> DEFINE r == FocusPrevious(g)
    <3> HIDE DEF r
    <3>2. Mapped(r) = Mapped(g) /\ \A id : On(r, id) = On(g, id)
      BY <3>1, SameRest DEF r
    <3>3. SameSpaces(d, r)
      BY <2>11, <3>1, <3>2 DEF SameSpaces, SameButFocus, r
    <3> QED BY <2>3, <2>4, <2>12, <3>1, <3>3 DEF r
  <2>13. CASE d.focused # w
    <3>1. Claims(g)
      BY <2>5 DEF DesktopInv, Claims
    <3>2. Seen(g)
      BY <2>5, <2>6, <2>13 DEF DesktopInv, Seen
    <3> QED BY <2>3, <2>4, <2>10, <2>11, <2>13, <3>1, <3>2 DEF Settled, DesktopInv
  <2> QED BY <2>12, <2>13
<1> QED BY <1>2, <1>3

LEMMA MovedKeeps ==
  ASSUME NEW d, DesktopInv(d), NEW w \in Windows, NEW id \in d.workspaces
  PROVE  DesktopInv(Moved(d, w, id)) /\ Quiet(d, Moved(d, w, id))
<1> DEFINE previous == d.windows[w].on
           ws == [d.windows EXCEPT ![w].on = id]
           c == [d EXCEPT !.windows[w].on = id]
           e == FocusLeft(c, w, {previous})
           f == IF d.focused = w THEN FocusPrevious(e) ELSE e
           g == [f EXCEPT !.changed = TRUE]
<1>1. d \in State /\ InSession(d) /\ d.windows \in [Windows -> Window] /\ id \in Ids /\ previous \in Ids
  BY DEF DesktopInv, InSession, State, Window
<1>2. CASE previous = id
  BY <1>2, QuietFacts DEF Moved
<1>3. CASE previous # id
  <2>1. Moved(d, w, id) = Pruned(g, previous)
    BY <1>3 DEF Moved
  <2> HIDE DEF previous
  <2>2. /\ ws \in [Windows -> Window]
        /\ \A v \in Windows : ws[v].is = d.windows[v].is /\ ws[v].minimized = d.windows[v].minimized
        /\ \A v \in Windows : ws[v].on = IF v = w THEN id ELSE d.windows[v].on
    <3> DEFINE x == [d.windows[w] EXCEPT !.on = id]
    <3>1. x \in Window /\ x.is = d.windows[w].is /\ x.on = id /\ x.minimized = d.windows[w].minimized
      BY <1>1 DEF Window
    <3>2. ws = [d.windows EXCEPT ![w] = x]
      BY <1>1
    <3> HIDE DEF x
    <3>3. \A v \in Windows : ws[v] = IF v = w THEN x ELSE d.windows[v]
      BY <1>1, <3>1, <3>2
    <3>4. ws \in [Windows -> Window]
      BY <1>1, <3>1, <3>2
    <3> HIDE DEF ws
    <3> QED BY <3>1, <3>3, <3>4
  <2>3. c = [d EXCEPT !.windows = ws]
    BY <1>1 DEF State
  <2> HIDE DEF c, ws
  <2>4. /\ c \in State /\ c.windows = ws /\ c.told = d.told
        /\ c.session = d.session /\ c.workspaces = d.workspaces /\ c.pins = d.pins
        /\ c.shown = d.shown /\ c.output = d.output /\ c.layer = d.layer
        /\ c.locked = d.locked /\ c.lock_surface = d.lock_surface
        /\ c.hidden = d.hidden /\ c.config = d.config /\ c.changed = d.changed
        /\ c.keyboard = d.keyboard /\ c.focused = d.focused
        /\ c.history = d.history /\ c.focus_of = d.focus_of
    BY <1>1, <2>2, <2>3 DEF State
  <2>5. /\ e \in State /\ SameButFocus(c, e)
        /\ e.focused = c.focused /\ e.keyboard = c.keyboard /\ e.told = c.told
        /\ \A i \in Ids \ {previous} : e.history[i] = c.history[i] /\ e.focus_of[i] = c.focus_of[i]
        /\ \A i \in {previous} :
              /\ Range(e.history[i]) = Range(c.history[i]) \ {w}
              /\ IsInjective(c.history[i]) => IsInjective(e.history[i])
              /\ e.focus_of[i] \in (Range(c.history[i]) \cup {c.focus_of[i], NoWindow}) \ {w}
    <3> DEFINE ids == {previous}
    <3>1. ids \in SUBSET Ids
      BY <1>1
    <3> HIDE DEF ids
    <3>2. LET r == FocusLeft(c, w, ids) IN
          /\ r \in State /\ SameButFocus(c, r)
          /\ r.focused = c.focused /\ r.keyboard = c.keyboard /\ r.told = c.told
          /\ \A i \in Ids \ ids : r.history[i] = c.history[i] /\ r.focus_of[i] = c.focus_of[i]
          /\ \A i \in ids :
                /\ Range(r.history[i]) = Range(c.history[i]) \ {w}
                /\ IsInjective(c.history[i]) => IsInjective(r.history[i])
                /\ r.focus_of[i] \in (Range(c.history[i]) \cup {c.focus_of[i], NoWindow}) \ {w}
      BY <2>4, <3>1, FocusLeftFacts
    <3> QED BY <3>2 DEF ids
  <2> HIDE DEF e
  <2>6. /\ Mapped(c) = Mapped(d) /\ Outputs(c) = Outputs(d) /\ Shown(c) = Shown(d)
        /\ \A i \in Ids : On(d, i) \ {w} \subseteq On(c, i)
        /\ \A i : \A v \in Visible(d, i) \ {w} : v \in Visible(c, i)
    <3>1. Mapped(c) = Mapped(d)
      BY <2>2, <2>4 DEF Mapped
    <3>2. \A i \in Ids : On(d, i) \ {w} \subseteq On(c, i)
      BY <2>2, <2>4, <3>1 DEF On, Mapped
    <3>3. \A i : \A v \in Visible(d, i) \ {w} : v \in Visible(c, i)
      BY <2>2, <2>4, <3>1 DEF Visible, On, Mapped
    <3> QED BY <2>4, <3>1, <3>2, <3>3 DEF Outputs, Shown
  <2>7. InSession(c)
    BY <1>1, <2>4, <2>6 DEF InSession
  <2>8. Spaced(c)
    BY <1>1, <2>2, <2>4, <2>6 DEF DesktopInv, Spaced, Mapped
  <2>9. ToldRest(c)
    <3>1. {v \in Mapped(c) : c.windows[v].minimized} = {v \in Mapped(d) : d.windows[v].minimized}
      BY <2>2, <2>4, <2>6 DEF Mapped
    <3> QED BY <2>4, <2>6, <3>1 DEF DesktopInv, ToldAll, ToldRest
  <2>10. InSession(e) /\ Spaced(e) /\ ToldRest(e) /\ Mapped(e) = Mapped(c) /\ Outputs(e) = Outputs(c)
         /\ (\A i : Visible(e, i) = Visible(c, i) /\ On(e, i) = On(c, i))
    BY <2>5, <2>7, <2>8, <2>9, SameRest
  <2>11. Histories(e)
    <3> SUFFICES ASSUME NEW i \in Ids
                 PROVE  /\ Range(e.history[i]) \subseteq Remembered(e, i)
                        /\ e.focus_of[i] \in Remembered(e, i) \cup {NoWindow}
                        /\ IsInjective(e.history[i])
      BY DEF Histories
    <3>1. /\ Range(d.history[i]) \subseteq Remembered(d, i)
          /\ d.focus_of[i] \in Remembered(d, i) \cup {NoWindow}
          /\ IsInjective(d.history[i])
      BY DEF DesktopInv, Histories
    <3>2. Remembered(d, i) \ {w} \subseteq Remembered(e, i)
      BY <2>4, <2>5, <2>6, <2>10 DEF Remembered, SameButFocus
    <3>3. i # previous => w \notin Remembered(d, i)
      BY DEF Remembered, On, previous
    <3>4. w \notin Windows \/ w # NoWindow
      BY FocusAssumption
    <3>5. CASE i = previous
      BY <2>4, <2>5, <3>1, <3>2, <3>5
    <3>6. CASE i # previous
      BY <2>4, <2>5, <3>1, <3>2, <3>3, <3>4, <3>6
    <3> QED BY <3>5, <3>6
  <2>12. FocusKept(e) /\ KeysFollow(e) /\ ToldAll(e)
    BY <2>4, <2>5, <2>6, <2>10 DEF DesktopInv, FocusKept, Seen, KeysFollow, ToldAll
  <2>13. Settled(e)
    BY <2>10, <2>11, <2>12 DEF Settled
  <2>14. DesktopInv(f) /\ f.workspaces = d.workspaces /\ f.shown = d.shown /\ f.config = d.config
    <3>1. CASE d.focused = w
      <4>1. DesktopInv(FocusPrevious(e)) /\ SameButFocus(e, FocusPrevious(e))
        BY <2>13, FocusPreviousKeeps
      <4> QED BY <2>4, <2>5, <3>1, <4>1 DEF SameButFocus
    <3>2. CASE d.focused # w
      <4>1. Claims(e)
        BY <2>4, <2>5 DEF DesktopInv, Claims, SameButFocus
      <4>2. Seen(e)
        <5>1. e.keyboard = d.keyboard /\ e.focused = d.focused /\ e.shown = d.shown
          BY <2>4, <2>5 DEF SameButFocus
        <5> QED BY <2>6, <2>10, <3>2, <5>1 DEF DesktopInv, Seen
      <4> QED BY <2>4, <2>5, <2>13, <3>2, <4>1, <4>2 DEF Settled, DesktopInv, SameButFocus
    <3> QED BY <3>1, <3>2
  <2> HIDE DEF f
  <2>15. DesktopInv(g) /\ g.changed /\ g.shown = d.shown /\ g.config = d.config
    <3>1. /\ g \in State /\ g.changed
          /\ g.session = f.session /\ g.windows = f.windows /\ g.workspaces = f.workspaces
          /\ g.shown = f.shown /\ g.output = f.output /\ g.focused = f.focused
          /\ g.keyboard = f.keyboard /\ g.layer = f.layer /\ g.locked = f.locked
          /\ g.config = f.config /\ g.told = f.told /\ g.history = f.history /\ g.focus_of = f.focus_of
      BY <2>14 DEF DesktopInv, InSession, State
    <3> HIDE DEF g
    <3>2. /\ Mapped(g) = Mapped(f) /\ \A i : On(g, i) = On(f, i) /\ Visible(g, i) = Visible(f, i)
          /\ Outputs(g) = Outputs(f) /\ Shown(g) = Shown(f)
      BY <3>1 DEF Mapped, On, Visible, Outputs, Shown
    <3>3. /\ InSession(f) /\ Claims(f) /\ Seen(f) /\ Histories(f)
          /\ Spaced(f) /\ ToldAll(f) /\ FocusKept(f)
      BY <2>14 DEF DesktopInv
    <3>4. InSession(g)
      BY <3>1, <3>2, <3>3 DEF InSession
    <3>5. Claims(g)
      BY <3>1, <3>3 DEF Claims
    <3>6. Seen(g)
      BY <3>1, <3>2, <3>3 DEF Seen
    <3>7. Histories(g)
      BY <3>1, <3>2, <3>3 DEF Histories, Remembered
    <3>8. Spaced(g)
      BY <3>1, <3>2, <3>3 DEF Spaced
    <3>9. ToldAll(g)
      BY <3>1, <3>2, <3>3 DEF ToldAll, ToldRest
    <3>10. FocusKept(g)
      BY <3>1, <3>2, <3>3 DEF FocusKept
    <3>11. DesktopInv(g)
      BY <3>4, <3>5, <3>6, <3>7, <3>8, <3>9, <3>10 DEF DesktopInv
    <3> QED BY <2>14, <3>1, <3>11
  <2> HIDE DEF g
  <2>16. DesktopInv(Pruned(g, previous)) /\ Quiet(g, Pruned(g, previous))
    <3>1. g \in State
      BY <2>15 DEF DesktopInv, InSession
    <3> QED BY <1>1, <2>15, <3>1, PrunedKeeps, PrunedQuiet
  <2> QED BY <2>1, <2>15, <2>16 DEF Quiet, Told
<1> QED BY <1>2, <1>3

\* What Minimized keeps, its fold keeps.
LEMMA MinimizedFold ==
  ASSUME NEW A, NEW base \in A, NEW order \in Seq(Windows),
         \A a \in A, i \in DOMAIN order : Minimized(a, order[i]) \in A
  PROVE  FoldLeft(Minimized, base, order) \in A
<1> DEFINE n == Len(order)
           step == [x \in (1..n) \X A |-> Minimized(x[2], order[x[1]])]
           Equation(f) == f = [s \in SUBSET DOMAIN order |->
                                  IF s = {} THEN base ELSE Minimized(f[s \ {Max(s)}], order[Max(s)])]
           c == CHOOSE f : Equation(f)
<1>1. n \in Nat /\ DOMAIN order = 1..n
  OBVIOUS
<1>2. /\ step \in Steps(n, A)
      /\ \A i \in 1..n, a \in A : step[<<i, a>>] = Minimized(a, order[i])
  BY <1>1 DEF Steps
<1>3. \A s \in SUBSET (1..n) : s # {} => Max(s) \in 1..n /\ s \ {Max(s)} \in SUBSET (1..n)
  <2> SUFFICES ASSUME NEW s \in SUBSET (1..n), s # {} PROVE Max(s) \in s
    OBVIOUS
  <2>1. s \in SUBSET (0..n)
    OBVIOUS
  <2> QED BY <1>1, <2>1, GreatestUpTo
<1> HIDE DEF n, step
<1>4. PICK f : FoldsSets(f, n, A, base, step)
  BY <1>1, <1>2, FoldExists
<1>5. Equation(f)
  BY <1>1, <1>2, <1>3, <1>4 DEF FoldsSets
<1>6. Equation(c)
  <2> HIDE DEF Equation
  <2> QED BY <1>5
<1>7. FoldLeft(Minimized, base, order) = c[1..n]
  BY <1>1 DEF FoldLeft, MapThenFoldSet
<1> HIDE DEF c
<1>8. Follows(c, n, A, base, step)
  BY <1>1, <1>2, <1>3, <1>6 DEF Follows
<1>9. PICK g : Computed(g, n, A, base, step) /\ c[1..n] = g[n]
  BY <1>1, <1>2, <1>8, FoldValue
<1>10. g[n] \in A
  BY <1>1, <1>9 DEF Computed
<1> QED BY <1>7, <1>9, <1>10

\* A hidden window that is still there and minimized comes back.
Restored(e, id, w) == IF w \in On(e, id) /\ e.windows[w].minimized THEN FocusHere(e, w) ELSE e

RestoredAll(base, id, order) ==
    FoldLeft(LAMBDA e, w : IF w \in On(e, id) /\ e.windows[w].minimized THEN FocusHere(e, w) ELSE e,
             base, order)

LEMMA RestoredFold ==
  ASSUME NEW A, NEW base \in A, NEW order \in Seq(Windows), NEW id,
         \A a \in A, i \in DOMAIN order : Restored(a, id, order[i]) \in A
  PROVE  RestoredAll(base, id, order) \in A
<1> DEFINE n == Len(order)
           step == [x \in (1..n) \X A |-> Restored(x[2], id, order[x[1]])]
           Equation(f) == f = [s \in SUBSET DOMAIN order |->
                                  IF s = {} THEN base ELSE Restored(f[s \ {Max(s)}], id, order[Max(s)])]
           c == CHOOSE f : Equation(f)
<1>1. n \in Nat /\ DOMAIN order = 1..n
  OBVIOUS
<1>2. /\ step \in Steps(n, A)
      /\ \A i \in 1..n, a \in A : step[<<i, a>>] = Restored(a, id, order[i])
  BY <1>1 DEF Steps
<1>3. \A s \in SUBSET (1..n) : s # {} => Max(s) \in 1..n /\ s \ {Max(s)} \in SUBSET (1..n)
  <2> SUFFICES ASSUME NEW s \in SUBSET (1..n), s # {} PROVE Max(s) \in s
    OBVIOUS
  <2>1. s \in SUBSET (0..n)
    OBVIOUS
  <2> QED BY <1>1, <2>1, GreatestUpTo
<1> HIDE DEF n, step
<1>4. PICK f : FoldsSets(f, n, A, base, step)
  BY <1>1, <1>2, FoldExists
<1>5. Equation(f)
  BY <1>1, <1>2, <1>3, <1>4 DEF FoldsSets
<1>6. Equation(c)
  <2> HIDE DEF Equation
  <2> QED BY <1>5
<1>7. RestoredAll(base, id, order) = c[1..n]
  BY <1>1 DEF RestoredAll, FoldLeft, MapThenFoldSet, Restored
<1> HIDE DEF c
<1>8. Follows(c, n, A, base, step)
  BY <1>1, <1>2, <1>3, <1>6 DEF Follows
<1>9. PICK g : Computed(g, n, A, base, step) /\ c[1..n] = g[n]
  BY <1>1, <1>2, <1>8, FoldValue
<1>10. g[n] \in A
  BY <1>1, <1>9 DEF Computed
<1> QED BY <1>7, <1>9, <1>10

LEMMA SameSpacesFacts ==
  ASSUME NEW d, NEW e, NEW r
  PROVE  /\ SameSpaces(d, d)
         /\ SameSpaces(d, e) /\ SameSpaces(e, r) => SameSpaces(d, r)
BY DEF SameSpaces

LEMMA HiddenKeeps ==
  ASSUME NEW d, DesktopInv(d), NEW id \in Ids, NEW order \in Seq(Windows)
  PROVE  LET e == [d EXCEPT !.hidden[id] = order] IN
         DesktopInv(e) /\ Quiet(d, e) /\ e.shown = d.shown /\ e.output = d.output
<1> DEFINE e == [d EXCEPT !.hidden[id] = order]
<1>1. /\ e \in State /\ e.changed = d.changed
      /\ e.session = d.session /\ e.windows = d.windows /\ e.workspaces = d.workspaces
      /\ e.shown = d.shown /\ e.output = d.output /\ e.focused = d.focused
      /\ e.keyboard = d.keyboard /\ e.layer = d.layer /\ e.locked = d.locked
      /\ e.config = d.config /\ e.told = d.told /\ e.history = d.history /\ e.focus_of = d.focus_of
  BY DEF DesktopInv, InSession, State
<1> HIDE DEF e
<1>2. /\ Mapped(e) = Mapped(d) /\ \A i : On(e, i) = On(d, i) /\ Visible(e, i) = Visible(d, i)
      /\ Outputs(e) = Outputs(d) /\ Shown(e) = Shown(d)
  BY <1>1 DEF Mapped, On, Visible, Outputs, Shown
<1>3. InSession(e) /\ Claims(e) /\ Seen(e) /\ ToldAll(e) /\ FocusKept(e) /\ Spaced(e)
  BY <1>1, <1>2 DEF DesktopInv, InSession, Claims, Seen, ToldAll, ToldRest, FocusKept, Spaced
<1>4. Histories(e)
  BY <1>1, <1>2 DEF DesktopInv, Histories, Remembered
<1> QED BY <1>1, <1>2, <1>3, <1>4 DEF DesktopInv, Quiet, Told, e

LEMMA ToggledKeeps ==
  ASSUME NEW d, DesktopInv(d), NEW order \in Seq(Windows), Range(order) \subseteq Mapped(d)
  PROVE  DesktopInv(Toggled(d, order)) /\ Quiet(d, Toggled(d, order))
<1> DEFINE id == Current(d)
<1>1. InSession(d) /\ d \in State /\ id \in Ids /\ d.output \in Outputs(d) /\ id = d.shown[d.output]
      /\ d.hidden[id] \in Seq(Windows)
  BY CurrentFacts DEF DesktopInv, InSession, State
<1> HIDE DEF id
<1>2. CASE d.hidden[id] # <<>>
  <2> DEFINE b == [d EXCEPT !.hidden[id] = <<>>]
             hidden == d.hidden[id]
             A == {e \in State : DesktopInv(e) /\ SameSpaces(b, e)}
             r == RestoredAll(b, id, hidden)
             none == <<>>
  <2>1. Toggled(d, order) = r
    BY <1>2 DEF Toggled, RestoredAll, id
  <2>2. DesktopInv(b) /\ Quiet(d, b) /\ b.shown = d.shown /\ b.output = d.output
    <3>1. none \in Seq(Windows) /\ b = [d EXCEPT !.hidden[id] = none]
      OBVIOUS
    <3> HIDE DEF none, b
    <3>2. LET e == [d EXCEPT !.hidden[id] = none] IN
          DesktopInv(e) /\ Quiet(d, e) /\ e.shown = d.shown /\ e.output = d.output
      BY <1>1, <3>1, HiddenKeeps
    <3> QED BY <3>1, <3>2
  <2> HIDE DEF b
  <2>3. b \in A
    BY <2>2, SameSpacesFacts DEF DesktopInv, InSession
  <2>4. ASSUME NEW a \in A, NEW i \in DOMAIN hidden PROVE Restored(a, id, hidden[i]) \in A
    <3> DEFINE w == hidden[i]
    <3>1. CASE ~(w \in On(a, id) /\ a.windows[w].minimized)
      BY <3>1 DEF Restored
    <3>2. CASE w \in On(a, id) /\ a.windows[w].minimized
      <4>1. Settled(a)
        BY InvSettled
      <4>2. d.output \in Outputs(a) /\ w \in On(a, a.shown[d.output])
        BY <1>1, <2>2, <3>2 DEF SameSpaces, Outputs
      <4>3. DesktopInv(FocusHere(a, w)) /\ SameSpaces(a, FocusHere(a, w))
        BY <4>1, <4>2, FocusHereKeeps
      <4> HIDE DEF w
      <4>4. FocusHere(a, w) \in A
        BY <4>3, SameSpacesFacts DEF DesktopInv, InSession
      <4> QED BY <3>2, <4>4 DEF Restored, w
    <3> QED BY <3>1, <3>2
  <2>5. r \in A
    <3> HIDE DEF A, hidden
    <3>1. hidden \in Seq(Windows)
      BY <1>1 DEF hidden
    <3> QED BY <2>3, <2>4, <3>1, RestoredFold
  <2> HIDE DEF r
  <2>6. DesktopInv(r) /\ Quiet(b, r)
    BY <2>5, QuietFacts
  <2> QED BY <2>1, <2>2, <2>6, QuietFacts
<1>3. CASE d.hidden[id] = <<>>
  <2> DEFINE A == {e \in State : DesktopInv(e) /\ SameSpaces(d, e)}
             r == FoldLeft(Minimized, d, order)
  <2>1. Toggled(d, order) = [r EXCEPT !.hidden[id] = order]
    BY <1>3 DEF Toggled, id
  <2>2. d \in A
    BY <1>1, SameSpacesFacts
  <2>3. ASSUME NEW a \in A, NEW i \in DOMAIN order PROVE Minimized(a, order[i]) \in A
    <3>1. order[i] \in Mapped(a)
      BY DEF SameSpaces, Range
    <3>2. DesktopInv(Minimized(a, order[i])) /\ SameSpaces(a, Minimized(a, order[i]))
      BY <3>1, MinimizedKeeps
    <3> QED BY <3>2, SameSpacesFacts DEF DesktopInv, InSession
  <2>4. r \in A
    <3> HIDE DEF A
    <3> QED BY <2>2, <2>3, MinimizedFold
  <2> HIDE DEF r
  <2>5. DesktopInv(r) /\ Quiet(d, r)
    BY <2>4, QuietFacts
  <2>6. DesktopInv([r EXCEPT !.hidden[id] = order]) /\ Quiet(r, [r EXCEPT !.hidden[id] = order])
    BY <1>1, <2>5, HiddenKeeps
  <2> QED BY <2>1, <2>5, <2>6, QuietFacts
<1> QED BY <1>2, <1>3

-----------------------------------------------------------------------------
(* The handlers. Each is shown to keep the invariant and to tell clients of *)
(* a change of the workspaces and of the windows on them.                   *)

Kept == Result(Now, desktop')

\* What is read of the desktop a handler finds.
LEMMA NowFacts ==
  ASSUME DesktopInv(desktop)
  PROVE  /\ DesktopInv(Now) /\ InSession(Now) /\ Settled(Now)
         /\ Now \in State
         /\ Now.session = desktop.session /\ Outputs(Now) = Outputs(desktop)
         /\ Now.workspaces = desktop.workspaces /\ \A id : On(Now, id) = On(desktop, id)
         /\ Now.shown = desktop.shown /\ Now.config = desktop.config
         /\ Sessions[Now.session].workspaces \in Ids
         /\ Sessions[Now.session].layers \subseteq {"none", "demand", "exclusive"}
<1>1. /\ Now \in State
      /\ Now.session = desktop.session /\ Now.windows = desktop.windows
      /\ Now.workspaces = desktop.workspaces /\ Now.shown = desktop.shown
      /\ Now.output = desktop.output /\ Now.focused = desktop.focused
      /\ Now.keyboard = desktop.keyboard /\ Now.layer = desktop.layer
      /\ Now.locked = desktop.locked /\ Now.config = desktop.config /\ Now.told = desktop.told
      /\ Now.history = desktop.history /\ Now.focus_of = desktop.focus_of
  BY DEF DesktopInv, InSession, State, Now
<1>2. /\ Mapped(Now) = Mapped(desktop)
      /\ \A i : On(Now, i) = On(desktop, i) /\ Visible(Now, i) = Visible(desktop, i)
      /\ Outputs(Now) = Outputs(desktop) /\ Shown(Now) = Shown(desktop)
  BY <1>1 DEF Mapped, On, Visible, Outputs, Shown
<1>3. InSession(Now) /\ Claims(Now) /\ Seen(Now) /\ ToldAll(Now) /\ FocusKept(Now) /\ Spaced(Now)
  BY <1>1, <1>2 DEF DesktopInv, InSession, Claims, Seen, ToldAll, ToldRest, FocusKept, Spaced
<1>4. Histories(Now)
  BY <1>1, <1>2 DEF DesktopInv, Histories, Remembered
<1>5. DesktopInv(Now)
  BY <1>3, <1>4 DEF DesktopInv
<1>6. Now.session \in DOMAIN Sessions
  BY <1>1 DEF State
<1> QED BY <1>1, <1>2, <1>3, <1>5, <1>6, InvSettled, SessionsAssumption

\* A change of the keyboard focus alone.
LEMMA FocusKeeps ==
  ASSUME NEW d, Settled(d), NEW s, Askable(d, s)
  PROVE  DesktopInv(SetKeyboardFocus(d, s)) /\ Quiet(d, SetKeyboardFocus(d, s))
BY FocusSettles, QuietFacts

\* A layer surface or a lock comes, changes or goes: only the claims change.
SameButClaims(d, e) ==
    /\ e \in State /\ e.session = d.session /\ e.windows = d.windows
    /\ e.workspaces = d.workspaces /\ e.shown = d.shown /\ e.output = d.output
    /\ e.focused = d.focused /\ e.keyboard = d.keyboard /\ e.config = d.config
    /\ e.told = d.told /\ e.history = d.history /\ e.focus_of = d.focus_of
    /\ e.changed = d.changed

LEMMA ClaimsChange ==
  ASSUME NEW d, DesktopInv(d), NEW e, SameButClaims(d, e)
  PROVE  /\ Settled(e) /\ Seen(e) /\ Quiet(d, e)
         /\ Claims(e) => DesktopInv(e)
         /\ Askable(e, NoFocus)
<1>1. /\ Mapped(e) = Mapped(d) /\ \A i : On(e, i) = On(d, i) /\ Visible(e, i) = Visible(d, i)
      /\ Outputs(e) = Outputs(d) /\ Shown(e) = Shown(d)
  BY DEF SameButClaims, Mapped, On, Visible, Outputs, Shown
<1>2. InSession(e) /\ Seen(e) /\ ToldAll(e) /\ FocusKept(e) /\ Spaced(e) /\ KeysFollow(e)
  BY <1>1 DEF SameButClaims, DesktopInv, InSession, Seen, ToldAll, ToldRest, FocusKept, Spaced, KeysFollow
<1>3. Histories(e)
  BY <1>1 DEF SameButClaims, DesktopInv, Histories, Remembered
<1> QED BY <1>1, <1>2, <1>3, KeyboardFacts DEF Settled, DesktopInv, Quiet, Told, SameButClaims, Askable

LEMMA LayerKeeps ==
  ASSUME NEW d, DesktopInv(d), NEW interactivity \in {"none", "demand", "exclusive"}
  PROVE  LET e == [d EXCEPT !.layer = interactivity] IN
         DesktopInv(FocusInteractiveLayer(e)) /\ Quiet(d, FocusInteractiveLayer(e))
<1> DEFINE e == [d EXCEPT !.layer = interactivity]
           r == FocusInteractiveLayer(e)
<1>1. SameButClaims(d, e) /\ e.layer = interactivity /\ e.locked = d.locked /\ e.keyboard = d.keyboard
  BY DEF DesktopInv, InSession, State, SameButClaims
<1>2. Claims(d) /\ d.keyboard \in Keyboards /\ d.locked \in BOOLEAN
  BY DEF DesktopInv, InSession, State
<1> SUFFICES DesktopInv(r) /\ Quiet(d, r)
  OBVIOUS
<1> HIDE DEF e
<1>3. /\ Settled(e) /\ Seen(e) /\ Quiet(d, e)
      /\ Claims(e) => DesktopInv(e)
  BY <1>1, ClaimsChange
<1>4. CASE e.locked
  <2>1. Claims(e)
    BY <1>1, <1>2, <1>4, KeyboardFacts DEF Claims
  <2> QED BY <1>3, <1>4, <2>1 DEF FocusInteractiveLayer
<1>5. CASE ~e.locked /\ e.layer = "none"
  <2>1. e.keyboard \in {Layer, NoFocus} \/ Claims(e)
    BY <1>1, <1>2, <1>5 DEF Claims
  <2>2. r = ReleaseLayerFocus(e)
    BY <1>5 DEF FocusInteractiveLayer
  <2> QED BY <1>3, <2>1, <2>2, ReleaseKeeps, QuietFacts
<1>6. CASE ~e.locked /\ e.layer # "none" /\ (e.layer = "exclusive" \/ e.keyboard = NoFocus)
  <2>1. r = SetKeyboardFocus(e, Layer)
    BY <1>6 DEF FocusInteractiveLayer
  <2>2. Askable(e, Layer)
    BY <1>1, <1>6, KeyboardFacts DEF Askable
  <2> QED BY <1>3, <2>1, <2>2, FocusKeeps, QuietFacts
<1>7. CASE ~e.locked /\ e.layer # "none" /\ ~(e.layer = "exclusive" \/ e.keyboard = NoFocus)
  <2>1. r = e
    BY <1>7 DEF FocusInteractiveLayer
  <2>2. Claims(e)
    BY <1>1, <1>2, <1>7 DEF Claims
  <2> QED BY <1>3, <2>1, <2>2
<1> QED BY <1>4, <1>5, <1>6, <1>7

LEMMA SurfacesKeep ==
  ASSUME DesktopInv(desktop), Surfaces
  PROVE  Kept
<1> DEFINE d == Now
<1>1. DesktopInv(d) /\ d \in State /\ d.session = desktop.session
      /\ Sessions[d.session].layers \subseteq {"none", "demand", "exclusive"}
  BY NowFacts
<1> SUFFICES Result(d, desktop')
  BY DEF Kept
<1>2. ASSUME NEW i \in Session.layers, MapLayer(i) \/ CommitLayer(i)
      PROVE  Result(d, desktop')
  <2>1. desktop' = FocusInteractiveLayer([d EXCEPT !.layer = i]) /\ i \in {"none", "demand", "exclusive"}
    BY <1>1, <1>2 DEF MapLayer, CommitLayer, Session
  <2> HIDE DEF d
  <2> QED BY <1>1, <2>1, LayerKeeps, QuietFacts
<1>3. CASE UnmapLayer
  <2> DEFINE e == [d EXCEPT !.layer = "absent"]
  <2>1. desktop' = ReleaseLayerFocus(e)
    BY <1>3 DEF UnmapLayer
  <2> HIDE DEF d
  <2>2. SameButClaims(d, e) /\ e.layer = "absent" /\ e.locked = d.locked /\ e.keyboard = d.keyboard
    BY <1>1 DEF State, SameButClaims
  <2> HIDE DEF e
  <2>3. Settled(e) /\ Seen(e) /\ Quiet(d, e)
    BY <1>1, <2>2, ClaimsChange
  <2>4. e.keyboard \in {Layer, NoFocus} \/ Claims(e)
    BY <1>1, <2>2 DEF DesktopInv, Claims
  <2> QED BY <2>1, <2>3, <2>4, ReleaseKeeps, QuietFacts
<1>4. CASE Lock
  <2> DEFINE e == [d EXCEPT !.locked = TRUE, !.lock_surface = FALSE]
  <2>1. desktop' = SetKeyboardFocus(e, NoFocus)
    BY <1>4 DEF Lock
  <2> HIDE DEF d
  <2>2. SameButClaims(d, e)
    BY <1>1 DEF State, SameButClaims
  <2> HIDE DEF e
  <2>3. Settled(e) /\ Quiet(d, e) /\ Askable(e, NoFocus)
    BY <1>1, <2>2, ClaimsChange
  <2> QED BY <2>1, <2>3, FocusKeeps, QuietFacts
<1>5. CASE NewLockSurface
  <2> DEFINE e == [d EXCEPT !.lock_surface = TRUE]
  <2>1. desktop' = SetKeyboardFocus(e, Locker) /\ d.locked
    BY <1>5 DEF NewLockSurface
  <2> HIDE DEF d
  <2>2. SameButClaims(d, e) /\ e.locked
    BY <1>1, <2>1 DEF State, SameButClaims
  <2> HIDE DEF e
  <2>3. Settled(e) /\ Quiet(d, e)
    BY <1>1, <2>2, ClaimsChange
  <2>4. Askable(e, Locker)
    BY <2>2, KeyboardFacts DEF Askable
  <2> QED BY <2>1, <2>3, <2>4, FocusKeeps, QuietFacts
<1>6. CASE LockSurfaceDies
  <2> DEFINE e == [d EXCEPT !.lock_surface = FALSE]
  <2>1. desktop' = e
    BY <1>6 DEF LockSurfaceDies
  <2> HIDE DEF d
  <2>2. SameButClaims(d, e) /\ e.locked = d.locked /\ e.layer = d.layer /\ e.keyboard = d.keyboard
    BY <1>1 DEF State, SameButClaims
  <2> HIDE DEF e
  <2>3. Claims(e)
    BY <1>1, <2>2 DEF DesktopInv, Claims
  <2> QED BY <1>1, <2>1, <2>2, <2>3, ClaimsChange, QuietFacts
<1>7. CASE Unlock
  <2> DEFINE e == [d EXCEPT !.locked = FALSE, !.lock_surface = FALSE]
  <2>1. desktop' = SetKeyboardFocus(e, NoFocus)
    BY <1>7 DEF Unlock
  <2> HIDE DEF d
  <2>2. SameButClaims(d, e)
    BY <1>1 DEF State, SameButClaims
  <2> HIDE DEF e
  <2>3. Settled(e) /\ Quiet(d, e) /\ Askable(e, NoFocus)
    BY <1>1, <2>2, ClaimsChange
  <2> QED BY <2>1, <2>3, FocusKeeps, QuietFacts
<1> QED BY <1>2, <1>3, <1>4, <1>5, <1>6, <1>7 DEF Surfaces

LEMMA PointerKeeps ==
  ASSUME DesktopInv(desktop), Pointer
  PROVE  Kept
<1> DEFINE d == Now
<1>1. DesktopInv(d) /\ d \in State /\ Settled(d) /\ InSession(d) /\ Outputs(d) = Outputs(desktop)
  BY NowFacts
<1> SUFFICES Result(d, desktop')
  BY DEF Kept
<1>2. ASSUME NEW o \in Outputs(desktop), MovePointer(o)
      PROVE  Result(d, desktop')
  <2> DEFINE e == [d EXCEPT !.output = o]
  <2>1. PICK w \in Visible(e, Current(e)) \cup {NoWindow} :
           desktop' = IF e.config.sloppy /\ w \notin {NoWindow, e.focused} THEN SetKeyboardFocus(e, w) ELSE e
    BY <1>2 DEF MovePointer
  <2> HIDE DEF d
  <2>2. o \in 1..MaxOutputs
    <3>1. PICK n \in 1..MaxOutputs : d.shown \in [1..n -> Ids]
      BY <1>1 DEF State
    <3>2. o \in 1..n
      BY <1>1, <3>1 DEF Outputs
    <3> QED BY <3>1, <3>2, OutputsAssumption
  <2>3. /\ e \in State /\ e.output = o
        /\ e.session = d.session /\ e.windows = d.windows
        /\ e.workspaces = d.workspaces /\ e.shown = d.shown
        /\ e.focused = d.focused /\ e.keyboard = d.keyboard /\ e.config = d.config
        /\ e.layer = d.layer /\ e.locked = d.locked
        /\ e.told = d.told /\ e.history = d.history /\ e.focus_of = d.focus_of
        /\ e.changed = d.changed
    BY <1>1, <2>2 DEF State
  <2> HIDE DEF e
  <2>4. /\ Mapped(e) = Mapped(d) /\ \A i : On(e, i) = On(d, i) /\ Visible(e, i) = Visible(d, i)
        /\ Outputs(e) = Outputs(d) /\ Shown(e) = Shown(d)
    BY <2>3 DEF Mapped, On, Visible, Outputs, Shown
  <2>5. InSession(e)
    BY <1>1, <2>3, <2>4 DEF InSession
  <2>6. Seen(e) /\ Claims(e) /\ ToldAll(e) /\ FocusKept(e) /\ Spaced(e)
    BY <1>1, <2>3, <2>4 DEF DesktopInv, Seen, Claims, ToldAll, ToldRest, FocusKept, Spaced
  <2>7. Histories(e)
    BY <1>1, <2>3, <2>4 DEF DesktopInv, Histories, Remembered
  <2>8. DesktopInv(e) /\ Quiet(d, e)
    BY <2>3, <2>4, <2>5, <2>6, <2>7 DEF DesktopInv, Quiet, Told
  <2>9. w # NoWindow => Askable(e, w)
    BY <2>1, <2>5, CurrentFacts
  <2>10. w # NoWindow => DesktopInv(SetKeyboardFocus(e, w)) /\ Quiet(e, SetKeyboardFocus(e, w))
    BY <2>8, <2>9, InvSettled, FocusKeeps
  <2> QED BY <2>1, <2>8, <2>10, QuietFacts
<1>3. ASSUME NEW s, Askable(d, s), desktop' = SetKeyboardFocus(d, s)
      PROVE  Result(d, desktop')
  <2> HIDE DEF d
  <2> QED BY <1>1, <1>3, FocusKeeps, QuietFacts
<1>4. ASSUME NEW w \in Windows, PressWindow(w)
      PROVE  Result(d, desktop')
  BY <1>1, <1>3, <1>4, CurrentFacts DEF PressWindow
<1>5. PressLayer => Askable(d, Layer) /\ desktop' = SetKeyboardFocus(d, Layer)
  BY KeyboardFacts DEF PressLayer, Askable
<1>6. PressLocker => Askable(d, Locker) /\ desktop' = SetKeyboardFocus(d, Locker)
  BY KeyboardFacts DEF PressLocker, Askable
<1>7. PressNothing => Askable(d, NoFocus) /\ desktop' = SetKeyboardFocus(d, NoFocus)
  BY KeyboardFacts DEF PressNothing, Askable
<1> HIDE DEF d
<1> QED BY <1>2, <1>3, <1>4, <1>5, <1>6, <1>7 DEF Pointer

LEMMA ToplevelsKeep ==
  ASSUME DesktopInv(desktop), Toplevels
  PROVE  Kept
<1> DEFINE d == Now
<1>1. DesktopInv(d) /\ d \in State /\ Settled(d) /\ InSession(d)
  BY NowFacts
<1> SUFFICES Result(d, desktop')
  BY DEF Kept
<1>2. PICK w \in Windows : \/ NewToplevel(w) \/ MapWindow(w) \/ UnmapWindow(w) \/ ToplevelDestroyed(w)
                          \/ MinimizeWindow(w) \/ FocusWindow(w)
  BY DEF Toplevels
<1>3. CASE NewToplevel(w)
  <2> DEFINE id == Current(d)
             e == [d EXCEPT !.windows[w].is = "created", !.windows[w].on = id]
             x == [d.windows[w] EXCEPT !.is = "created", !.on = id]
             ws == [d.windows EXCEPT ![w] = x]
             g == [d EXCEPT !.windows = ws]
  <2>1. desktop' = e /\ d.windows[w].is = "absent"
    BY <1>3 DEF NewToplevel
  <2>2. id \in Ids /\ d.windows \in [Windows -> Window]
    BY <1>1, CurrentFacts DEF State
  <2> HIDE DEF d, id
  <2>3. x \in Window /\ x.is = "created"
    BY <2>2 DEF Window
  <2>4. e = g
    BY <1>1, <2>2 DEF State, Window
  <2> HIDE DEF x, e
  <2>5. ws \in [Windows -> Window] /\ \A v \in Windows : ws[v] = IF v = w THEN x ELSE d.windows[v]
    BY <2>2, <2>3
  <2> HIDE DEF ws
  <2>6. /\ g \in State /\ g.output = d.output
        /\ g.session = d.session /\ g.windows = ws
        /\ g.workspaces = d.workspaces /\ g.shown = d.shown
        /\ g.focused = d.focused /\ g.keyboard = d.keyboard /\ g.config = d.config
        /\ g.layer = d.layer /\ g.locked = d.locked
        /\ g.told = d.told /\ g.history = d.history /\ g.focus_of = d.focus_of
        /\ g.changed = d.changed
    BY <1>1, <2>5 DEF State
  <2> HIDE DEF g
  <2>7. Mapped(g) = Mapped(d) /\ \A v \in Mapped(g) : g.windows[v] = d.windows[v]
    BY <2>1, <2>3, <2>5, <2>6 DEF Mapped
  <2>8. /\ \A i : On(g, i) = On(d, i)
        /\ {v \in Mapped(g) : g.windows[v].minimized} = {v \in Mapped(d) : d.windows[v].minimized}
    BY <2>7 DEF On
  <2>9. /\ \A i : Visible(g, i) = Visible(d, i)
        /\ Outputs(g) = Outputs(d) /\ Shown(g) = Shown(d)
    BY <2>6, <2>7, <2>8 DEF On, Visible, Outputs, Shown
  <2>10. InSession(g)
    BY <1>1, <2>6, <2>9 DEF InSession
  <2>11. Seen(g) /\ Claims(g) /\ ToldAll(g) /\ FocusKept(g)
    BY <1>1, <2>6, <2>7, <2>8, <2>9 DEF DesktopInv, Seen, Claims, ToldAll, ToldRest, FocusKept
  <2>12. Spaced(g)
    BY <1>1, <2>6, <2>7, <2>9 DEF DesktopInv, Spaced
  <2>13. Histories(g)
    BY <1>1, <2>6, <2>8 DEF DesktopInv, Histories, Remembered
  <2>14. DesktopInv(g) /\ Quiet(d, g)
    BY <2>6, <2>8, <2>10, <2>11, <2>12, <2>13 DEF DesktopInv, Quiet, Told
  <2> QED BY <2>1, <2>4, <2>14, QuietFacts
<1>4. CASE MapWindow(w)
  <2>1. PICK id \in d.workspaces \cup {Current(d)} : desktop' = MappedOn(d, w, id) /\ d.windows[w].is = "created"
    BY <1>4 DEF MapWindow
  <2> HIDE DEF d
  <2>2. id \in d.workspaces
    BY <1>1, CurrentFacts DEF DesktopInv, Spaced
  <2> QED BY <1>1, <2>1, <2>2, MappedOnKeeps, QuietFacts
<1>5. CASE UnmapWindow(w) \/ ToplevelDestroyed(w)
  <2>1. PICK is \in {"absent", "created"} : desktop' = Closed(d, w, is)
    BY <1>5 DEF UnmapWindow, ToplevelDestroyed
  <2> HIDE DEF d
  <2> QED BY <1>1, <2>1, ClosedKeeps, QuietFacts
<1>6. CASE MinimizeWindow(w)
  <2>1. desktop' = Minimized(d, w) /\ w \in Mapped(d)
    BY <1>6 DEF MinimizeWindow
  <2> HIDE DEF d
  <2> QED BY <1>1, <2>1, MinimizedKeeps, QuietFacts
<1>7. CASE FocusWindow(w)
  <2>1. desktop' = FocusById(d, w) /\ w \in Mapped(d)
    BY <1>7 DEF FocusWindow
  <2> HIDE DEF d
  <2> QED BY <1>1, <2>1, FocusByIdKeeps
<1> QED BY <1>2, <1>3, <1>4, <1>5, <1>6, <1>7

-----------------------------------------------------------------------------
(* Workspaces that come and go. *)

\* resolve_workspace_target names a workspace that is there, or none.
LEMMA ResolvedFacts ==
  ASSUME NEW d, DesktopInv(d), NEW id \in Int
  PROVE  Resolved(d, id) \in d.workspaces \cup {NoOutput}
<1>1. d.config \in Config /\ d.config.count \in Ids
  BY DEF DesktopInv, InSession, State, Config
<1>2. d.config.count \in Nat /\ d.config.count > 0
  BY <1>1 DEF Ids
<1> DEFINE n == d.config.count
<1>3. n \in 1..n /\ ((id - 1) % n) + 1 \in 1..n
  <2> HIDE DEF n
  <2> QED BY <1>2 DEF n
<1>4. d.config.dynamic \/ d.workspaces = 1..n
  BY DEF DesktopInv, Spaced
<1> QED BY <1>3, <1>4 DEF Resolved

LEMMA SwitchFromKeeps ==
  ASSUME NEW d, DesktopInv(d), NEW id \in Int, SwitchFrom(d, id)
  PROVE  Result(d, desktop')
<1> DEFINE target == Resolved(d, id)
<1>1. target \in d.workspaces \cup {NoOutput}
  BY ResolvedFacts
<1>2. CASE target = NoOutput
  BY <1>2, QuietFacts DEF SwitchFrom
<1>3. CASE target # NoOutput
  <2>1. PICK top \in Topmost(d, target) : desktop' = Switched(d, target, top)
    BY <1>3 DEF SwitchFrom
  <2>2. top \in Visible(d, target) \cup {NoWindow} /\ top \in Topmost(d, target)
    BY <2>1 DEF Topmost
  <2> HIDE DEF target
  <2> QED BY <1>1, <1>3, <2>1, <2>2, SwitchedKeeps
<1> QED BY <1>2, <1>3

LEMMA CreatedKeeps ==
  ASSUME NEW d, DesktopInv(d), d.config.dynamic, NEW ids \in SUBSET Ids
  PROVE  LET e == [d EXCEPT !.workspaces = @ \cup ids, !.changed = TRUE] IN
         DesktopInv(e) /\ Quiet(d, e)
<1> DEFINE e == [d EXCEPT !.workspaces = @ \cup ids, !.changed = TRUE]
<1> SUFFICES DesktopInv(e) /\ Quiet(d, e)
  OBVIOUS
<1>1. /\ e \in State /\ e.workspaces = d.workspaces \cup ids /\ e.changed
      /\ e.session = d.session /\ e.windows = d.windows /\ e.shown = d.shown
      /\ e.output = d.output /\ e.focused = d.focused /\ e.keyboard = d.keyboard
      /\ e.layer = d.layer /\ e.locked = d.locked /\ e.lock_surface = d.lock_surface
      /\ e.config = d.config /\ e.history = d.history /\ e.focus_of = d.focus_of
      /\ e.told = d.told
  BY DEF DesktopInv, InSession, State
<1> HIDE DEF e
<1>2. /\ Mapped(e) = Mapped(d) /\ \A i : On(e, i) = On(d, i) /\ Visible(e, i) = Visible(d, i)
      /\ Outputs(e) = Outputs(d) /\ Shown(e) = Shown(d)
  BY <1>1 DEF Mapped, On, Visible, Outputs, Shown
<1>3. InSession(e) /\ Claims(e) /\ Seen(e) /\ ToldAll(e) /\ FocusKept(e)
  BY <1>1, <1>2 DEF DesktopInv, InSession, Claims, Seen, ToldAll, ToldRest, FocusKept
<1>4. Spaced(e)
  BY <1>1, <1>2 DEF DesktopInv, Spaced
<1>5. Histories(e)
  <2>1. \A i \in Ids : Remembered(d, i) \subseteq Remembered(e, i)
    BY <1>1, <1>2 DEF Remembered
  <2> QED BY <1>1, <2>1 DEF DesktopInv, Histories
<1> QED BY <1>1, <1>3, <1>4, <1>5 DEF DesktopInv, Quiet, Told

\* The orders in which ShowDesktop may hide windows.
LEMMA OrderFacts ==
  ASSUME NEW S \in SUBSET Windows, NEW order \in SetToSeqs(S)
  PROVE  order \in Seq(Windows) /\ Range(order) \subseteq S
<1>1. IsFiniteSet(S)
  BY FocusAssumption, FS_Subset
<1>2. Cardinality(S) \in Nat
  BY <1>1, FS_CardinalityType
<1>3. order \in [1..Cardinality(S) -> S]
  BY DEF SetToSeqs
<1> QED BY <1>2, <1>3 DEF Range

LEMMA SpacesKeep ==
  ASSUME DesktopInv(desktop), Spaces, ~(\E c \in Session.configs : ApplyConfig(c))
  PROVE  Kept
<1> DEFINE d == Now
           most == Sessions[d.session].workspaces
<1>1. /\ DesktopInv(d) /\ d \in State /\ InSession(d) /\ d.session = desktop.session
      /\ most \in Ids
  BY NowFacts
<1> SUFFICES Result(d, desktop')
  BY DEF Kept
<1>2. Session.workspaces = most
  BY <1>1 DEF Session
<1>3. /\ MaxWorkspace \in Nat /\ most \in Nat /\ 1..most \subseteq Ids
      /\ d.config.count \in Nat /\ Current(d) \in Ids /\ Current(d) \in d.workspaces
  <2>1. d.config \in Config /\ MaxWorkspace \in Nat
    BY <1>1, OutputsAssumption DEF State
  <2>2. d.config.count \in Ids
    BY <2>1 DEF Config
  <2>3. Current(d) \in Ids /\ Current(d) \in d.workspaces
    BY <1>1, CurrentFacts DEF DesktopInv, Spaced
  <2> HIDE DEF d, most
  <2> QED BY <1>1, <2>1, <2>2, <2>3 DEF Ids
<1>4. ASSUME NEW id \in 0..Session.workspaces, SwitchWorkspace(id)
      PROVE  Result(d, desktop')
  <2>1. SwitchFrom(d, id) /\ id \in Int
    BY <1>2, <1>3, <1>4 DEF SwitchWorkspace
  <2> HIDE DEF d
  <2> QED BY <1>1, <2>1, SwitchFromKeeps
<1>5. ASSUME NEW id \in Int, id \in Ids \/ (id > d.config.count /\ ~d.config.dynamic),
             SwitchFrom(Ensured(d, id), id)
      PROVE  Result(d, desktop')
  <2> DEFINE e == Ensured(d, id)
  <2> HIDE DEF d
  <2>1. DesktopInv(e) /\ Quiet(d, e)
    BY <1>1, <1>5, EnsuredKeeps
  <2>2. SwitchFrom(e, id)
    BY <1>5
  <2> HIDE DEF e
  <2> QED BY <2>1, <2>2, SwitchFromKeeps, QuietFacts
<1>6. ASSUME NEW id \in 1..Session.workspaces, WorkspaceShortcut(id)
      PROVE  Result(d, desktop')
  <2>1. SwitchFrom(Ensured(d, id), id) /\ id \in Ids /\ id \in Int
    BY <1>2, <1>3, <1>6 DEF WorkspaceShortcut, Ids
  <2> QED BY <1>5, <2>1
<1>7. ASSUME NEW id \in 1..Session.workspaces, MoveShortcut(id)
      PROVE  Result(d, desktop')
  <2> DEFINE e == Ensured(d, id)
             w == d.focused
  <2>1. id \in Ids /\ id \in Int
    BY <1>2, <1>3 DEF Ids
  <2>2. desktop' = (IF id \in e.workspaces THEN Moved(e, w, id) ELSE e) /\ w \in Windows
    BY <1>1, <1>7 DEF MoveShortcut, State
  <2> HIDE DEF d
  <2>3. DesktopInv(e) /\ Quiet(d, e)
    BY <1>1, <2>1, EnsuredKeeps
  <2> HIDE DEF e
  <2>4. id \in e.workspaces => DesktopInv(Moved(e, w, id)) /\ Quiet(e, Moved(e, w, id))
    BY <2>2, <2>3, MovedKeeps
  <2> QED BY <2>2, <2>3, <2>4, QuietFacts
<1>8. ASSUME NEW id \in 1..Session.workspaces, DestroyWorkspace(id)
      PROVE  Result(d, desktop')
  <2>1. desktop' = Pruned(d, id) /\ id \in Ids
    BY <1>2, <1>3, <1>8 DEF DestroyWorkspace, Pruned
  <2> HIDE DEF d
  <2> QED BY <1>1, <2>1, PrunedKeeps, PrunedQuiet, QuietFacts
<1>9. ASSUME NEW w \in Windows, NEW id \in 1..Session.workspaces, MoveWindowToWorkspace(w, id)
      PROVE  Result(d, desktop')
  <2>1. desktop' = Moved(d, w, id) /\ id \in d.workspaces
    BY <1>9 DEF MoveWindowToWorkspace
  <2> HIDE DEF d
  <2> QED BY <1>1, <2>1, MovedKeeps, QuietFacts
<1>10. CASE NextWorkspace
  <2> DEFINE target == Current(d) + 1
  <2>1. /\ SwitchFrom(Ensured(d, target), target)
        /\ d.config.dynamic => target <= most
    BY <1>2, <1>10 DEF NextWorkspace
  <2>2. target \in Int /\ (target \in Ids \/ (target > d.config.count /\ ~d.config.dynamic))
    <3>1. d.config.dynamic \/ Current(d) <= d.config.count
      BY <1>1, <1>3 DEF DesktopInv, Spaced
    <3>2. d.config.count <= MaxWorkspace
      BY <1>1 DEF State, Config, Ids
    <3> DEFINE cur == Current(d)
               cnt == d.config.count
               dyn == d.config.dynamic
    <3>3. cur \in 1..MaxWorkspace /\ most \in 1..MaxWorkspace
      BY <1>1, <1>3 DEF Ids
    <3>4. dyn => cur + 1 <= most
      BY <2>1
    <3> HIDE DEF cur, cnt, dyn, most
    <3>5. cur + 1 \in Int /\ (cur + 1 \in 1..MaxWorkspace \/ (cur + 1 > cnt /\ ~dyn))
      BY <1>3, <3>1, <3>2, <3>3, <3>4 DEF cur, cnt, dyn
    <3> QED BY <3>5 DEF Ids, cur, cnt, dyn
  <2> HIDE DEF target
  <2> QED BY <1>5, <2>1, <2>2
<1>11. CASE PreviousWorkspace
  <2> DEFINE target == IF Current(d) > 1 THEN Current(d) - 1
                       ELSE IF d.config.wrap THEN d.config.count ELSE 1
  <2>1. SwitchFrom(d, target) /\ target \in Int
    BY <1>3, <1>11 DEF PreviousWorkspace, Ids
  <2> HIDE DEF d, target
  <2> QED BY <1>1, <2>1, SwitchFromKeeps
<1>12. CASE CreateWorkspace
  <2> DEFINE free == 1..most \ d.workspaces
             ids == {Min(free)}
  <2>1. /\ free # {} /\ d.config.dynamic
        /\ desktop' = [d EXCEPT !.workspaces = @ \cup ids, !.changed = TRUE]
    BY <1>2, <1>12 DEF CreateWorkspace
  <2>2. ids \in SUBSET Ids
    <3>1. free \in SUBSET (0..most)
      BY <1>3
    <3>2. Min(free) \in free
      <4> HIDE DEF free, most
      <4> QED BY <1>3, <2>1, <3>1, LeastIsMin
    <3> QED BY <1>3, <3>2
  <2> HIDE DEF d, ids
  <2> QED BY <1>1, <2>1, <2>2, CreatedKeeps, QuietFacts
<1>13. CASE ShowDesktop
  <2> DEFINE S == Visible(d, Current(d))
  <2>1. PICK order \in SetToSeqs(S) : desktop' = Toggled(d, order)
    BY <1>13 DEF ShowDesktop
  <2>2. S \in SUBSET Windows /\ S \subseteq Mapped(d)
    BY DEF Visible, On, Mapped
  <2> HIDE DEF S, d
  <2>3. order \in Seq(Windows) /\ Range(order) \subseteq Mapped(d)
    BY <2>2, OrderFacts
  <2> QED BY <1>1, <2>1, <2>3, ToggledKeeps, QuietFacts
<1> QED BY <1>4, <1>6, <1>7, <1>8, <1>9, <1>10, <1>11, <1>12, <1>13 DEF Spaces

-----------------------------------------------------------------------------
(* A new configuration. *)

\* What holds until the histories are cleaned and the outputs assigned.
Unassigned(e) ==
    /\ InSession(e) /\ Claims(e) /\ FocusKept(e) /\ KeysFollow(e) /\ e.changed
    /\ \A w \in Mapped(e) : e.windows[w].on \in e.workspaces
    /\ Shown(e) \subseteq e.workspaces
    /\ 1..e.config.count \subseteq e.workspaces
    /\ e.config.dynamic \/ e.workspaces = 1..e.config.count
    /\ e.told.windows = Mapped(e) /\ e.told.focused = e.focused
    /\ e.told.minimized = {w \in Mapped(e) : e.windows[w].minimized}
    /\ \A id \in Ids : /\ Range(e.history[id]) \subseteq IF id \in e.workspaces THEN Mapped(e) ELSE {}
                       /\ IsInjective(e.history[id])

LEMMA ResizedKeeps ==
  ASSUME NEW d, DesktopInv(d), NEW c \in Sessions[d.session].configs
  PROVE  Unassigned(Resized(d, c)) /\ Resized(d, c).config = c
<1> DEFINE pins == [id \in Ids |-> IF id <= c.count THEN c.pins[id] ELSE d.pins[id]]
           x == [d EXCEPT !.config = c, !.workspaces = @ \cup 1..c.count,
                          !.pins = [id \in Ids |-> IF id <= c.count THEN c.pins[id] ELSE @[id]]]
           y == [d EXCEPT !.config = c, !.workspaces = @ \cup 1..c.count, !.pins = pins]
           Clamped(id) == IF id > c.count THEN c.count ELSE id
<1>1. d \in State /\ InSession(d) /\ d.session \in DOMAIN Sessions
  BY DEF DesktopInv, InSession, State
<1>2. c \in Config
  BY <1>1, SessionsAssumption
<1>3. /\ c.count \in Ids /\ c.count \in Nat /\ c.count > 0 /\ 1..c.count \subseteq Ids
      /\ c.pins \in [Ids -> 0..MaxOutputs] /\ c.dynamic \in BOOLEAN
      /\ \A id \in Ids : Clamped(id) \in 1..c.count
  <2> DEFINE n == c.count
  <2>1. n \in Ids /\ c.pins \in [Ids -> 0..MaxOutputs] /\ c.dynamic \in BOOLEAN
    BY <1>2 DEF Config
  <2>2. n \in Nat /\ n > 0 /\ 1..n \subseteq Ids /\ \A id \in Ids : (IF id > n THEN n ELSE id) \in 1..n
    <3> HIDE DEF n
    <3> QED BY <2>1, OutputsAssumption DEF Ids
  <2> QED BY <2>1, <2>2
<1>4. pins \in [Ids -> 0..MaxOutputs]
  BY <1>1, <1>3 DEF State
<1>5. x = y
  BY <1>1 DEF State
<1> HIDE DEF x, pins
<1>6. /\ y \in State /\ y.workspaces = d.workspaces \cup 1..c.count /\ y.config = c
      /\ y.session = d.session /\ y.windows = d.windows /\ y.shown = d.shown
      /\ y.output = d.output /\ y.focused = d.focused /\ y.keyboard = d.keyboard
      /\ y.layer = d.layer /\ y.locked = d.locked /\ y.told = d.told
      /\ y.history = d.history /\ y.focus_of = d.focus_of
  BY <1>1, <1>2, <1>3, <1>4 DEF State
<1> HIDE DEF y
<1>7. Histories(y)
  <2>1. \A id \in Ids : Remembered(d, id) \subseteq Remembered(y, id)
    BY <1>6 DEF Remembered, On, Mapped
  <2> QED BY <1>6, <2>1 DEF DesktopInv, Histories
<1>8. /\ Mapped(y) = Mapped(d) /\ \A id : On(y, id) = On(d, id)
      /\ Outputs(y) = Outputs(d) /\ Shown(y) = Shown(d)
  BY <1>6 DEF Mapped, On, Outputs, Shown
<1>9. ASSUME NEW ids \in SUBSET Ids
      PROVE  LET r == Removed(y, ids) IN
             /\ r \in State
             /\ r.session = d.session /\ r.windows = d.windows /\ r.shown = d.shown /\ r.output = d.output
             /\ r.focused = d.focused /\ r.keyboard = d.keyboard
             /\ r.layer = d.layer /\ r.locked = d.locked
             /\ r.config = c /\ r.told = d.told /\ r.changed
             /\ r.workspaces = (d.workspaces \cup 1..c.count) \ ids
             /\ Histories(r)
  BY <1>6, <1>7, RemovedFacts
<1>10. \A e : Histories(e) => \A id \in Ids :
          /\ Range(e.history[id]) \subseteq IF id \in e.workspaces THEN Mapped(e) ELSE {}
          /\ IsInjective(e.history[id])
  BY DEF Histories, Remembered, On
<1>11. CASE c.dynamic
  <2> DEFINE gone == {id \in Ids : Removable(y, id)}
             r == Removed(y, gone)
  <2>1. Resized(d, c) = r
    BY <1>5, <1>11 DEF Resized, x
  <2>2. gone \in SUBSET Ids
    OBVIOUS
  <2>3. \A id \in gone : id > c.count /\ id \notin Shown(d) /\ On(d, id) = {}
    BY <1>6, <1>8 DEF Removable
  <2> HIDE DEF gone
  <2>4. /\ r \in State
        /\ r.session = d.session /\ r.windows = d.windows /\ r.shown = d.shown /\ r.output = d.output
        /\ r.focused = d.focused /\ r.keyboard = d.keyboard
        /\ r.layer = d.layer /\ r.locked = d.locked
        /\ r.config = c /\ r.told = d.told /\ r.changed
        /\ r.workspaces = (d.workspaces \cup 1..c.count) \ gone
        /\ Histories(r)
    BY <1>9, <2>2
  <2> HIDE DEF r
  <2>5. Mapped(r) = Mapped(d) /\ Outputs(r) = Outputs(d) /\ Shown(r) = Shown(d)
    BY <2>4 DEF Mapped, Outputs, Shown
  <2>6. InSession(r) /\ Claims(r) /\ FocusKept(r) /\ KeysFollow(r)
    BY <1>1, <2>4, <2>5 DEF DesktopInv, InSession, Claims, FocusKept, Seen, KeysFollow
  <2>7. \A w \in Mapped(r) : r.windows[w].on \in r.workspaces
    <3> SUFFICES ASSUME NEW w \in Mapped(d) PROVE d.windows[w].on \in r.workspaces
      BY <2>4, <2>5
    <3>1. d.windows[w].on \in d.workspaces /\ w \in On(d, d.windows[w].on)
      BY DEF DesktopInv, Spaced, On
    <3> QED BY <2>3, <2>4, <3>1
  <2>8. Shown(r) \subseteq r.workspaces
    BY <2>3, <2>4, <2>5 DEF DesktopInv, Spaced
  <2>9. 1..r.config.count \subseteq r.workspaces
    <3>1. \A id \in 1..c.count : id \notin gone
      BY <1>3, <2>3
    <3> QED BY <2>4, <3>1
  <2>10. /\ r.told.windows = Mapped(r) /\ r.told.focused = r.focused
         /\ r.told.minimized = {w \in Mapped(r) : r.windows[w].minimized}
    BY <2>4, <2>5 DEF DesktopInv, ToldAll, ToldRest
  <2> QED BY <1>10, <1>11, <2>1, <2>4, <2>6, <2>7, <2>8, <2>9, <2>10 DEF Unassigned
<1>12. CASE ~c.dynamic
  <2> DEFINE gone == {id \in Ids : id > c.count}
             q == Removed(y, gone)
             ws == [w \in Windows |-> [d.windows[w] EXCEPT !.on = Clamped(@)]]
             shown == [o \in DOMAIN d.shown |-> Clamped(d.shown[o])]
             r == [q EXCEPT !.windows = ws, !.shown = shown]
  <2>2. gone \in SUBSET Ids
    OBVIOUS
  <2>3. \A id \in Ids : id \notin gone => id \in 1..c.count
    BY <1>3 DEF Ids
  <2>4. \A id \in 1..c.count : id \notin gone
    BY <1>3
  <2>5. Resized(d, c) = [Removed(y, gone) EXCEPT !.windows = ws, !.shown = shown]
    BY <1>5, <1>12 DEF Resized, Outputs, x
  <2> HIDE DEF gone
  <2>6. /\ q \in State
        /\ q.session = d.session /\ q.windows = d.windows /\ q.shown = d.shown /\ q.output = d.output
        /\ q.focused = d.focused /\ q.keyboard = d.keyboard
        /\ q.layer = d.layer /\ q.locked = d.locked
        /\ q.config = c /\ q.told = d.told /\ q.changed
        /\ q.workspaces = (d.workspaces \cup 1..c.count) \ gone
        /\ Histories(q)
    BY <1>9, <2>2
  <2>7. Resized(d, c) = r
    BY <2>5
  <2> HIDE DEF q
  <2>8. q.workspaces = 1..c.count
    <3>1. d.workspaces \subseteq Ids
      BY <1>1 DEF State
    <3> QED BY <2>3, <2>4, <2>6, <3>1
  <2>9. /\ ws \in [Windows -> Window]
        /\ \A w \in Windows : /\ ws[w].is = d.windows[w].is /\ ws[w].minimized = d.windows[w].minimized
                              /\ ws[w].on \in 1..c.count
    <3>1. ASSUME NEW w \in Windows
          PROVE  LET v == [d.windows[w] EXCEPT !.on = Clamped(@)] IN
                 /\ v \in Window /\ v.is = d.windows[w].is /\ v.minimized = d.windows[w].minimized
                 /\ v.on \in 1..c.count
      <4>1. d.windows[w] \in Window
        BY <1>1 DEF State
      <4>2. Clamped(d.windows[w].on) \in 1..c.count /\ Clamped(d.windows[w].on) \in Ids
        BY <1>3, <4>1 DEF Window
      <4> HIDE DEF Clamped
      <4> QED BY <4>1, <4>2 DEF Window
    <3> HIDE DEF Clamped
    <3> QED BY <3>1
  <2>10. PICK n \in 1..MaxOutputs : d.shown \in [1..n -> Ids]
    BY <1>1 DEF State
  <2>11. shown \in [1..n -> Ids] /\ DOMAIN shown = Outputs(d) /\ Range(shown) \subseteq 1..c.count
    <3> HIDE DEF Clamped
    <3> QED BY <1>3, <2>10 DEF Range, Outputs
  <2> HIDE DEF ws, shown
  <2>12. /\ r \in State /\ r.windows = ws /\ r.shown = shown /\ r.workspaces = 1..c.count
         /\ r.session = d.session /\ r.output = d.output
         /\ r.focused = d.focused /\ r.keyboard = d.keyboard
         /\ r.layer = d.layer /\ r.locked = d.locked
         /\ r.config = c /\ r.told = d.told /\ r.changed
         /\ r.history = q.history
    <3>1. shown \in UNION {[1..m -> Ids] : m \in 1..MaxOutputs}
      BY <2>11
    <3> QED BY <2>6, <2>8, <2>9, <3>1 DEF State
  <2> HIDE DEF r
  <2>13. Mapped(r) = Mapped(d) /\ Outputs(r) = Outputs(d) /\ Shown(r) \subseteq r.workspaces
         /\ Mapped(q) = Mapped(d)
    BY <2>6, <2>9, <2>11, <2>12 DEF Mapped, Outputs, Shown
  <2>14. InSession(r) /\ Claims(r) /\ FocusKept(r) /\ KeysFollow(r)
    BY <1>1, <2>12, <2>13 DEF DesktopInv, InSession, Claims, FocusKept, Seen, KeysFollow, Outputs
  <2>15. \A w \in Mapped(r) : r.windows[w].on \in r.workspaces
    BY <2>9, <2>12 DEF Mapped
  <2>16. {w \in Mapped(r) : r.windows[w].minimized} = {w \in Mapped(d) : d.windows[w].minimized}
    BY <2>9, <2>12, <2>13 DEF Mapped
  <2>17. /\ r.told.windows = Mapped(r) /\ r.told.focused = r.focused
         /\ r.told.minimized = {w \in Mapped(r) : r.windows[w].minimized}
    BY <2>12, <2>13, <2>16 DEF DesktopInv, ToldAll, ToldRest
  <2>18. \A id \in Ids : /\ Range(r.history[id]) \subseteq IF id \in r.workspaces THEN Mapped(r) ELSE {}
                         /\ IsInjective(r.history[id])
    BY <1>10, <2>6, <2>8, <2>12, <2>13
  <2> QED BY <2>7, <2>12, <2>13, <2>14, <2>15, <2>17, <2>18 DEF Unassigned
<1> QED BY <1>3, <1>11, <1>12

LEMMA CleanedKeeps ==
  ASSUME NEW d, Unassigned(d)
  PROVE  Unassigned(Cleaned(d)) /\ Histories(Cleaned(d)) /\ Cleaned(d).config = d.config
<1> DEFINE here(id) == {w \in Windows : d.windows[w].on = id}
           h == [id \in Ids |-> Retained(d.history[id], here(id))]
           f == [id \in Ids |-> IF d.focus_of[id] \in Range(h[id]) THEN d.focus_of[id] ELSE NoWindow]
           e == [d EXCEPT !.history = h, !.focus_of = f]
<1>1. d \in State
  BY DEF Unassigned, InSession
<1>2. Cleaned(d) = e
  BY <1>1 DEF Cleaned, State
<1>3. ASSUME NEW id \in Ids
      PROVE  /\ Retained(d.history[id], here(id)) \in Seq(Windows)
             /\ Range(Retained(d.history[id], here(id))) = Range(d.history[id]) \cap here(id)
             /\ IsInjective(d.history[id]) => IsInjective(Retained(d.history[id], here(id)))
  <2>1. d.history[id] \in Seq(Windows)
    BY <1>1 DEF State
  <2> DEFINE T == here(id)
  <2> HIDE DEF T
  <2>2. /\ Retained(d.history[id], T) \in Seq(Windows)
        /\ Range(Retained(d.history[id], T)) = Range(d.history[id]) \cap T
        /\ IsInjective(d.history[id]) => IsInjective(Retained(d.history[id], T))
    BY <2>1, RetainedFacts
  <2> QED BY <2>2 DEF T
<1>4. /\ h \in [Ids -> Seq(Windows)]
      /\ \A id \in Ids : /\ Range(h[id]) = Range(d.history[id]) \cap here(id)
                         /\ IsInjective(d.history[id]) => IsInjective(h[id])
  <2> HIDE DEF here
  <2> QED BY <1>3
<1> HIDE DEF h
<1>5. /\ f \in [Ids -> Windows \cup {NoWindow}]
      /\ \A id \in Ids : f[id] \in Range(h[id]) \cup {NoWindow}
  BY <1>1 DEF State
<1> HIDE DEF f
<1>6. /\ e \in State /\ e.history = h /\ e.focus_of = f
      /\ e.session = d.session /\ e.windows = d.windows /\ e.workspaces = d.workspaces
      /\ e.shown = d.shown /\ e.output = d.output /\ e.focused = d.focused
      /\ e.keyboard = d.keyboard /\ e.layer = d.layer /\ e.locked = d.locked
      /\ e.config = d.config /\ e.told = d.told /\ e.changed = d.changed
  BY <1>1, <1>4, <1>5 DEF State
<1> HIDE DEF e
<1>7. Mapped(e) = Mapped(d) /\ Outputs(e) = Outputs(d) /\ Shown(e) = Shown(d)
      /\ \A id : On(e, id) = On(d, id)
  BY <1>6 DEF Mapped, On, Outputs, Shown
<1>8. InSession(e) /\ Claims(e) /\ FocusKept(e) /\ KeysFollow(e)
  BY <1>6, <1>7 DEF Unassigned, InSession, Claims, FocusKept, KeysFollow
<1>9. \A id \in Ids : /\ Range(e.history[id]) \subseteq IF id \in e.workspaces THEN Mapped(e) ELSE {}
                      /\ IsInjective(e.history[id])
  <2>1. \A id \in Ids : /\ Range(d.history[id]) \subseteq IF id \in d.workspaces THEN Mapped(d) ELSE {}
                        /\ IsInjective(d.history[id])
    BY DEF Unassigned
  <2>2. \A id \in Ids : Range(h[id]) \subseteq Range(d.history[id])
    <3> HIDE DEF here
    <3> QED BY <1>4
  <2> HIDE DEF here
  <2> QED BY <1>4, <1>6, <1>7, <2>1, <2>2
<1>10. Unassigned(e)
  BY <1>6, <1>7, <1>8, <1>9 DEF Unassigned
<1>11. Histories(e)
  <2> SUFFICES ASSUME NEW id \in Ids
               PROVE  /\ Range(e.history[id]) \subseteq Remembered(e, id)
                      /\ e.focus_of[id] \in Remembered(e, id) \cup {NoWindow}
                      /\ IsInjective(e.history[id])
    BY DEF Histories
  <2>1. Range(h[id]) \subseteq here(id)
    <3> HIDE DEF here
    <3> QED BY <1>4
  <2>2. Range(h[id]) \subseteq IF id \in e.workspaces THEN Mapped(e) ELSE {}
    BY <1>6, <1>9
  <2>3. Range(h[id]) \subseteq Remembered(e, id)
    BY <1>6, <2>1, <2>2 DEF Remembered, On
  <2> QED BY <1>5, <1>6, <1>9, <2>3
<1> QED BY <1>2, <1>6, <1>10, <1>11

\* The outputs in their order are assigned the workspaces they want, or the
\* first of the workspaces that are free.
Free(workspaces, shown, o) == workspaces \ {shown[p] : p \in 1..o - 1}
Chosen(workspaces, wanted, shown, o) ==
    IF wanted[o] \in {shown[p] : p \in 1..o - 1} /\ Free(workspaces, shown, o) # {}
    THEN Append(shown, Min(Free(workspaces, shown, o)))
    ELSE Append(shown, wanted[o])
ChosenAll(workspaces, wanted, order) ==
    FoldLeft(LAMBDA shown, o :
                 IF wanted[o] \in {shown[p] : p \in 1..o - 1}
                    /\ workspaces \ {shown[p] : p \in 1..o - 1} # {}
                 THEN Append(shown, Min(workspaces \ {shown[p] : p \in 1..o - 1}))
                 ELSE Append(shown, wanted[o]),
             <<>>, order)

\* g collects the choices.
Chooses(g, A, base, W, wanted, order) ==
    /\ g \in [0..Len(order) -> A]
    /\ g[0] = base
    /\ \A i \in 1..Len(order) : g[i] = Chosen(W, wanted, g[i - 1], order[i])

LEMMA ChosenFold ==
  ASSUME NEW A, NEW base \in A, base = <<>>, NEW W, NEW wanted, NEW order \in Seq(Nat),
         \A a \in A, i \in DOMAIN order : Chosen(W, wanted, a, order[i]) \in A
  PROVE  \E g : Chooses(g, A, base, W, wanted, order) /\ ChosenAll(W, wanted, order) = g[Len(order)]
<1> DEFINE n == Len(order)
           step == [x \in (1..n) \X A |-> Chosen(W, wanted, x[2], order[x[1]])]
           Equation(f) == f = [s \in SUBSET DOMAIN order |->
                                  IF s = {} THEN base
                                  ELSE Chosen(W, wanted, f[s \ {Max(s)}], order[Max(s)])]
           c == CHOOSE f : Equation(f)
<1>1. n \in Nat /\ DOMAIN order = 1..n
  OBVIOUS
<1>2. /\ step \in Steps(n, A)
      /\ \A i \in 1..n, a \in A : step[<<i, a>>] = Chosen(W, wanted, a, order[i])
  BY <1>1 DEF Steps
<1>3. \A s \in SUBSET (1..n) : s # {} => Max(s) \in 1..n /\ s \ {Max(s)} \in SUBSET (1..n)
  <2> SUFFICES ASSUME NEW s \in SUBSET (1..n), s # {} PROVE Max(s) \in s
    OBVIOUS
  <2>1. s \in SUBSET (0..n)
    OBVIOUS
  <2> QED BY <1>1, <2>1, GreatestUpTo
<1> HIDE DEF n, step
<1>4. PICK f : FoldsSets(f, n, A, base, step)
  BY <1>1, <1>2, FoldExists
<1>5. Equation(f)
  BY <1>1, <1>2, <1>3, <1>4 DEF FoldsSets
<1>6. Equation(c)
  <2> HIDE DEF Equation
  <2> QED BY <1>5
<1>7. ChosenAll(W, wanted, order) = c[1..n]
  BY <1>1 DEF ChosenAll, FoldLeft, MapThenFoldSet, Chosen, Free
<1> HIDE DEF c
<1>8. Follows(c, n, A, base, step)
  BY <1>1, <1>2, <1>3, <1>6 DEF Follows
<1>9. PICK g : Computed(g, n, A, base, step) /\ c[1..n] = g[n]
  BY <1>1, <1>2, <1>8, FoldValue
<1>10. g \in [0..n -> A] /\ g[0] = base /\ \A i \in 1..n : g[i] = step[<<i, g[i - 1]>>]
  BY <1>9 DEF Computed
<1>11. ASSUME NEW i \in 1..n PROVE g[i] = Chosen(W, wanted, g[i - 1], order[i])
  <2>1. g[i - 1] \in A
    BY <1>1, <1>10
  <2> QED BY <1>2, <1>10, <2>1
<1> QED BY <1>7, <1>9, <1>10, <1>11 DEF n, Chooses

LEMMA ChosenFacts ==
  ASSUME NEW n \in Nat, NEW W \in SUBSET Nat, NEW m \in Nat, W \subseteq 0..m,
         NEW wanted \in [1..n -> W], 1..n \subseteq W
  PROVE  LET r == ChosenAll(W, wanted, [o \in 1..n |-> o]) IN r \in [1..n -> W] /\ IsInjective(r)
<1> DEFINE order == [o \in 1..n |-> o]
           none == <<>>
           A == Seq(W)
<1>1. order \in Seq(Nat) /\ Len(order) = n /\ DOMAIN order = 1..n /\ \A i \in 1..n : order[i] = i
  OBVIOUS
<1>2. none \in A /\ none = <<>>
  OBVIOUS
<1>3. ASSUME NEW i \in 1..n, NEW a \in A PROVE Chosen(W, wanted, a, i) \in A
  <2> DEFINE free == Free(W, a, i)
  <2>1. free \subseteq W
    BY DEF Free
  <2>2. free # {} => Min(free) \in W
    <3>1. free \in SUBSET (0..m)
      BY <2>1
    <3> HIDE DEF free
    <3> QED BY <2>1, <3>1, LeastIsMin
  <2> HIDE DEF free
  <2>3. wanted[i] \in W
    OBVIOUS
  <2> QED BY <2>2, <2>3 DEF Chosen, free
<1>4. PICK g : /\ g \in [0..n -> A]
               /\ g[0] = none
               /\ \A i \in 1..n : g[i] = Chosen(W, wanted, g[i - 1], i)
               /\ ChosenAll(W, wanted, order) = g[n]
  <2> HIDE DEF order, none, A
  <2>1. \A a \in A, i \in DOMAIN order : Chosen(W, wanted, a, order[i]) \in A
    BY <1>1, <1>3
  <2>2. PICK g : Chooses(g, A, none, W, wanted, order) /\ ChosenAll(W, wanted, order) = g[Len(order)]
    BY <1>1, <1>2, <2>1, ChosenFold
  <2> QED BY <1>1, <2>2 DEF Chooses
<1> DEFINE Good(i) == Len(g[i]) = i /\ IsInjective(g[i])
           S == {i \in 0..n : Good(i)}
<1>5. 0 \in S
  BY <1>4, EmptyFacts
<1>6. ASSUME NEW i \in 0..n, i # n, i \in S PROVE i + 1 \in S
  <2> DEFINE a == g[i]
             b == g[i + 1]
             taken == {a[p] : p \in 1..(i + 1) - 1}
             free == Free(W, a, i + 1)
  <2>1. i + 1 \in 1..n /\ i \in Nat /\ (i + 1) - 1 = i /\ i < n
    BY <1>6
  <2>2. a \in Seq(W) /\ Len(a) = i /\ IsInjective(a) /\ b = Chosen(W, wanted, a, i + 1) /\ wanted[i + 1] \in W
    BY <1>4, <1>6, <2>1
  <2> HIDE DEF a, b
  <2>3. taken = Range(a)
    BY <2>2 DEF Range
  <2>4. PICK x \in 1..n : x \notin Range(a)
    BY <2>1, <2>2, NotAllUsed
  <2>5. free = W \ Range(a) /\ free # {}
    BY <2>3, <2>4 DEF Free
  <2>6. Min(free) \in free
    <3>1. free \in SUBSET (0..m)
      BY <2>5
    <3> HIDE DEF free
    <3> QED BY <2>5, <3>1, LeastIsMin
  <2>7. PICK y \in W : y \notin Range(a) /\ b = Append(a, y)
    <3>1. b = IF wanted[i + 1] \in taken /\ free # {} THEN Append(a, Min(free)) ELSE Append(a, wanted[i + 1])
      BY <2>2 DEF Chosen
    <3> HIDE DEF free, taken
    <3>2. CASE wanted[i + 1] \in taken
      BY <2>5, <2>6, <3>1, <3>2
    <3>3. CASE wanted[i + 1] \notin taken
      BY <2>2, <2>3, <3>1, <3>3
    <3> QED BY <3>2, <3>3
  <2>8. IsInjective(b)
    <3>1. IsInjective(a) /\ y \notin Range(a) => IsInjective(Append(a, y))
      BY <2>2, AppendFacts
    <3> QED BY <2>2, <2>7, <3>1
  <2>9. Len(b) = i + 1
    BY <2>2, <2>7
  <2> QED BY <2>1, <2>8, <2>9 DEF b
<1> HIDE DEF S
<1>7. 0..n \subseteq S
  BY <1>5, <1>6, InductionUpTo
<1>8. n \in S
  BY <1>7
<1>9. g[n] \in Seq(W) /\ Len(g[n]) = n /\ IsInjective(g[n])
  BY <1>4, <1>8 DEF S
<1>10. g[n] \in [1..n -> W]
  BY <1>9
<1>11. ChosenAll(W, wanted, [o \in 1..n |-> o]) = g[n]
  BY <1>4
<1> QED BY <1>9, <1>10, <1>11

LEMMA SessionFacts ==
  ASSUME NEW d, InSession(d)
  PROVE  LET n == Sessions[d.session].outputs IN
         /\ n \in 1..MaxOutputs /\ n \in Nat /\ d.config.count \in Nat /\ n <= d.config.count
         /\ Outputs(d) = 1..n /\ d.shown \in [1..n -> Ids] /\ d.workspaces \subseteq 0..MaxWorkspace
         /\ MaxWorkspace \in Nat
<1> DEFINE n == Sessions[d.session].outputs
<1>1. d \in State /\ d.session \in DOMAIN Sessions /\ d.config \in Config
      /\ MaxOutputs \in Nat /\ MaxWorkspace \in Nat
  BY OutputsAssumption DEF InSession, State
<1>2. n \in 1..MaxOutputs /\ d.config.count >= n
  BY <1>1, SessionsAssumption DEF InSession
<1>3. d.config.count \in 1..MaxWorkspace /\ d.workspaces \subseteq 1..MaxWorkspace
  BY <1>1 DEF Config, State, Ids
<1>4. PICK m \in 1..MaxOutputs : d.shown \in [1..m -> Ids]
  BY <1>1 DEF State
<1>5. Outputs(d) = 1..n /\ d.shown \in [1..n -> Ids]
  BY <1>4 DEF InSession, Outputs
<1> HIDE DEF n
<1> SUFFICES /\ n \in 1..MaxOutputs /\ n \in Nat /\ d.config.count \in Nat /\ n <= d.config.count
             /\ Outputs(d) = 1..n /\ d.shown \in [1..n -> Ids] /\ d.workspaces \subseteq 0..MaxWorkspace
             /\ MaxWorkspace \in Nat
  BY DEF n
<1> QED BY <1>1, <1>2, <1>3, <1>5

LEMMA AssignedKeeps ==
  ASSUME NEW d, Unassigned(d), Histories(d)
  PROVE  LET r == Assigned(d) IN Settled(r) /\ Claims(r) /\ r.changed /\ r.config = d.config
<1> DEFINE n == Sessions[d.session].outputs
           W == d.workspaces
           wanted == [o \in Outputs(d) |->
                         IF {id \in W : d.pins[id] = o} = {} THEN d.shown[o] ELSE Max({id \in W : d.pins[id] = o})]
           shown == ChosenAll(W, wanted, [o \in Outputs(d) |-> o])
           t == [d.told EXCEPT !.shown = shown]
           e == [d EXCEPT !.shown = shown, !.told.shown = shown]
           g == [d EXCEPT !.shown = shown, !.told = t]
<1>1. InSession(d) /\ d \in State
  BY DEF Unassigned, InSession
<1>2. /\ n \in 1..MaxOutputs /\ n \in Nat /\ d.config.count \in Nat /\ n <= d.config.count
      /\ Outputs(d) = 1..n /\ d.shown \in [1..n -> Ids] /\ W \subseteq 0..MaxWorkspace
      /\ MaxWorkspace \in Nat
  BY <1>1, SessionFacts
<1>3. Assigned(d) = e
  BY DEF Assigned, ChosenAll
<1> HIDE DEF n
<1>4. wanted \in [1..n -> W]
  <2> SUFFICES ASSUME NEW o \in 1..n
               PROVE  (IF {id \in W : d.pins[id] = o} = {} THEN d.shown[o]
                       ELSE Max({id \in W : d.pins[id] = o})) \in W
    BY <1>2
  <2> DEFINE P == {id \in W : d.pins[id] = o}
  <2>1. d.shown[o] \in W
    BY <1>2 DEF Unassigned, Shown, Range
  <2>2. P \in SUBSET (0..MaxWorkspace) /\ P \subseteq W
    BY <1>2
  <2> HIDE DEF P, W
  <2>3. P # {} => Max(P) \in P
    BY <1>2, <2>2, GreatestUpTo
  <2> QED BY <2>1, <2>2, <2>3 DEF P
<1>5. 1..n \subseteq W
  <2>1. 1..d.config.count \subseteq W
    BY DEF Unassigned
  <2>2. 1..n \subseteq 1..d.config.count
    BY <1>2
  <2> QED BY <2>1, <2>2
<1>6. shown \in [1..n -> W] /\ IsInjective(shown)
  <2> DEFINE r == ChosenAll(W, wanted, [o \in 1..n |-> o])
  <2>1. shown = r
    BY <1>2
  <2> HIDE DEF wanted, W
  <2>2. W \in SUBSET Nat /\ MaxWorkspace \in Nat
    BY <1>2
  <2>3. r \in [1..n -> W] /\ IsInjective(r)
    BY <1>2, <1>4, <1>5, <2>2, ChosenFacts
  <2> HIDE DEF r, shown
  <2> QED BY <2>1, <2>3
<1> HIDE DEF shown, wanted
<1>7. shown \in UNION {[1..m -> Ids] : m \in 1..MaxOutputs} /\ shown \in [1..n -> Ids]
  <2>1. W \subseteq Ids
    BY <1>1 DEF State
  <2> HIDE DEF W
  <2>2. shown \in [1..n -> Ids]
    BY <1>6, <2>1
  <2> QED BY <1>2, <2>2
<1>8. /\ t \in View /\ t.shown = shown /\ t.windows = d.told.windows
      /\ t.minimized = d.told.minimized /\ t.focused = d.told.focused
  BY <1>1, <1>7 DEF State, View
<1>9. e = g
  BY <1>1 DEF State, View
<1> HIDE DEF t, e
<1>10. /\ g \in State /\ g.shown = shown /\ g.told = t
       /\ g.session = d.session /\ g.windows = d.windows /\ g.workspaces = d.workspaces
       /\ g.output = d.output /\ g.focused = d.focused /\ g.keyboard = d.keyboard
       /\ g.layer = d.layer /\ g.locked = d.locked /\ g.changed = d.changed
       /\ g.config = d.config /\ g.history = d.history /\ g.focus_of = d.focus_of
  BY <1>1, <1>7, <1>8 DEF State
<1> HIDE DEF g
<1>11. Mapped(g) = Mapped(d) /\ (\A i : On(g, i) = On(d, i)) /\ Outputs(g) = 1..n
       /\ Shown(g) \subseteq W
  BY <1>6, <1>10 DEF Mapped, On, Outputs, Shown, Range
<1>12. InSession(g) /\ Claims(g) /\ FocusKept(g) /\ KeysFollow(g)
  BY <1>1, <1>2, <1>10, <1>11 DEF Unassigned, InSession, Outputs, Claims, FocusKept, KeysFollow
<1>13. Spaced(g) /\ ToldAll(g)
  BY <1>6, <1>8, <1>10, <1>11 DEF Unassigned, Spaced, ToldAll, ToldRest
<1>14. Histories(g)
  BY <1>10, <1>11 DEF Histories, Remembered
<1>15. g.changed
  BY <1>10 DEF Unassigned
<1> QED BY <1>3, <1>9, <1>10, <1>12, <1>13, <1>14, <1>15 DEF Settled

LEMMA ConfiguredKeeps ==
  ASSUME NEW d, DesktopInv(d), NEW c \in Sessions[d.session].configs,
         NEW top \in Topmost(Rearranged(d, c), Current(Rearranged(d, c)))
  PROVE  Result(d, Configured(d, c, top))
<1> DEFINE e == Rearranged(d, c)
           r == Configured(d, c, top)
           same == \A field \in {"count", "dynamic", "wrap", "pins"} : d.config[field] = c[field]
<1>1. d \in State /\ InSession(d) /\ d.session \in DOMAIN Sessions
  BY DEF DesktopInv, InSession, State
<1>2. c \in Config
  BY <1>1, SessionsAssumption
<1>3. CASE same
  <2> DEFINE g == [d EXCEPT !.config = c]
  <2>1. r = g
    BY <1>3 DEF Configured
  <2>2. d.config.count = c.count /\ d.config.dynamic = c.dynamic
    BY <1>3
  <2>3. /\ g \in State /\ g.config = c
        /\ g.session = d.session /\ g.windows = d.windows /\ g.workspaces = d.workspaces
        /\ g.shown = d.shown /\ g.output = d.output /\ g.focused = d.focused
        /\ g.keyboard = d.keyboard /\ g.layer = d.layer /\ g.locked = d.locked
        /\ g.told = d.told /\ g.history = d.history /\ g.focus_of = d.focus_of
        /\ g.changed = d.changed
    BY <1>1, <1>2 DEF State
  <2> HIDE DEF g
  <2>4. /\ Mapped(g) = Mapped(d) /\ \A i : On(g, i) = On(d, i) /\ Visible(g, i) = Visible(d, i)
        /\ Outputs(g) = Outputs(d) /\ Shown(g) = Shown(d)
    BY <2>3 DEF Mapped, On, Visible, Outputs, Shown
  <2>5. InSession(g) /\ Claims(g) /\ Seen(g) /\ ToldAll(g) /\ FocusKept(g)
    BY <2>3, <2>4 DEF DesktopInv, InSession, Claims, Seen, ToldAll, ToldRest, FocusKept
  <2>6. Spaced(g)
    BY <2>2, <2>3, <2>4 DEF DesktopInv, Spaced
  <2>7. Histories(g)
    BY <2>3, <2>4 DEF DesktopInv, Histories, Remembered
  <2>8. DesktopInv(g) /\ Told(d, g) /\ g.shown = d.shown
    BY <2>3, <2>4, <2>5, <2>6, <2>7 DEF DesktopInv, Told
  <2> QED BY <2>1, <2>8 DEF Result
<1>4. CASE ~same
  <2>1. Settled(e) /\ Claims(e) /\ e.changed /\ e.config = c
    <3> DEFINE f == Resized(d, c)
               h == Cleaned(f)
    <3>1. e = Assigned(h)
      BY DEF Rearranged
    <3>2. Unassigned(f) /\ f.config = c
      BY ResizedKeeps
    <3> HIDE DEF f
    <3>3. Unassigned(h) /\ Histories(h) /\ h.config = c
      BY <3>2, CleanedKeeps
    <3> HIDE DEF h, e
    <3> QED BY <3>1, <3>3, AssignedKeeps
  <2>2. r = IF e.focused \in Visible(e, Current(e)) THEN e
            ELSE IF top = NoWindow THEN SetKeyboardFocus(e, NoFocus)
            ELSE FocusHere(e, top)
    BY <1>4 DEF Configured
  <2>3. top \in Topmost(e, Current(e))
    OBVIOUS
  <2> HIDE DEF e, r
  <2>4. InSession(e) /\ c # d.config
    BY <1>4, <2>1 DEF Settled
  <2>5. e.output \in Outputs(e) /\ Current(e) = e.shown[e.output]
    BY <2>4, CurrentFacts
  <2>6. CASE e.focused \in Visible(e, Current(e))
    <3>1. Seen(e)
      BY <2>1, <2>5, <2>6 DEF Settled, KeysFollow, Seen
    <3> QED BY <2>1, <2>2, <2>4, <2>6, <3>1 DEF Settled, DesktopInv, Result, Told, r
  <2>7. CASE e.focused \notin Visible(e, Current(e)) /\ top = NoWindow
    <3>1. Askable(e, NoFocus)
      BY KeyboardFacts DEF Askable
    <3>2. DesktopInv(r) /\ SameButFocus(e, r)
      BY <2>1, <2>2, <2>7, <3>1, FocusSettles
    <3>3. r.changed /\ r.config = c
      BY <2>1, <3>2 DEF SameButFocus
    <3> QED BY <2>4, <3>2, <3>3 DEF Result, Told, r
  <2>8. CASE e.focused \notin Visible(e, Current(e)) /\ top # NoWindow
    <3>1. top \in On(e, e.shown[e.output])
      BY <2>3, <2>5, <2>8 DEF Topmost, Visible
    <3>2. DesktopInv(r) /\ SameSpaces(e, r)
      BY <2>1, <2>2, <2>5, <2>8, <3>1, FocusHereKeeps
    <3>3. r.changed /\ r.config = c
      BY <2>1, <3>2 DEF SameSpaces
    <3> QED BY <2>4, <3>2, <3>3 DEF Result, Told, r
  <2> QED BY <2>6, <2>7, <2>8
<1> QED BY <1>3, <1>4

-----------------------------------------------------------------------------
(* The start. *)

\* An output that is added takes one of the workspaces that are not shown.
Unshown(c, shown, o) == {id \in 1..c.count : \A p \in 1..o - 1 : shown[p] # id}
Pinned(c, shown, o) == {id \in Unshown(c, shown, o) : c.pins[id] = o}
Added(c, shown, o) ==
    Append(shown, Min(IF Pinned(c, shown, o) = {} THEN Unshown(c, shown, o) ELSE Pinned(c, shown, o)))
AddedAll(c, order) ==
    FoldLeft(LAMBDA shown, o :
                 Append(shown, Min(IF {id \in {i \in 1..c.count : \A p \in 1..o - 1 : shown[p] # i} : c.pins[id] = o} = {}
                                   THEN {id \in 1..c.count : \A p \in 1..o - 1 : shown[p] # id}
                                   ELSE {id \in {i \in 1..c.count : \A p \in 1..o - 1 : shown[p] # i} : c.pins[id] = o})),
             <<>>, order)

\* g collects the workspaces shown.
Adds(g, A, base, c, order) ==
    /\ g \in [0..Len(order) -> A]
    /\ g[0] = base
    /\ \A i \in 1..Len(order) : g[i] = Added(c, g[i - 1], order[i])

LEMMA AddedFold ==
  ASSUME NEW A, NEW base \in A, base = <<>>, NEW c, NEW order \in Seq(Nat),
         \A a \in A, i \in DOMAIN order : Added(c, a, order[i]) \in A
  PROVE  \E g : Adds(g, A, base, c, order) /\ AddedAll(c, order) = g[Len(order)]
<1> DEFINE n == Len(order)
           step == [x \in (1..n) \X A |-> Added(c, x[2], order[x[1]])]
           Equation(f) == f = [s \in SUBSET DOMAIN order |->
                                  IF s = {} THEN base ELSE Added(c, f[s \ {Max(s)}], order[Max(s)])]
           k == CHOOSE f : Equation(f)
<1>1. n \in Nat /\ DOMAIN order = 1..n
  OBVIOUS
<1>2. /\ step \in Steps(n, A)
      /\ \A i \in 1..n, a \in A : step[<<i, a>>] = Added(c, a, order[i])
  BY <1>1 DEF Steps
<1>3. \A s \in SUBSET (1..n) : s # {} => Max(s) \in 1..n /\ s \ {Max(s)} \in SUBSET (1..n)
  <2> SUFFICES ASSUME NEW s \in SUBSET (1..n), s # {} PROVE Max(s) \in s
    OBVIOUS
  <2>1. s \in SUBSET (0..n)
    OBVIOUS
  <2> QED BY <1>1, <2>1, GreatestUpTo
<1> HIDE DEF n, step
<1>4. PICK f : FoldsSets(f, n, A, base, step)
  BY <1>1, <1>2, FoldExists
<1>5. Equation(f)
  BY <1>1, <1>2, <1>3, <1>4 DEF FoldsSets
<1>6. Equation(k)
  <2> HIDE DEF Equation
  <2> QED BY <1>5
<1>7. AddedAll(c, order) = k[1..n]
  BY <1>1 DEF AddedAll, FoldLeft, MapThenFoldSet, Added, Unshown, Pinned
<1> HIDE DEF k
<1>8. Follows(k, n, A, base, step)
  BY <1>1, <1>2, <1>3, <1>6 DEF Follows
<1>9. PICK g : Computed(g, n, A, base, step) /\ k[1..n] = g[n]
  BY <1>1, <1>2, <1>8, FoldValue
<1>10. g \in [0..n -> A] /\ g[0] = base /\ \A i \in 1..n : g[i] = step[<<i, g[i - 1]>>]
  BY <1>9 DEF Computed
<1>11. ASSUME NEW i \in 1..n PROVE g[i] = Added(c, g[i - 1], order[i])
  <2>1. g[i - 1] \in A
    BY <1>1, <1>10
  <2> QED BY <1>2, <1>10, <2>1
<1> QED BY <1>7, <1>9, <1>10, <1>11 DEF n, Adds

LEMMA AddedFacts ==
  ASSUME NEW c, c.count \in Nat, NEW n \in Nat, n <= c.count
  PROVE  LET r == AddedAll(c, [o \in 1..n |-> o]) IN r \in [1..n -> 1..c.count] /\ IsInjective(r)
<1> DEFINE order == [o \in 1..n |-> o]
           none == <<>>
           W == 1..c.count
           T == W \cup {Min({})}
           A == Seq(T)
<1>1. order \in Seq(Nat) /\ Len(order) = n /\ DOMAIN order = 1..n /\ \A i \in 1..n : order[i] = i
  OBVIOUS
<1>2. none \in A /\ none = <<>>
  OBVIOUS
<1>3. ASSUME NEW S \in SUBSET W PROVE Min(S) \in T /\ (S # {} => Min(S) \in S)
  <2>1. S \in SUBSET (0..c.count)
    OBVIOUS
  <2>2. S # {} => Min(S) \in S
    BY <2>1, LeastIsMin
  <2> QED BY <2>2
<1>4. ASSUME NEW a, NEW i PROVE Unshown(c, a, i) \in SUBSET W /\ Pinned(c, a, i) \in SUBSET Unshown(c, a, i)
  BY DEF Unshown, Pinned
<1>5. ASSUME NEW a \in A, NEW i \in 1..n PROVE Added(c, a, i) \in A
  <2> HIDE DEF W, T
  <2>1. Min(IF Pinned(c, a, i) = {} THEN Unshown(c, a, i) ELSE Pinned(c, a, i)) \in T
    BY <1>3, <1>4
  <2> QED BY <2>1 DEF Added
<1>6. PICK g : /\ g \in [0..n -> A]
               /\ g[0] = none
               /\ \A i \in 1..n : g[i] = Added(c, g[i - 1], i)
               /\ AddedAll(c, order) = g[n]
  <2> HIDE DEF order, none, A
  <2>1. \A a \in A, i \in DOMAIN order : Added(c, a, order[i]) \in A
    BY <1>1, <1>5
  <2>2. PICK g : Adds(g, A, none, c, order) /\ AddedAll(c, order) = g[Len(order)]
    BY <1>1, <1>2, <2>1, AddedFold
  <2> QED BY <1>1, <2>2 DEF Adds
<1> DEFINE Good(i) == g[i] \in Seq(W) /\ Len(g[i]) = i /\ IsInjective(g[i])
           S == {i \in 0..n : Good(i)}
<1>7. 0 \in S
  BY <1>6, EmptyFacts
<1>8. ASSUME NEW i \in 0..n, i # n, i \in S PROVE i + 1 \in S
  <2> DEFINE a == g[i]
             b == g[i + 1]
             free == Unshown(c, a, i + 1)
             pinned == Pinned(c, a, i + 1)
  <2>1. i + 1 \in 1..n /\ i \in Nat /\ (i + 1) - 1 = i /\ i < n
    BY <1>8
  <2>2. a \in Seq(W) /\ Len(a) = i /\ IsInjective(a) /\ b = Added(c, a, i + 1)
    BY <1>6, <1>8, <2>1
  <2> HIDE DEF a, b
  <2>3. free = W \ Range(a)
    BY <2>1, <2>2 DEF Unshown, Range
  <2>4. PICK x \in 1..n : x \notin Range(a)
    <3> HIDE DEF W
    <3> QED BY <2>1, <2>2, NotAllUsed
  <2>5. free # {}
    BY <2>3, <2>4
  <2> HIDE DEF W
  <2>6. free \in SUBSET W /\ pinned \in SUBSET W /\ pinned \subseteq free
    BY <1>4
  <2>7. PICK y \in W : y \notin Range(a) /\ b = Append(a, y)
    <3> DEFINE y == Min(IF pinned = {} THEN free ELSE pinned)
    <3>1. b = Append(a, y)
      BY <2>2 DEF Added
    <3> HIDE DEF free, pinned
    <3>2. y \in free
      BY <1>3, <2>5, <2>6
    <3> QED BY <2>3, <3>1, <3>2
  <2>8. IsInjective(b)
    <3>1. IsInjective(a) /\ y \notin Range(a) => IsInjective(Append(a, y))
      BY <2>2, AppendFacts
    <3> QED BY <2>2, <2>7, <3>1
  <2>9. Len(b) = i + 1 /\ b \in Seq(W)
    BY <2>2, <2>7
  <2> QED BY <2>1, <2>8, <2>9 DEF b
<1> HIDE DEF S, W
<1>9. 0..n \subseteq S
  BY <1>7, <1>8, InductionUpTo
<1>10. n \in S
  BY <1>9
<1>11. g[n] \in Seq(W) /\ Len(g[n]) = n /\ IsInjective(g[n])
  BY <1>10 DEF S
<1>12. g[n] \in [1..n -> W]
  BY <1>11
<1>13. AddedAll(c, [o \in 1..n |-> o]) = g[n]
  BY <1>6
<1> QED BY <1>11, <1>12, <1>13 DEF W

LEMMA InitHolds ==
  ASSUME Init
  PROVE  DesktopInv(desktop)
<1>1. PICK i \in DOMAIN Sessions : \E c \in Sessions[i].configs : desktop = Started(i, c)
  BY DEF Init
<1>2. PICK c \in Sessions[i].configs : desktop = Started(i, c)
  BY <1>1
<1> DEFINE n == Sessions[i].outputs
           shown == AddedAll(c, [o \in 1..n |-> o])
           ws == [w \in Windows |-> [is |-> "absent", on |-> 1, minimized |-> FALSE]]
           d == [session |-> i,
                 windows |-> ws,
                 workspaces |-> 1..c.count,
                 pins |-> [id \in Ids |-> IF id <= c.count THEN c.pins[id] ELSE NoOutput],
                 focus_of |-> [id \in Ids |-> NoWindow],
                 history |-> [id \in Ids |-> <<>>],
                 shown |-> shown, output |-> 1,
                 focused |-> NoWindow, keyboard |-> NoFocus,
                 layer |-> "absent", locked |-> FALSE, lock_surface |-> FALSE,
                 hidden |-> [id \in Ids |-> <<>>],
                 config |-> c,
                 told |-> [windows |-> {}, minimized |-> {}, focused |-> NoWindow, shown |-> shown],
                 changed |-> FALSE]
<1>3. Started(i, c) = d
  BY DEF Started, AddedAll
<1>4. c \in Config /\ c.count >= n /\ n \in 1..MaxOutputs /\ MaxOutputs \in Nat /\ MaxWorkspace \in Nat
      /\ 1 \in 1..MaxOutputs /\ 1 \in Ids
  <2>1. 1 \in 1..MaxOutputs /\ 1 \in Ids
    BY OutputsAssumption DEF Ids
  <2> QED BY <2>1, SessionsAssumption, OutputsAssumption
<1>5. /\ c.count \in Ids /\ c.count \in Nat /\ 1..c.count \subseteq Ids /\ n \in Nat /\ n <= c.count
      /\ c.pins \in [Ids -> 0..MaxOutputs] /\ 1 \in 1..n
  <2> DEFINE k == c.count
  <2>1. k \in 1..MaxWorkspace /\ c.pins \in [Ids -> 0..MaxOutputs]
    BY <1>4 DEF Config, Ids
  <2> HIDE DEF n
  <2>2. n \in Nat /\ n <= k /\ 1 \in 1..n
    BY <1>4, <2>1
  <2> HIDE DEF k
  <2>3. k \in Nat /\ 1..k \subseteq 1..MaxWorkspace
    BY <1>4, <2>1
  <2> QED BY <2>1, <2>2, <2>3 DEF Ids, k
<1>6. shown \in [1..n -> 1..c.count] /\ IsInjective(shown)
  BY <1>5, AddedFacts
<1> HIDE DEF shown, n
<1>7. shown \in [1..n -> Ids] /\ shown \in UNION {[1..m -> Ids] : m \in 1..MaxOutputs}
  <2>1. shown \in [1..n -> Ids]
    BY <1>5, <1>6
  <2> QED BY <1>4, <2>1
<1>8. /\ ws \in [Windows -> Window]
      /\ \A w \in Windows : ws[w].is = "absent"
  BY <1>4 DEF Window
<1> HIDE DEF ws
<1>9. /\ d.session = i /\ d.windows = ws /\ d.workspaces = 1..c.count /\ d.shown = shown /\ d.output = 1
      /\ d.focused = NoWindow /\ d.keyboard = NoFocus /\ d.layer = "absent" /\ d.locked = FALSE
      /\ d.config = c /\ d.told.windows = {} /\ d.told.minimized = {} /\ d.told.focused = NoWindow
      /\ d.told.shown = shown
      /\ \A id \in Ids : d.focus_of[id] = NoWindow /\ d.history[id] = <<>>
  OBVIOUS
<1>10. d \in State
  <2> DEFINE pins == [id \in Ids |-> IF id <= c.count THEN c.pins[id] ELSE NoOutput]
             told == [windows |-> {}, minimized |-> {}, focused |-> NoWindow, shown |-> shown]
             fs == [id \in Ids |-> NoWindow]
             hs == [id \in Ids |-> <<>>]
  <2>1. pins \in [Ids -> 0..MaxOutputs]
    BY <1>4, <1>5 DEF NoOutput
  <2>2. told \in View
    BY <1>7 DEF View
  <2>3. fs \in [Ids -> Windows \cup {NoWindow}] /\ hs \in [Ids -> Seq(Windows)]
    OBVIOUS
  <2> HIDE DEF pins, told, fs, hs
  <2>4. [session |-> i, windows |-> ws, workspaces |-> 1..c.count, pins |-> pins,
         focus_of |-> fs, history |-> hs, shown |-> shown, output |-> 1,
         focused |-> NoWindow, keyboard |-> NoFocus,
         layer |-> "absent", locked |-> FALSE, lock_surface |-> FALSE,
         hidden |-> hs, config |-> c, told |-> told, changed |-> FALSE] \in State
    BY <1>1, <1>4, <1>5, <1>7, <1>8, <2>1, <2>2, <2>3, KeyboardFacts DEF State
  <2> QED BY <2>4 DEF pins, told, fs, hs
<1> HIDE DEF d
<1>11. Mapped(d) = {} /\ Outputs(d) = 1..n /\ Shown(d) \subseteq 1..c.count
  BY <1>6, <1>8, <1>9 DEF Mapped, Outputs, Shown, Range
<1>12. InSession(d)
  BY <1>5, <1>6, <1>9, <1>10, <1>11 DEF InSession, n
<1>13. Claims(d) /\ Seen(d) /\ FocusKept(d) /\ ToldAll(d)
  BY <1>9, <1>11, KeyboardFacts DEF Claims, Seen, FocusKept, ToldAll, ToldRest
<1>14. Spaced(d)
  BY <1>6, <1>9, <1>11 DEF Spaced
<1>15. Histories(d)
  BY <1>9, EmptyFacts DEF Histories
<1> QED BY <1>2, <1>3, <1>12, <1>13, <1>14, <1>15 DEF DesktopInv

-----------------------------------------------------------------------------
(* The theorems. *)

LEMMA NextKeeps ==
  ASSUME DesktopInv(desktop), Next
  PROVE  Kept
<1>1. CASE \E c \in Session.configs : ApplyConfig(c)
  <2>1. DesktopInv(Now) /\ Session.configs = Sessions[Now.session].configs
    BY NowFacts DEF Session
  <2>2. PICK c \in Sessions[Now.session].configs : ApplyConfig(c)
    BY <1>1, <2>1
  <2> DEFINE d == Now
  <2>3. PICK top \in Topmost(Rearranged(d, c), Current(Rearranged(d, c))) : desktop' = Configured(d, c, top)
    BY <2>2 DEF ApplyConfig
  <2>4. DesktopInv(d) /\ c \in Sessions[d.session].configs
    BY <2>1, <2>2
  <2> HIDE DEF d
  <2>5. Result(d, Configured(d, c, top))
    BY <2>3, <2>4, ConfiguredKeeps
  <2> QED BY <2>3, <2>5 DEF Kept, d
<1>2. CASE Spaces /\ ~(\E c \in Session.configs : ApplyConfig(c))
  BY <1>2, SpacesKeep
<1>3. CASE Toplevels \/ Pointer \/ Surfaces
  BY <1>3, ToplevelsKeep, PointerKeeps, SurfacesKeep
<1> QED BY <1>1, <1>2, <1>3 DEF Next

\* The inductive invariant holds in every state.
THEOREM DesktopInvariant == Spec => []DesktopInv(desktop)
<1>1. Init => DesktopInv(desktop)
  BY InitHolds
<1>2. DesktopInv(desktop) /\ [Next]_desktop => DesktopInv(desktop)'
  <2>1. ASSUME DesktopInv(desktop), Next PROVE DesktopInv(desktop')
    BY <2>1, NextKeeps DEF Kept, Result
  <2>2. ASSUME DesktopInv(desktop), UNCHANGED desktop PROVE DesktopInv(desktop')
    BY <2>2
  <2> QED BY <2>1, <2>2
<1> QED BY <1>1, <1>2, PTL DEF Spec

\* Every state is well typed: each part of the desktop has the form the
\* handlers expect, the outputs are those of the session, the pointer is on
\* one of them, and what clients know has the form of a view.
THEOREM DesktopTypeOK == Spec => []TypeOK
<1>1. ASSUME DesktopInv(desktop) PROVE TypeOK
  <2>1. desktop \in State /\ InSession(desktop)
    BY <1>1 DEF DesktopInv, InSession
  <2>2. desktop.shown \in [1..Session.outputs -> Ids]
    BY <2>1, SessionFacts DEF Session
  <2>3. desktop.output \in Outputs(desktop) /\ desktop.config \in Session.configs
    BY <2>1 DEF InSession, Session
  <2> QED BY <2>1, <2>2, <2>3 DEF State, TypeOK
<1> QED BY <1>1, DesktopInvariant, PTL

\* A locked session gives the keyboard to its locker or to nobody, and an
\* exclusive layer surface takes it from the windows, after every handler.
THEOREM ClaimsRespected == Spec => []KeyboardClaimed
<1>1. ASSUME DesktopInv(desktop) PROVE KeyboardClaimed
  BY <1>1 DEF DesktopInv, Claims, KeyboardClaimed
<1> QED BY <1>1, DesktopInvariant, PTL

\* Keys never go to a window that is not on the screen: the window with the
\* keyboard is the focused one, and it is visible on an output.
THEOREM KeysGoToTheScreen == Spec => []KeyboardSeen
<1>1. ASSUME DesktopInv(desktop) PROVE KeyboardSeen
  BY <1>1 DEF DesktopInv, Seen, KeyboardSeen
<1> QED BY <1>1, DesktopInvariant, PTL

\* The focus history of a workspace names, each once, windows mapped on it; no
\* window and no output is left on a workspace that is gone, whatever reloads
\* of the configuration and removals of workspaces there are.
THEOREM NothingIsLost == Spec => []DesktopSound
<1>1. ASSUME DesktopInv(desktop) PROVE DesktopSound
  <2>1. HistorySound
    <3>1. Histories(desktop)
      BY <1>1 DEF DesktopInv
    <3> QED BY <3>1 DEF Histories, Remembered, HistorySound
  <2>2. NothingStranded
    BY <1>1 DEF DesktopInv, Spaced, NothingStranded
  <2> QED BY <2>1, <2>2 DEF DesktopSound
<1> QED BY <1>1, DesktopInvariant, PTL

\* What a client of the API has been told by events alone is how the windows,
\* the focus and the outputs are.
THEOREM ClientsAreTold == Spec => []EventsTell
<1>1. ASSUME DesktopInv(desktop) PROVE EventsTell
  <2> DEFINE told == desktop.told
  <2>1. told \in View
    BY <1>1 DEF DesktopInv, InSession, State
  <2>2. /\ told.windows = Mapped(desktop)
        /\ told.minimized = {w \in Mapped(desktop) : desktop.windows[w].minimized}
        /\ told.shown = desktop.shown /\ told.focused = desktop.focused
    BY <1>1 DEF DesktopInv, ToldAll, ToldRest
  <2> HIDE DEF told
  <2>3. told = [windows |-> told.windows, minimized |-> told.minimized,
                focused |-> told.focused, shown |-> told.shown]
    BY <2>1 DEF View
  <2>4. EventsTell <=> told = [windows |-> Mapped(desktop),
                               minimized |-> {w \in Mapped(desktop) : desktop.windows[w].minimized},
                               focused |-> desktop.focused,
                               shown |-> desktop.shown]
    BY DEF EventsTell, told
  <2> QED BY <2>2, <2>3, <2>4
<1> QED BY <1>1, DesktopInvariant, PTL

\* No handler changes the workspaces, or how many windows one of them has,
\* without sending WorkspacesChanged.
THEOREM WorkspaceChangesAreTold == Spec => ChangesTold
<1> DEFINE A == \/ desktop'.workspaces # desktop.workspaces
                \/ \E id \in Ids : Cardinality(On(desktop', id)) # Cardinality(On(desktop, id))
                => desktop'.changed
<1>1. ASSUME DesktopInv(desktop), Next PROVE A
  <2>1. Told(Now, desktop')
    BY <1>1, NextKeeps DEF Kept, Result
  <2>2. Now.workspaces = desktop.workspaces /\ \A id : On(Now, id) = On(desktop, id)
    BY <1>1, NowFacts
  <2> QED BY <2>1, <2>2 DEF Told
<1>2. DesktopInv(desktop) /\ [Next]_desktop => [A]_desktop
  BY <1>1
<1> HIDE DEF A
<1>3. Spec => [][A]_desktop
  BY <1>2, DesktopInvariant, PTL DEF Spec
<1> QED BY <1>3 DEF ChangesTold, A

\* Whatever handler makes an output show another workspace, other than a
\* reload, leaves the keyboard in a window of the workspace the user is on, if
\* one is visible there and neither a lock nor an exclusive layer claims it.
THEOREM SwitchingFocuses == Spec => SwitchFocuses
<1> DEFINE A == /\ desktop'.shown # desktop.shown
                /\ desktop'.config = desktop.config
                /\ ~desktop'.locked /\ desktop'.layer # "exclusive"
                /\ Visible(desktop', Current(desktop')) # {}
                => desktop'.keyboard \in Visible(desktop', Current(desktop'))
<1>1. ASSUME DesktopInv(desktop), Next PROVE A
  <2>1. desktop'.shown = Now.shown \/ desktop'.config # Now.config \/ Landed(desktop')
    BY <1>1, NextKeeps DEF Kept, Result
  <2>2. Now.shown = desktop.shown /\ Now.config = desktop.config
    BY <1>1, NowFacts
  <2> QED BY <2>1, <2>2 DEF Landed
<1>2. DesktopInv(desktop) /\ [Next]_desktop => [A]_desktop
  BY <1>1
<1> HIDE DEF A
<1>3. Spec => [][A]_desktop
  BY <1>2, DesktopInvariant, PTL DEF Spec
<1> QED BY <1>3 DEF SwitchFocuses, A
=============================================================================
