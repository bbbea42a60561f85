--------------------------------- MODULE Keys ---------------------------------
(***************************************************************************)
(* From a key to a client or a shortcut: sticky modifiers                  *)
(* (accessibility.rs), the registry of shortcuts (shortcuts.rs) and what   *)
(* keyboard_transition (input.rs) keeps from clients, across locks, changes *)
(* of session and reloads. Left and right variants of a modifier are one   *)
(* key; a key may be down on several keyboards.                            *)
(***************************************************************************)
EXTENDS Naturals, SequencesExt, FiniteSetsExt

CONSTANTS
    Modifiers,
    OrdinaryKeys,
    VtKeys,         \* ordinary keys that switch to another terminal
    Bindings,       \* shortcuts: records of mods and keys
    MaxDown         \* bound on the keyboards that hold a key down

AllKeys == Modifiers \cup OrdinaryKeys

ASSUME KeysAssumption ==
    /\ Modifiers \cap OrdinaryKeys = {} /\ VtKeys \subseteq OrdinaryKeys
    /\ Bindings \subseteq [mods : SUBSET Modifiers, keys : SUBSET OrdinaryKeys]
    /\ \A b \in Bindings : b.mods \cup b.keys # {}
    /\ IsFiniteSet(Modifiers)
    /\ MaxDown \in Nat \ {0}

VARIABLE board

\* A sticky modifier: off, or
Held(previous, used) == [kind |-> "held", previous |-> previous, used |-> used]
Latched(consumed) == [kind |-> "latched", previous |-> "off", used |-> consumed]
Locked == [kind |-> "locked", previous |-> "off", used |-> FALSE]
Off == [kind |-> "off", previous |-> "off", used |-> FALSE]

KeysInit == board =
    [down |-> [k \in AllKeys |-> 0],        \* the keyboards that hold it down
     sticky |-> FALSE,                      \* the setting
     modifier |-> [m \in Modifiers |-> Off], \* StickyKeys.modifiers
     typed |-> {},                          \* StickyKeys.keys
     bound |-> Bindings,
     pressed |-> {}, active |-> {}, pending |-> {}, chord |-> FALSE,  \* ShortcutRegistry
     suppressed |-> {},
     told |-> {},                           \* keys the clients were told are down
     inhibited |-> FALSE,
     locked |-> FALSE,
     held |-> {},                           \* modifiers held together since there were none
     left |-> {},                           \* what was pending when sticky keys released the last of them
     astray |-> {},                         \* latches released while their own release was withheld
     fired |-> {}]                          \* what the last key activated

-----------------------------------------------------------------------------
(* Sticky keys. *)

Up(k) == [key |-> k, pressed |-> FALSE]

\* A modifier goes down or up with the setting on: its new state and whether the
\* transition is passed on.
ModifierDown(s, m) ==
    LET was == s.modifier[m] IN
    IF was.kind = "held" THEN [to |-> was, passed |-> FALSE]
    ELSE [to |-> Held(was.kind, s.typed # {}), passed |-> was.kind = "off"]

ModifierUp(s, m) ==
    LET was == s.modifier[m] IN
    CASE was = Held("off", FALSE)     -> [to |-> Latched(FALSE), passed |-> FALSE]
      [] was = Held("latched", FALSE) -> [to |-> Locked, passed |-> FALSE]
      [] was = Held("locked", TRUE)   -> [to |-> Locked, passed |-> FALSE]
      [] OTHER                        -> [to |-> Off, passed |-> TRUE]

\* Any other key uses the modifiers.
Used(modifier) ==
    [m \in Modifiers |-> IF modifier[m].kind \in {"held", "latched"}
                         THEN [modifier[m] EXCEPT !.used = TRUE] ELSE modifier[m]]

\* StickyKeys::transform: the state after, and the transitions to pass on.
Transformed(s, k, pressed) ==
    LET change == IF pressed THEN ModifierDown(s, k) ELSE ModifierUp(s, k)
        typed == IF pressed THEN s.typed \cup {k} ELSE s.typed \ {k}
        spent == IF pressed \/ typed # {} THEN {}
                 ELSE {m \in Modifiers : s.modifier[m] = Latched(TRUE)}
        event == [key |-> k, pressed |-> pressed]
    IN  IF k \in Modifiers
        THEN [state |-> [s EXCEPT !.modifier[k] = change.to],
              events |-> IF change.passed THEN <<event>> ELSE <<>>]
        ELSE [state |-> [s EXCEPT !.typed = typed,
                                  !.modifier = IF pressed THEN Used(@)
                                               ELSE [m \in Modifiers |-> IF m \in spent THEN Off ELSE @[m]]],
              events |-> <<event>> \o [i \in 1..Cardinality(spent) |-> Up(SetToSeq(spent)[i])]]

-----------------------------------------------------------------------------
(* Shortcuts and clients. *)

\* ShortcutRegistry::maybe_activate_physical after update_key.
Activated(s, k, pressed) ==
    LET now == IF pressed THEN s.pressed \cup {k} ELSE s.pressed \ {k}
        mods == now \cap Modifiers
        chord == s.chord \/ now \cap OrdinaryKeys # {}
        released == IF mods = {} /\ ~chord THEN s.pending ELSE {}
        alone == {b \in s.bound : b.keys = {} /\ released # {} /\ b.mods = released}
        matching == {b \in s.bound : b.keys # {} /\ b.mods = mods /\ b.keys \subseteq now}
    IN  [state |-> [s EXCEPT !.pressed = now,
                             !.chord = chord /\ mods # {},
                             !.pending = IF mods = {} THEN {}
                                         ELSE IF Cardinality(mods) > Cardinality(@) THEN mods ELSE @,
                             !.active = IF pressed THEN matching ELSE @ \cap matching,
                             !.held = IF mods = {} THEN {} ELSE @ \cup {mods},
                             !.left = IF mods = {} \/ Cardinality(mods) > Cardinality(s.pending) THEN {} ELSE @],
         shortcuts |-> alone \cup (IF pressed THEN matching \ s.active ELSE {})]

Forwarded(s, k, pressed) ==
    IF pressed THEN [s EXCEPT !.told = @ \cup {k}]
    ELSE [s EXCEPT !.told = @ \ {k}, !.astray = @ \ {k}]

\* keyboard_transition.
Transitioned(s, k, pressed) ==
    LET a == Activated(s, k, pressed)
        shortcuts == IF s.inhibited \/ (pressed /\ k \in VtKeys) THEN {} ELSE a.shortcuts
        t == [a.state EXCEPT !.fired = @ \cup shortcuts]
        kept == IF pressed THEN k \in VtKeys \/ shortcuts # {} ELSE k \in s.suppressed
    IN  IF s.locked THEN Forwarded(s, k, pressed)
        ELSE IF ~kept THEN Forwarded(t, k, pressed)
        ELSE [t EXCEPT !.suppressed = IF pressed THEN @ \cup {k} ELSE @ \ {k}]

\* keyboard_key.
Keyed(s, k, pressed) ==
    LET change == IF s.sticky THEN Transformed(s, k, pressed)
                  ELSE [state |-> s, events |-> <<[key |-> k, pressed |-> pressed]>>]
    IN  FoldLeft(LAMBDA t, e : Transitioned(t, e.key, e.pressed),
                 [change.state EXCEPT !.fired = {}], change.events)

Virtual(s) == {m \in Modifiers : s.modifier[m].kind \in {"latched", "locked"}}

\* Mutant of StickyReleased: the latches are forgotten, nobody is told.
StickyForgotten(s) ==
    [s EXCEPT !.modifier = [m \in Modifiers |-> Off], !.typed = {}, !.fired = {}]

\* release_sticky_keys: past the shortcuts, straight to the client. What is
\* pending and what is withheld stay as they are.
StickyReleased(s) ==
    LET none == (s.pressed \ Virtual(s)) \cap Modifiers = {} IN
    [s EXCEPT !.modifier = [m \in Modifiers |-> Off], !.typed = {}, !.fired = {},
              !.told = @ \ Virtual(s), !.pressed = @ \ Virtual(s),
              !.held = IF none THEN {} ELSE @,
              !.left = IF none THEN s.pending ELSE @,
              !.astray = @ \cup (Virtual(s) \cap s.suppressed)]

\* Mutant of Reset: the modifiers of a shortcut stay pending.
ResetPending(s) ==
    [StickyReleased(s) EXCEPT !.pressed = {}, !.active = {}, !.chord = FALSE,
                              !.suppressed = {}, !.held = {}, !.left = {},
                              !.astray = s.astray \cap s.told]

\* reset_keyboard_state with ShortcutRegistry::clear_pressed.
Reset(s) ==
    [StickyReleased(s) EXCEPT !.pressed = {}, !.active = {}, !.pending = {}, !.chord = FALSE,
                              !.suppressed = {}, !.held = {}, !.left = {},
                              !.astray = s.astray \cap s.told]

-----------------------------------------------------------------------------
KeyDown(k) ==
    /\ board.down[k] < MaxDown
    /\ board' = [Keyed(board, k, TRUE) EXCEPT !.down[k] = @ + 1]

KeyUp(k) ==
    /\ board.down[k] > 0
    /\ board' = [Keyed(board, k, FALSE) EXCEPT !.down[k] = @ - 1]

LockKeys == ~board.locked /\ board' = [Reset(board) EXCEPT !.locked = TRUE]
UnlockKeys == board.locked /\ board' = [Reset(board) EXCEPT !.locked = FALSE]

\* The session is paused, or the window of the winit backend loses the focus.
PauseSession == board' = Reset(board) /\ board' # board

\* A reload, with any keys down, turns sticky keys on or off ...
SetSticky(on) ==
    /\ board.sticky # on
    /\ board' = [(IF on THEN board ELSE StickyReleased(board)) EXCEPT !.sticky = on, !.fired = {}]

\* ... or brings another keymap.
ChangeKeymap == board' = StickyReleased(board) /\ board' # board

\* A client binds a shortcut, perhaps again, or gives it up.
Bind(b) == board' = [board EXCEPT !.bound = @ \cup {b}, !.active = @ \ {b}, !.fired = {}]
Unbind(b) == board' = [board EXCEPT !.bound = @ \ {b}, !.active = @ \ {b}, !.fired = {}]

\* The focus moves to a client that inhibits shortcuts, or away from it.
Inhibit == board' = [board EXCEPT !.inhibited = ~@, !.fired = {}]

KeysNext ==
    \/ \E k \in AllKeys : KeyDown(k) \/ KeyUp(k)
    \/ LockKeys \/ UnlockKeys \/ PauseSession \/ ChangeKeymap \/ Inhibit
    \/ \E on \in BOOLEAN : SetSticky(on)
    \/ \E b \in Bindings : Bind(b) \/ Unbind(b)

KeysSpec == KeysInit /\ [][KeysNext]_board

-----------------------------------------------------------------------------
(* Properties. *)

\* Nothing is stuck: a key that a client, the shortcuts or the list of withheld
\* releases believes to be down is down, or it is a sticky modifier that the
\* user latched or locked and can still release. The exception, of clients and
\* withheld releases only: a reload released the latch of a modifier whose own
\* press a shortcut took, and release_sticky_keys leaves it among the withheld;
\* it lasts until a release of that modifier reaches the client.
NothingStuck ==
    LET real == {k \in AllKeys : board.down[k] > 0} \cup Virtual(board) IN
    /\ board.told \subseteq real \cup board.astray
    /\ board.pressed \subseteq real
    /\ board.suppressed \subseteq real \cup board.astray
    /\ board.sticky \/ Virtual(board) = {}

\* A shortcut fires only for what the user does now: never in a locked session
\* or for a client that inhibits shortcuts; with keys, only while they and just
\* its modifiers are down; for modifiers alone, only if these were held together
\* since there were none, whatever was reset meanwhile. The exception: where a
\* reload released the last of them, release_sticky_keys leaves them pending,
\* and the next release of all modifiers fires their shortcut.
FiresWhatIsHeld ==
    [][\A b \in board'.fired :
          /\ ~board.locked /\ ~board.inhibited
          /\ b.keys # {} => /\ \A k \in b.keys : board'.down[k] > 0
                            /\ b.mods = {m \in Modifiers : m \in board'.pressed}
          /\ b.keys = {} => b.mods \in board.held \cup {board.left}]_board
=============================================================================
