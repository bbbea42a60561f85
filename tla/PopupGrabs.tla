------------------------------ MODULE PopupGrabs ------------------------------
(***************************************************************************)
(* Popup grabs (popup_grabs.rs): a client that was just given input may ask *)
(* for all input to go to a chain of its popups. The compositor remembers  *)
(* recent presses, decides, hands keyboard and pointer to the chain and    *)
(* takes them back when the chain ends, the session is locked or an        *)
(* exclusive layer surface (a panel) claims the keyboard.                  *)
(*                                                                         *)
(* The state is one record; an operator named by a participle is what a    *)
(* call makes of it. Presses that are too old or whose surface is dead are *)
(* dropped at once: the code drops them when it next reads or records.     *)
(***************************************************************************)
EXTENDS Retaining, SequencesExt, FiniteSetsExt

CONSTANTS
    Windows,
    Panels,         \* layer surfaces with exclusive keyboard interactivity
    Popups,
    Client,         \* the client of each surface
    MaxInputs,      \* MAX_INPUTS
    MaxSerial       \* bound on the presses of the user

Roots == Windows \cup Panels

Nobody == "nobody"

ASSUME GrabsAssumption ==
    /\ DOMAIN Client = Roots \cup Popups /\ IsFiniteSet(Popups)
    /\ Windows \cap Panels = {} /\ Roots \cap Popups = {} /\ Nobody \notin Roots \cup Popups
    /\ MaxInputs \in Nat \ {0} /\ MaxSerial \in Nat

NoGrab == [root |-> Nobody, serial |-> 0, previous |-> 0]
NoPointerGrab == [kind |-> "none", serial |-> 0, focus |-> Nobody]
NoTouch == "no touch"

VARIABLE seat

GrabsInit == seat =
    [roots |-> Windows,                     \* live windows and mapped panels
     parent |-> [p \in Popups |-> Nobody],  \* Nobody: there is no such popup
     chain |-> <<>>,                        \* popups with a grab, the topmost last
     dismissed |-> {},                      \* the same after they were dismissed
     focus |-> Nobody,                      \* keyboard focus
     kgrab |-> 0,                           \* serial of the popup keyboard grab
     at |-> Nobody,                         \* the root below the pointer or its popups
     pgrab |-> NoPointerGrab,
     touch |-> NoTouch,                     \* what the fingers went down on
     grab |-> NoGrab,                       \* active_popup_grab
     presses |-> <<>>, known |-> Nobody, origin |-> 0,  \* popup_input
     locked |-> FALSE,
     serial |-> 0,
     moved |-> 0,                           \* presses before the client with the keyboard changed
     begun |-> [n \in 1..MaxSerial |-> 0]]  \* root level grabs granted for each press

-----------------------------------------------------------------------------
RootOf(s, x) ==
    LET up[k \in 0..Cardinality(Popups)] ==
            IF k = 0 THEN x ELSE IF up[k - 1] \in Popups THEN s.parent[up[k - 1]] ELSE up[k - 1]
    IN  up[Cardinality(Popups)]

\* same_client_as, which dead surfaces still answer.
SameClient(x, y) == {x, y} \subseteq DOMAIN Client /\ Client[x] = Client[y]

\* exclusive_layer_surface.
Exclusive(s) == LET up == s.roots \cap Panels IN IF up = {} THEN Nobody ELSE CHOOSE x \in up : TRUE

\* active_grab, PopupGrab::current_grab and has_ended.
Active(s) == s.grab # NoGrab /\ s.chain # <<>>
Current(s) == IF s.chain # <<>> THEN Last(s.chain) ELSE s.grab.root
Ended(s) == s.chain = <<>> /\ s.dismissed = {}
Matching(g, n) == n # 0 /\ n \in {g.serial, g.previous}

\* PointerHandle::current_focus: grabs decide which motion they pass on.
PointerFocus(s) ==
    CASE s.pgrab.kind = "none"  -> s.at
      [] s.pgrab.kind = "click" -> s.pgrab.focus
      [] s.pgrab.kind = "popup" -> IF SameClient(s.at, Current(s)) THEN s.at ELSE Nobody
      [] s.pgrab.kind = "move"  -> Nobody

-----------------------------------------------------------------------------
(* Keyboard focus. *)

\* PopupInput::focus_changed.
Reported(s, f) ==
    IF SameClient(s.known, f) THEN [s EXCEPT !.known = f]
    ELSE [s EXCEPT !.known = f, !.presses = <<>>, !.origin = 0]

\* The seat's own change of focus; it reports no change to nobody.
Given(s, f) ==
    LET t == [s EXCEPT !.focus = f, !.moved = IF SameClient(s.focus, f) THEN @ ELSE s.serial]
    IN  IF s.focus = f THEN s ELSE IF f = Nobody THEN t ELSE Reported(t, f)

\* KeyboardHandle::set_focus, which a popup keyboard grab may refuse.
Offered(s, f) ==
    IF s.kgrab = 0 \/ f = Current(s) THEN Given(s, f)
    ELSE IF Ended(s) THEN Given([s EXCEPT !.kgrab = 0], f)
    ELSE s

\* Mutant of Directed: nobody hears that the keyboard is with nobody.
DirectedQuietly(s, f) == IF s.focus = f THEN s ELSE Offered(s, f)

\* The end of set_keyboard_focus.
Directed(s, f) ==
    LET t == Offered(s, f)
    IN  IF s.focus = f THEN s ELSE IF t.focus = Nobody THEN Reported(t, Nobody) ELSE t

\* Who gets the keyboard when it is meant for f: lock surfaces are not part of
\* this model, so nobody does in a locked session.
Claimed(s, f) == IF s.locked THEN Nobody ELSE IF Exclusive(s) # Nobody THEN Exclusive(s) ELSE f

\* Mutant of Refreshed: a grab that ended keeps the keyboard grab of its chain.
RefreshedLoose(s) ==
    IF s.grab = NoGrab \/ Active(s) THEN s
    ELSE LET g == s.grab
             taken == [s EXCEPT !.grab = NoGrab, !.origin = 0]
             back == IF g.serial # s.kgrab THEN taken
                     ELSE Directed([taken EXCEPT !.kgrab = 0],
                                   Claimed(s, IF g.root \in s.roots THEN g.root ELSE Nobody))
         IN  back

\* refresh_popup_grab.
Refreshed(s) ==
    LET g == s.grab
        taken == [s EXCEPT !.grab = NoGrab, !.origin = 0]
        back == IF ~Matching(g, s.kgrab) THEN taken
                ELSE Directed([taken EXCEPT !.kgrab = 0],
                              Claimed(s, IF g.root \in s.roots THEN g.root ELSE Nobody))
    IN  IF s.grab = NoGrab THEN s
        ELSE IF Active(s)
             THEN IF Matching(g, s.kgrab) /\ s.focus # Current(s) THEN Offered(s, Current(s)) ELSE s
        ELSE IF s.pgrab.kind = "popup" /\ Matching(g, s.pgrab.serial)
             THEN [back EXCEPT !.pgrab = NoPointerGrab] ELSE back

\* PopupGrab::ungrab of the whole chain.
Ungrabbed(s) == [s EXCEPT !.chain = <<>>, !.dismissed = @ \cup Range(s.chain)]

\* dismiss_popup_grab.
Dismissed(s) == IF s.grab = NoGrab THEN s ELSE Refreshed(Ungrabbed(s))

\* set_keyboard_focus.
Focused(s, f) ==
    LET foreign == ~s.locked /\ Exclusive(s) # Nobody /\ s.grab # NoGrab /\ s.grab.root # Exclusive(s)
    IN  Directed(IF foreign THEN Dismissed(s) ELSE s, Claimed(s, f))

\* The popup pointer grab gives its keyboard grab up when it is unset.
KeyboardUnset(s) ==
    IF Matching(s.grab, s.kgrab) THEN Given([s EXCEPT !.kgrab = 0], s.grab.root) ELSE s

-----------------------------------------------------------------------------
(* Presses. *)

\* record_popup_input.
Recorded(s, kind, f) ==
    LET kept == Retained(s.presses, {p \in Range(s.presses) : p.client = Client[f]})
        room == IF Len(kept) >= MaxInputs THEN Tail(kept) ELSE kept
    IN  IF s.locked \/ f = Nobody THEN s
        ELSE [s EXCEPT !.presses =
                 Append(room, [kind |-> kind, serial |-> s.serial, client |-> Client[f]])]

Revoked(s, kind) == [s EXCEPT !.presses = Retained(@, {p \in Range(@) : p.kind # kind})]

\* cancel_touch_input.
TouchCancelled(s) == [Revoked(s, "touch") EXCEPT !.touch = NoTouch]

Pressing == seat.serial < MaxSerial
Counted(s) == [s EXCEPT !.serial = @ + 1]

\* keyboard_transition: a key goes to the chain, or to the root when the chain
\* is over.
Key ==
    LET s == Counted(seat)
        t == IF s.kgrab = 0 THEN s
             ELSE [Given(s, Current(s)) EXCEPT !.kgrab = IF Ended(s) THEN 0 ELSE @]
    IN  /\ Pressing
        /\ seat' = Recorded(t, "keyboard", t.focus)

\* pointer_button: press_target moves the focus when nothing grabs the pointer;
\* a popup grab ends with a press outside the surfaces of its client.
Button ==
    LET s == Counted(seat)
        over == PointerFocus(s)
        clicked == [Focused(s, RootOf(s, s.at)) EXCEPT
                        !.pgrab = [kind |-> "click", serial |-> s.serial, focus |-> s.at]]
        outside == KeyboardUnset([Ungrabbed(s) EXCEPT !.pgrab = NoPointerGrab])
    IN  /\ Pressing
        /\ \/ s.pgrab.kind = "none" /\ seat' = Recorded(clicked, "pointer", over)
           \/ s.pgrab.kind = "click" /\ seat' = Recorded(s, "pointer", over)
           \/ s.pgrab.kind = "move" /\ seat' = s
           \/ /\ s.pgrab.kind = "popup" /\ ~Ended(s)
              /\ seat' = IF over = Nobody THEN outside ELSE Recorded(s, "pointer", over)
           \/ /\ s.pgrab.kind = "popup" /\ Ended(s)
              /\ seat' = Recorded(KeyboardUnset([s EXCEPT !.pgrab = NoPointerGrab]), "pointer", over)

\* All buttons are up: click and move grabs end.
ButtonsUp ==
    /\ seat.pgrab.kind \in {"click", "move"}
    /\ seat' = [seat EXCEPT !.pgrab = NoPointerGrab]

PointerMoves(x) ==
    /\ x # seat.at /\ ~seat.locked
    /\ seat' = IF seat.pgrab.kind = "popup" /\ Ended(seat)
               THEN [KeyboardUnset([seat EXCEPT !.pgrab = NoPointerGrab]) EXCEPT !.at = x]
               ELSE [seat EXCEPT !.at = x]

\* popup_touch_down and touch_input::down.
TouchDown(x) ==
    LET s == Counted(IF seat.touch = Nobody THEN TouchCancelled(seat) ELSE seat)
        r == Refreshed(s)
        asked == IF r.grab # NoGrab /\ ~SameClient(x, Current(r)) THEN Dismissed(r) ELSE r
        down == [Focused(asked, RootOf(asked, x)) EXCEPT !.touch = x]
    IN  /\ Pressing /\ ~seat.locked
        /\ seat' = IF s.touch = NoTouch THEN Recorded(down, "touch", x)
                   ELSE Recorded(s, "touch", s.touch)

TouchUp ==
    /\ seat.touch # NoTouch
    /\ seat' = [seat EXCEPT !.touch = NoTouch]

\* The oldest press passes MAX_INPUT_AGE.
Elapse ==
    /\ seat.presses # <<>>
    /\ seat' = [seat EXCEPT !.presses = Tail(@)]

-----------------------------------------------------------------------------
(* Clients. *)

\* authorize_popup_grab: is this a press the client may answer with a grab?
Pressed(s, p, n) ==
    \E i \in DOMAIN s.presses :
        /\ s.presses[i].serial = n /\ s.presses[i].client = Client[p]
        /\ CASE s.presses[i].kind = "keyboard" -> SameClient(s.focus, p)
             [] s.presses[i].kind = "pointer" -> SameClient(s.focus, p) \/ SameClient(PointerFocus(s), p)
             [] s.presses[i].kind = "touch" -> TRUE

ChainSerial(s, n) == Active(s) /\ (Matching(s.grab, n) \/ (n # 0 /\ n = s.origin))

Clicked(s, p, n) ==
    /\ s.pgrab.kind = "click" /\ SameClient(s.pgrab.focus, p)
    /\ s.pgrab.serial = n \/ SameClient(PointerFocus(s), p)

Authorized(s, p, n) ==
    LET root == RootOf(s, p) IN
    /\ ~s.locked
    /\ root \in s.roots
    /\ Exclusive(s) \in {Nobody, root}
    /\ s.parent[p] = IF Active(s) THEN Current(s) ELSE root
    /\ Pressed(s, p, n) \/ (Clicked(s, p, n) /\ s.pgrab.serial = n) \/ ChainSerial(s, n)
    /\ s.kgrab # 0 => Active(s) /\ s.kgrab = s.grab.serial
    /\ \/ s.pgrab.kind = "none"
       \/ Clicked(s, p, n)
       \/ s.pgrab.kind = "popup" /\ Active(s) /\ s.pgrab.serial = s.grab.serial

\* Mutant of Granted: the press stays good for another grab.
GrantedAgain(s, p, n, previous) ==
    LET g == [root |-> RootOf(s, p), serial |-> n, previous |-> previous]
        held == [s EXCEPT !.chain = Append(@, p)]
        freed == IF s.pgrab.kind = "popup" THEN KeyboardUnset(held) ELSE held
        given == Offered([freed EXCEPT !.pgrab = [kind |-> "popup", serial |-> n, focus |-> g.root],
                                       !.grab = g], p)
    IN  [given EXCEPT !.kgrab = n, !.origin = IF Active(s) THEN @ ELSE n,
                      !.begun[n] = IF Active(s) THEN @ ELSE @ + 1]

\* grab_popup once it is authorized. Setting the pointer grab unsets the one of
\* the chain so far, and with it the keyboard grab.
Granted(s, p, n, previous) ==
    LET g == [root |-> RootOf(s, p), serial |-> n, previous |-> previous]
        calm == IF s.touch = NoTouch \/ SameClient(s.touch, p) THEN s ELSE TouchCancelled(s)
        held == [calm EXCEPT !.chain = Append(@, p)]
        freed == IF s.pgrab.kind = "popup" THEN KeyboardUnset(held) ELSE held
        given == Offered([freed EXCEPT !.pgrab = [kind |-> "popup", serial |-> n, focus |-> g.root],
                                       !.grab = g], p)
    IN  [given EXCEPT !.kgrab = n, !.presses = Retained(@, {x \in Range(@) : x.serial # n}),
                      !.origin = IF Active(s) THEN @ ELSE n,
                      !.begun[n] = IF Active(s) THEN @ ELSE @ + 1]

\* A client opens a popup on x and asks for a grab (grab_popup); a popup without
\* one takes no part in this, so the two are one step. The library tells the
\* grab the serial of the one before it in the chain; whether it still knows one
\* at the start of a chain is left open.
GrabPopup(p, x, n) ==
    LET s == [Refreshed(seat) EXCEPT !.parent[p] = x] IN
    /\ seat.parent[p] = Nobody /\ p \notin seat.dismissed
    /\ SameClient(x, p) /\ (x \in seat.roots \/ (x \in Popups /\ seat.parent[x] # Nobody))
    /\ \/ /\ Authorized(s, p, n)
          /\ \E previous \in IF Active(s) THEN {s.grab.serial} ELSE {0, seat.grab.serial} :
                seat' = Granted(s, p, n, previous)
       \/ /\ ~Authorized(s, p, n)
          /\ seat' = Refreshed(seat)

\* What is left when surfaces are gone; the library keeps a popup of a chain in
\* mind until it cleans up.
Without(s, gone) ==
    LET Alive(x) == IF x \in gone THEN Nobody ELSE x IN
    [s EXCEPT !.roots = @ \ gone,
              !.parent = [p \in Popups |-> IF p \in gone THEN Nobody ELSE @[p]],
              !.chain = Retained(@, Popups \ gone),
              !.at = Alive(@), !.touch = Alive(@),
              !.pgrab.focus = IF s.pgrab.kind = "click" THEN Alive(@) ELSE @]

\* A client destroys a popup, the topmost first.
DestroyPopup(p) ==
    /\ seat.parent[p] # Nobody /\ \A q \in Popups : seat.parent[q] # p
    /\ seat' = [Without(seat, {p}) EXCEPT
                    !.dismissed = IF p \in Range(seat.chain) THEN @ \cup {p} ELSE @]

\* A client asks to move its window for a press it holds a pointer grab for;
\* the new pointer grab replaces that of the chain.
BeginMove(w) ==
    LET s == Focused(seat, w) IN
    /\ ~seat.locked /\ w \in seat.roots
    /\ seat.pgrab.kind \in {"click", "popup"} /\ SameClient(seat.pgrab.focus, w)
    /\ seat' = [(IF s.pgrab.kind = "popup" THEN KeyboardUnset(s) ELSE s) EXCEPT
                    !.pgrab = [kind |-> "move", serial |-> @.serial, focus |-> Nobody]]

\* A layer surface with exclusive keyboard interactivity is mapped.
MapPanel(x) ==
    LET s == [seat EXCEPT !.roots = @ \cup {x}] IN
    /\ seat.roots \cap Panels = {}
    /\ seat' = IF s.locked THEN s ELSE Focused(s, x)

\* unmap_layer_surface and release_layer_focus.
UnmapPanel(x, w) ==
    LET s == [seat EXCEPT !.roots = @ \ {x}]
        ended == IF s.grab.root = x THEN Dismissed(s) ELSE s
        refocused == IF x = RootOf(seat, seat.focus) \/ ended.focus \in {x, Nobody}
                     THEN Focused(ended, w) ELSE ended
        owner == IF seat.pgrab.kind = "click" THEN seat.pgrab.focus ELSE Nobody
    IN  /\ x \in seat.roots /\ w \in (seat.roots \cap Windows) \cup {Nobody}
        /\ seat' = [(IF seat.touch = x THEN TouchCancelled(refocused) ELSE refocused) EXCEPT
                        !.pgrab = IF owner = x THEN NoPointerGrab ELSE @,
                        !.at = IF @ = x THEN Nobody ELSE @]

\* A client disconnects: its windows go before its popups or after them, and
\* the keyboard is offered to a window that is left.
ClientDies(c, w) ==
    LET roots == {x \in seat.roots : Client[x] = c}
        popups == {p \in Popups : seat.parent[p] # Nobody /\ Client[p] = c}
        dead == [seat EXCEPT !.presses = Retained(@, {p \in Range(@) : p.client # c})]
        Off(s) == IF RootOf(s, s.focus) \in roots \cup {Nobody} THEN Focused(Without(s, roots), w)
                  ELSE Without(s, roots)
    IN  /\ roots # {} /\ w \in ((seat.roots \ roots) \cap Windows) \cup {Nobody}
        /\ seat' \in {Without(Off(dead), popups), Off(Without(dead, popups))}

\* PopupManager::cleanup and refresh_popup_grab at the end of an iteration of the
\* event loop.
Settled(s) == Refreshed([s EXCEPT !.dismissed = {p \in @ : s.parent[p] # Nobody}])

Refresh == seat' = Settled(seat) /\ seat' # seat

\* reset_keyboard_state and cancel_client_input.
Cancelled(s) ==
    LET clear == [s EXCEPT !.presses = <<>>, !.origin = 0, !.known = Nobody]
        free == Dismissed(clear)
        still == IF free.pgrab.kind = "popup" THEN KeyboardUnset(free) ELSE free
    IN  [TouchCancelled([still EXCEPT !.pgrab = NoPointerGrab, !.at = Nobody]) EXCEPT !.kgrab = 0]

Lock ==
    /\ ~seat.locked
    /\ seat' = Focused(Cancelled([seat EXCEPT !.locked = TRUE]), Nobody)

Unlock ==
    /\ seat.locked
    /\ seat' = Focused([Cancelled(seat) EXCEPT !.locked = FALSE], Nobody)

GrabsNext ==
    \/ Key \/ Button \/ ButtonsUp \/ TouchUp \/ Elapse \/ Refresh \/ Lock \/ Unlock
    \/ \E x \in seat.roots \cup {Nobody} : PointerMoves(x)
    \/ \E x \in seat.roots : TouchDown(x)
    \/ \E p \in Popups : DestroyPopup(p)
    \/ \E p \in Popups, x \in Roots \cup Popups, n \in 1..seat.serial : GrabPopup(p, x, n)
    \/ \E w \in Windows : BeginMove(w)
    \/ \E x \in Panels : MapPanel(x)
    \/ \E x \in Panels, w \in Windows \cup {Nobody} : UnmapPanel(x, w)
    \/ \E c \in Range(Client), w \in Windows \cup {Nobody} : ClientDies(c, w)

GrabsSpec == GrabsInit /\ [][GrabsNext]_seat

-----------------------------------------------------------------------------
(* Properties. *)

\* Once the iteration is over, the grabs of popups belong to the chain that is
\* up: whatever ended it, keyboard and pointer are free again, a popup has the
\* keyboard only on top of the chain, nothing is grabbed in a locked session,
\* and an exclusive layer surface shares the keyboard with its own popups only.
GrabsOwned ==
    LET s == Settled(seat) IN
    /\ s.kgrab # 0 => Active(s) /\ Matching(s.grab, s.kgrab) /\ s.focus = Current(s)
    /\ s.pgrab.kind = "popup" => Active(s) /\ Matching(s.grab, s.pgrab.serial)
    /\ s.focus \in Popups => s.kgrab # 0 /\ s.focus = Current(s)
    /\ s.locked => s.grab = NoGrab /\ s.focus = Nobody
    /\ Exclusive(s) # Nobody /\ ~s.locked => RootOf(s, s.focus) = Exclusive(s)

\* One press of the user opens one chain of popups: its serial does not start
\* another one after the first was closed.
PressOnce == \A n \in DOMAIN seat.begun : seat.begun[n] <= 1

\* A press is good for as long as its client keeps the keyboard: when the
\* keyboard has gone to another client, or to nobody, and come back, presses
\* from before do not start a grab.
PressesFollowFocus ==
    \A i \in DOMAIN seat.presses :
        seat.presses[i].kind = "keyboard" => seat.presses[i].serial > seat.moved
=============================================================================
