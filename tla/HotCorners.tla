------------------------------ MODULE HotCorners ------------------------------
(***************************************************************************)
(* Hot corners (hot_corners.rs): a pointer that stays in a corner of an    *)
(* output for a while makes the compositor act, once.  Every entry starts  *)
(* a timer of its own; timers are never removed, but they carry the        *)
(* generation they were started in, and cancelling begins a new one.  The  *)
(* generation is here whether a timer is of the current one.               *)
(*                                                                         *)
(* What the actions do is in Workspaces.                                   *)
(***************************************************************************)
EXTENDS Integers
CONSTANTS Corners,   \* an output and a corner of it
          Dwell      \* hot_corners.dwell_ms
ASSUME DwellAssumption == Dwell \in Nat

Elsewhere == "elsewhere"
Spots == Corners \cup {Elsewhere}

VARIABLES
  spot,       \* where the pointer is
  acting,     \* corners whose action is not "none"; {} if they are disabled
  grabbed, screenLocked,
  target,     \* the corner the last motion has entered
  timers,     \* [target, left, current]
  dwelt,      \* for the properties only: the time since target was entered
  acts        \* and how often it has acted since
cornerVars == <<spot, acting, grabbed, screenLocked, target, timers, dwelt, acts>>

HotCornersInit ==
  /\ spot = Elsewhere /\ acting \in SUBSET Corners
  /\ grabbed = FALSE /\ screenLocked = FALSE
  /\ target = Elsewhere /\ timers = {} /\ dwelt = 0 /\ acts = 0
------------------------------------------------------------------------------
CornerAt(p, held) ==
  IF ~screenLocked /\ ~held /\ p \in acting THEN p ELSE Elsewhere

\* The timers that run are left as they are.
Retargeted(all) == all
Outdated(all) == {[t EXCEPT !.current = FALSE] : t \in all}

Cancel ==
  /\ target' = Elsewhere /\ timers' = Outdated(timers)
  /\ dwelt' = 0 /\ acts' = 0

\* update_hot_corners comes before the pointer is moved.
CornerMotion(p) ==
  /\ spot' = p
  /\ LET entered == CornerAt(p, grabbed) IN
     IF entered = target THEN UNCHANGED <<target, timers, dwelt, acts>>
     ELSE /\ target' = entered /\ dwelt' = 0 /\ acts' = 0
          /\ timers' = Outdated(timers) \cup
               {[target |-> c, left |-> Dwell, current |-> TRUE] : c \in {entered} \ {Elsewhere}}
  /\ UNCHANGED <<acting, grabbed, screenLocked>>

\* Focus changes and constraints move the pointer, and say nothing here.
CornerWarp(p) ==
  /\ p # spot /\ spot' = p
  /\ UNCHANGED <<acting, grabbed, screenLocked, target, timers, dwelt, acts>>

\* A timer fires: it must be of this generation and the pointer still there.
CornerTimer(t) ==
  /\ t \in timers /\ t.left = 0
  /\ timers' = timers \ {t}
  /\ acts' = IF t.current /\ CornerAt(spot, grabbed) = t.target /\ acts < 2 THEN acts + 1 ELSE acts
  /\ UNCHANGED <<spot, acting, grabbed, screenLocked, target, dwelt>>

CornerGrab ==
  /\ grabbed' = ~grabbed
  /\ UNCHANGED <<spot, acting, screenLocked, target, timers, dwelt, acts>>

\* Locking and unlocking reset the state of the keyboard, and this with it.
CornerLock ==
  /\ screenLocked' = ~screenLocked /\ grabbed' = FALSE /\ Cancel
  /\ UNCHANGED <<spot, acting>>

\* The session is paused or resumed.
CornerPause == Cancel /\ UNCHANGED <<spot, acting, grabbed, screenLocked>>

CornerReload ==
  /\ acting' \in (SUBSET Corners) \ {acting} /\ Cancel
  /\ UNCHANGED <<spot, grabbed, screenLocked>>

CornerTick ==
  /\ \A t \in timers : t.left > 0
  /\ dwelt < Dwell \/ timers # {}
  /\ timers' = {[t EXCEPT !.left = @ - 1] : t \in timers}
  /\ dwelt' = IF dwelt < Dwell THEN dwelt + 1 ELSE dwelt
  /\ UNCHANGED <<spot, acting, grabbed, screenLocked, target, acts>>

HotCornersNext ==
  \/ \E p \in Spots : CornerMotion(p) \/ CornerWarp(p)
  \/ \E t \in timers : CornerTimer(t)
  \/ CornerGrab \/ CornerLock \/ CornerPause \/ CornerReload \/ CornerTick
HotCornersSpec == HotCornersInit /\ [][HotCornersNext]_cornerVars
------------------------------------------------------------------------------
\* A corner acts at most once each time it is entered, and only after the
\* pointer has been there for the whole dwell since: no timer of an earlier
\* visit, of an older configuration or from before a lock makes it act early
\* or twice.
ActsOncePerDwell == acts <= 1 /\ (acts = 1 => dwelt = Dwell)
==============================================================================
