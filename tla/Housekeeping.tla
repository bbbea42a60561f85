----------------------------- MODULE Housekeeping -----------------------------
(***************************************************************************)
(* What the event loop looks after on its own: the backlight, dimmed while *)
(* the session is idle and nothing inhibits it (idle_dim.rs, state.rs),    *)
(* and the autostart commands, reaped and restarted (state.rs).            *)
(***************************************************************************)
EXTENDS Integers
CONSTANTS Levels,         \* brightness levels the user sets
          Inhibitors,     \* surfaces that may inhibit idling
          Commands        \* autostart commands, all with restart = true
ASSUME LevelsAssumption == Levels \subseteq Nat

VARIABLES
  chosen,      \* the brightness the user has chosen
  light,       \* the backlight and IdleDimming: level, original, dimmed, failed
  idle,        \* the timeout has passed since the last activity
  inhibiting,  \* surfaces with an inhibitor, and those of them that still live
  power,       \* the configuration: power.idle_dim
  dimTimer,    \* whether the timer of idle dimming is armed
  refreshed,   \* nothing has happened since the loop's last iteration ended
  children     \* each command: running, exited or given up, and whether its delay is over
lightVars == <<chosen, light, idle, inhibiting, power, dimTimer, refreshed>>
houseVars == <<lightVars, children>>

Nothing == -1
HousekeepingInit ==
  /\ chosen \in Levels
  /\ light = [level |-> chosen, original |-> Nothing, dimmed |-> FALSE, failed |-> FALSE]
  /\ idle = FALSE /\ dimTimer = FALSE /\ refreshed = FALSE
  /\ inhibiting = [held |-> {}, alive |-> Inhibitors]
  /\ power \in BOOLEAN
  /\ children = [c \in Commands |-> [is |-> "running", due |-> TRUE]]
------------------------------------------------------------------------------
DimmedLevel(level) == IF level \div 2 > 1 THEN level \div 2 ELSE 1

\* A restore that fails would lose the level it was to write.
RestoreLosing(l, written) ==
  IF l.original = Nothing THEN l
  ELSE IF written THEN [l EXCEPT !.level = l.original, !.original = Nothing, !.dimmed = FALSE]
  ELSE [l EXCEPT !.original = Nothing, !.failed = TRUE]

\* written: whether the kernel takes the value.
RestoreLight(l, written) ==
  IF l.original = Nothing THEN l
  ELSE IF written THEN [l EXCEPT !.level = l.original, !.original = Nothing, !.dimmed = FALSE]
  ELSE [l EXCEPT !.failed = TRUE]

\* A light that is dimmed would stay so when an inhibitor comes.
TickDimmedFirst(l, inhibited, written) ==
  IF l.dimmed \/ l.failed \/ ~idle THEN l
  ELSE IF ~power \/ inhibited THEN RestoreLight(l, written)
  ELSE IF written THEN [l EXCEPT !.level = DimmedLevel(l.level), !.original = l.level, !.dimmed = TRUE]
  ELSE [l EXCEPT !.failed = TRUE]

Tick(l, inhibited, written) ==
  IF ~power \/ inhibited THEN RestoreLight(l, written)
  ELSE IF l.dimmed \/ l.failed \/ ~idle THEN l
  ELSE IF written THEN [l EXCEPT !.level = DimmedLevel(l.level), !.original = l.level, !.dimmed = TRUE]
  ELSE [l EXCEPT !.failed = TRUE]

\* Any input: the timer is armed unless it is, and dimming is undone.
Activity(on, armed) ==
  /\ idle' = FALSE
  /\ \E written \in BOOLEAN : light' = RestoreLight([light EXCEPT !.failed = FALSE], written)
  /\ dimTimer' = (armed \/ on)
  /\ refreshed' = FALSE

NoteInputActivity ==
  /\ Activity(power, dimTimer)
  /\ UNCHANGED <<chosen, inhibiting, power, children>>

\* A reload of the power settings starts the clock anew.
ReloadPower ==
  /\ power' = ~power
  /\ Activity(~power, FALSE)
  /\ UNCHANGED <<chosen, inhibiting, children>>

TimeoutPasses ==
  /\ ~idle /\ idle' = TRUE
  /\ refreshed' = FALSE
  /\ UNCHANGED <<chosen, light, inhibiting, power, dimTimer, children>>

\* Fired too early, because of later activity, the timer is armed again.
TimerFires ==
  /\ dimTimer
  /\ idle /\ dimTimer' = FALSE
  /\ \E written \in BOOLEAN : light' = Tick(light, inhibiting.held # {}, written)
  /\ refreshed' = FALSE
  /\ UNCHANGED <<chosen, idle, inhibiting, power, children>>

\* The user sets another brightness, of a screen that is not dimmed.
SetBrightness ==
  /\ ~light.dimmed
  /\ chosen' \in Levels \ {chosen}
  /\ light' = [light EXCEPT !.level = chosen']
  /\ UNCHANGED <<idle, inhibiting, power, dimTimer, refreshed, children>>

InhibitIdle(s) ==
  /\ s \in inhibiting.alive
  /\ inhibiting' = [inhibiting EXCEPT !.held = IF s \in @ THEN @ \ {s} ELSE @ \cup {s}]
  /\ refreshed' = FALSE
  /\ UNCHANGED <<chosen, light, idle, power, dimTimer, children>>

InhibitorDies(s) ==
  /\ s \in inhibiting.alive
  /\ inhibiting' = [inhibiting EXCEPT !.alive = @ \ {s}]
  /\ refreshed' = FALSE
  /\ UNCHANGED <<chosen, light, idle, power, dimTimer, children>>

\* Inhibitors would count although their surface is gone.
RefreshHolding ==
  /\ ~refreshed /\ refreshed' = TRUE
  /\ \E written \in BOOLEAN : light' = Tick(light, inhibiting.held # {}, written)
  /\ UNCHANGED <<chosen, idle, inhibiting, power, dimTimer, children>>

\* The end of an iteration of the event loop.
Refresh ==
  /\ ~refreshed /\ refreshed' = TRUE
  /\ inhibiting' = [inhibiting EXCEPT !.held = @ \cap inhibiting.alive]
  /\ \E written \in BOOLEAN : light' = Tick(light, inhibiting'.held # {}, written)
  /\ UNCHANGED <<chosen, idle, power, dimTimer, children>>
------------------------------------------------------------------------------
ChildExits(c) ==
  /\ children[c].is = "running"
  /\ children' = [children EXCEPT ![c].is = "exited"]
  /\ UNCHANGED lightVars

SecondPasses(c) ==
  /\ ~children[c].due
  /\ children' = [children EXCEPT ![c].due = TRUE]
  /\ UNCHANGED lightVars

\* Only those whose delay is not over.
SuperviseEarly ==
  /\ children' = [c \in Commands |-> IF children[c].is # "exited" \/ children[c].due THEN children[c]
                                    ELSE [is |-> "running", due |-> FALSE]]
  /\ refreshed' = FALSE
  /\ UNCHANGED <<chosen, light, idle, inhibiting, power, dimTimer>>

\* All children at once: whoever has exited and is due is started again, or
\* given up when that fails.  The interval wakes the loop, which refreshes.
SuperviseChildren ==
  /\ \E failing \in SUBSET Commands :
       children' = [c \in Commands |->
         IF children[c].is # "exited" \/ ~children[c].due THEN children[c]
         ELSE [is |-> IF c \in failing THEN "given up" ELSE "running", due |-> FALSE]]
  /\ refreshed' = FALSE
  /\ UNCHANGED <<chosen, light, idle, inhibiting, power, dimTimer>>

HousekeepingNext ==
  \/ NoteInputActivity \/ ReloadPower \/ TimeoutPasses \/ TimerFires \/ SetBrightness
  \/ \E s \in Inhibitors : InhibitIdle(s) \/ InhibitorDies(s)
  \/ Refresh
  \/ \E c \in Commands : ChildExits(c) \/ SecondPasses(c)
  \/ SuperviseChildren

\* Time passes, the supervision timer fires and every iteration ends.
HousekeepingFairness ==
  /\ WF_houseVars(Refresh) /\ WF_houseVars(SuperviseChildren)
  /\ \A c \in Commands : WF_houseVars(SecondPasses(c))
HousekeepingSpec == HousekeepingInit /\ [][HousekeepingNext]_houseVars /\ HousekeepingFairness
------------------------------------------------------------------------------
\* The brightness the user chose is never lost: it is what the backlight shows,
\* or it is remembered, once, to be written back, whichever writes fail.
LevelKept ==
  IF light.dimmed THEN light.original = chosen ELSE light.level = chosen /\ light.original = Nothing

MayDim == idle /\ power /\ inhibiting.held \cap inhibiting.alive = {}

\* After every iteration of the loop the backlight is dimmed only in a session
\* that is idle, with dimming enabled and no living surface that inhibits it,
\* unless the kernel refused to write.
DimmedRightly ==
  refreshed /\ light.dimmed /\ ~light.failed => MayDim

\* A session that stays idle and uninhibited is dimmed, whether the last
\* inhibitor was given up or died, and although the timer fires only once.
IdleDims == MayDim ~> (light.dimmed \/ light.failed \/ ~MayDim)

\* A command that exits is started again, or given up.
ChildrenRestart == \A c \in Commands : children[c].is = "exited" ~> children[c].is # "exited"
==============================================================================
