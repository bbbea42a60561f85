---------------------------- MODULE FrameCallbacks ----------------------------
(***************************************************************************)
(* Frame callbacks (render/frame_callbacks.rs): a surface asks to be told  *)
(* when to draw its next frame.  One that an output shows is told whenever *)
(* that output is rendered, any other at most once in an interval, by one  *)
(* timer for all of them that every iteration of the event loop checks.    *)
(*                                                                         *)
(* Times are relative to now; a time that has passed is 0.                 *)
(***************************************************************************)
EXTENDS Integers, FiniteSetsExt
CONSTANTS Views,     \* surfaces of windows, popups, panels, the lock, ...
          Outputs,
          Interval   \* HIDDEN_FRAME_INTERVAL
ASSUME IntervalAssumption == Interval \in Nat \ {0}

VARIABLES
  asked,      \* surfaces with a callback that is still to be called
  shownOn,    \* each surface: its primary scanout output, or {}
  deadline,   \* each surface: when it is told if it is hidden; {} until it is known
  plugged,    \* the outputs of the space
  hiddenTimer, \* {} or the time it is armed for
  redraw,     \* outputs that are still to be rendered
  passed,     \* the loop has been through refresh
  since       \* for the properties only: the time since each surface was told
frameVars == <<asked, shownOn, deadline, plugged, hiddenTimer, redraw, passed, since>>

FrameCallbacksInit ==
  /\ asked = {} /\ shownOn = [s \in Views |-> {}] /\ deadline = [s \in Views |-> {}]
  /\ plugged = Outputs /\ hiddenTimer = {} /\ redraw = {} /\ passed = TRUE
  /\ since = [s \in Views |-> Interval]
------------------------------------------------------------------------------
\* An output that was unplugged would still count.
HiddenUnlessShown(waiting, shown, there) == {s \in waiting : shown[s] = {}}

HiddenViews(waiting, shown, there) == {s \in waiting : shown[s] \cap there = {}}

\* hidden_deadline: a surface that is hidden for the first time gets one.
Known(times, hidden) ==
  [s \in Views |-> IF s \in hidden /\ times[s] = {} THEN {Interval} ELSE times[s]]
Earliest(times, hidden) ==
  IF hidden = {} THEN {} ELSE {Min(UNION {times[s] : s \in hidden})}

\* A timer that is armed stays, even if it is too late.
KeptArmed(now, at) == IF now # {} /\ at # {} THEN now ELSE at
\* schedule_hidden_frames: a timer stays if it is early enough.
Armed(now, at) ==
  IF \E t \in now, d \in at : t <= d THEN now ELSE at

\* The callbacks of ss are called.
DeadlineKept(times, ss) == [s \in Views |-> IF s \in ss /\ times[s] = {} THEN {Interval} ELSE times[s]]
Pushed(times, ss) == [s \in Views |-> IF s \in ss THEN {Interval} ELSE times[s]]
Tell(ss) ==
  /\ asked' = asked \ ss
  /\ since' = [s \in Views |-> IF s \in ss THEN 0 ELSE since[s]]

Schedule(waiting, shown, times) ==
  LET hidden == HiddenViews(waiting, shown, plugged) IN
  /\ deadline' = Known(times, hidden)
  /\ hiddenTimer' = Armed(hiddenTimer, Earliest(deadline', hidden))
------------------------------------------------------------------------------
\* Every commit asks for a new frame on all outputs.
AskFrame(s) ==
  /\ s \notin asked /\ asked' = asked \cup {s}
  /\ redraw' = plugged /\ passed' = FALSE
  /\ UNCHANGED <<shownOn, deadline, plugged, hiddenTimer, since>>

\* What is visible is external: windows move, are minimized, locked away.
Render(o) ==
  /\ o \in redraw
  /\ \E visible \in SUBSET Views :
       LET shown == [s \in Views |-> IF s \in visible THEN {o} ELSE shownOn[s] \ {o}]
           told == {s \in asked : shown[s] = {o}}
       IN  /\ shownOn' = shown
           /\ Tell(told)
           /\ Schedule(asked \ told, shown, Pushed(deadline, told))
  /\ redraw' = redraw \ {o} /\ UNCHANGED <<plugged, passed>>

\* Something that is not a commit changes what is visible.
Rearrange ==
  /\ redraw # plugged /\ redraw' = plugged /\ passed' = FALSE
  /\ UNCHANGED <<asked, shownOn, deadline, plugged, hiddenTimer, since>>

Plug(o) ==
  /\ plugged' = IF o \in plugged THEN plugged \ {o} ELSE plugged \cup {o}
  /\ redraw' = plugged' /\ passed' = FALSE
  /\ UNCHANGED <<asked, shownOn, deadline, hiddenTimer, since>>

HiddenTimer ==
  /\ hiddenTimer = {0}
  /\ LET hidden == HiddenViews(asked, shownOn, plugged)
         known == Known(deadline, hidden)
         due == {s \in hidden : known[s] = {0}}
     IN  /\ Tell(due)
         /\ deadline' = Pushed(known, due)
         /\ hiddenTimer' = Earliest(known, hidden \ due)
  /\ UNCHANGED <<shownOn, plugged, redraw, passed>>

RefreshFrames ==
  /\ ~passed /\ passed' = TRUE
  /\ Schedule(asked, shownOn, deadline)
  /\ UNCHANGED <<asked, shownOn, plugged, redraw, since>>

Ticked(t) == IF t > 0 THEN t - 1 ELSE 0
Pass ==
  /\ \/ hiddenTimer \notin {{}, {0}} \/ \E s \in Views : since[s] < Interval \/ deadline[s] \notin {{}, {0}}
  /\ deadline' = [s \in Views |-> {Ticked(t) : t \in deadline[s]}]
  /\ hiddenTimer' = {Ticked(t) : t \in hiddenTimer}
  /\ since' = [s \in Views |-> Min({since[s] + 1, Interval})]
  /\ UNCHANGED <<asked, shownOn, plugged, redraw, passed>>

FrameCallbacksNext ==
  \/ \E s \in Views : AskFrame(s)
  \/ \E o \in Outputs : Render(o) \/ Plug(o)
  \/ Rearrange \/ HiddenTimer \/ RefreshFrames \/ Pass

\* The loop goes round, time passes and outputs that are plugged in get their
\* frames (FramePacer has the conditions for that).
FrameCallbacksFairness ==
  /\ WF_frameVars(HiddenTimer) /\ WF_frameVars(RefreshFrames) /\ WF_frameVars(Pass)
  /\ \A o \in Outputs : WF_frameVars(Render(o) /\ o \in plugged)
FrameCallbacksSpec == FrameCallbacksInit /\ [][FrameCallbacksNext]_frameVars /\ FrameCallbacksFairness
------------------------------------------------------------------------------
\* After every iteration the one timer wakes the loop in time for the first of
\* the hidden surfaces, whatever was hidden, shown, told or unplugged since it
\* was armed.
TimerCovers ==
  passed => \A s \in HiddenViews(asked, shownOn, plugged) :
              \E t \in hiddenTimer : \A d \in deadline[s] : t <= d

\* A surface that nobody sees is told at most once in an interval, even if it
\* was visible a moment ago.
HiddenThrottled ==
  [][\A s \in HiddenViews(asked, shownOn, plugged) \ asked' :
       since[s] = Interval \/ shownOn'[s] # {}]_frameVars

\* Every callback is called, whether its surface is visible, hidden or was
\* last seen on an output that is gone, once outputs stop coming and going.
CallbackCalled(s) ==
  []<><<plugged' # plugged>>_plugged \/ (s \in asked ~> s \notin asked)
CallbacksCalled == \A s \in Views : CallbackCalled(s)
==============================================================================
