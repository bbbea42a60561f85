------------------------------ MODULE MCServices ------------------------------
(***************************************************************************)
(* Bounded instances of five modules about what the compositor does for    *)
(* others over time, in one run: they share nothing, and each behaviour    *)
(* moves one of them, to which its fairness is restricted.                 *)
(***************************************************************************)
EXTENDS CommandQueue, EventDelivery, Screenshots, Housekeeping, FrameCallbacks, TLC

VARIABLE scene
servicesVars == <<vars, deliveryVars, shotVars, houseVars, frameVars, scene>>

CONSTANTS v1, v2, o1, o2, r1, r2, r3

\* CommandQueue: with two places and three bytes, a request may find no bytes
\* although there is a place, or no place although there are bytes.
SmallRequests == {[kind |-> "unbind", bytes |-> 1], [kind |-> "wait", bytes |-> 2]}

Picked(set) == CHOOSE x \in set : TRUE

\* Of the modules that do not move there is one initial state.
ServicesInit ==
  /\ scene \in {"commands", "events", "screenshots", "house", "frames"}
  /\ Init /\ DeliveryInit
  /\ ScreenshotsInit /\ (scene = "screenshots" \/ modes = [o \in Screens |-> Picked(ScreenModes)])
  /\ HousekeepingInit /\ (scene = "house" \/ (chosen = Picked(Levels) /\ power))
  /\ FrameCallbacksInit

Scene(name, step) == scene = name /\ step /\ UNCHANGED scene

ServicesNext ==
  \/ Scene("commands", Next) /\ UNCHANGED <<deliveryVars, shotVars, houseVars, frameVars>>
  \/ Scene("events", DeliveryNext) /\ UNCHANGED <<vars, shotVars, houseVars, frameVars>>
  \/ Scene("screenshots", ScreenshotsNext) /\ UNCHANGED <<vars, deliveryVars, houseVars, frameVars>>
  \/ Scene("house", HousekeepingNext) /\ UNCHANGED <<vars, deliveryVars, shotVars, frameVars>>
  \/ Scene("frames", FrameCallbacksNext) /\ UNCHANGED <<vars, deliveryVars, shotVars, houseVars>>

\* The fairness of each module, of the behaviours that move it; of the clients
\* only to the one that the properties are about.
CommandsFair(action) == scene = "commands" /\ action
ServicesFairness ==
  /\ WF_vars(CommandsFair(Wake)) /\ SF_vars(CommandsFair(Monitor))
  /\ WF_vars(CommandsFair(ServiceEnds)) /\ WF_vars(CommandsFair(Compositor))
  /\ SF_vars(CommandsFair(Handle("a"))) /\ SF_vars(CommandsFair(Finish("a"))) /\ WF_vars(CommandsFair(Answer("a")))
  /\ WF_deliveryVars(scene = "events" /\ Forward) /\ WF_deliveryVars(scene = "events" /\ Task)
  /\ WF_deliveryVars(scene = "events" /\ Consume)
  /\ \A o \in Screens : WF_shotVars(scene = "screenshots" /\ ProcessScreenshots(o))
  /\ WF_shotVars(scene = "screenshots" /\ (Encode \/ FinishEncoding \/ Unwind))
  /\ WF_shotVars(scene = "screenshots" /\ DropLost)
  /\ WF_houseVars(scene = "house" /\ Refresh) /\ WF_houseVars(scene = "house" /\ SuperviseChildren)
  /\ \A c \in Commands : WF_houseVars(scene = "house" /\ SecondPasses(c))
  /\ WF_frameVars(scene = "frames" /\ HiddenTimer) /\ WF_frameVars(scene = "frames" /\ RefreshFrames)
  /\ WF_frameVars(scene = "frames" /\ Pass)
  /\ \A o \in Outputs : WF_frameVars(scene = "frames" /\ Render(o) /\ o \in plugged)

ServicesSpec == ServicesInit /\ [][ServicesNext]_servicesVars /\ ServicesFairness
------------------------------------------------------------------------------
(* The properties of each module, of the behaviours that move it.          *)

\* Bytes, places and permits of the command queue are never lost or made up,
\* and the compositor never sleeps on a command (interface.rs, command.rs).
CallsConserved == scene = "commands" => Conserved /\ NoLostWakeup

\* A subscriber sees what was published before each lifecycle event it gets,
\* and is told the right reason when its stream ends (backend.rs, events.rs).
DeliveriesExact == scene = "events" => DeliveryExact /\ ReasonReported

\* The budget of screenshots is what those in flight hold, and a reply leaves
\* room for the next (screenshot.rs).
ShotsWithinBudget == scene = "screenshots" => BudgetExact /\ ReplyMeansRoom

\* The brightness the user chose is shown or remembered, and the light is
\* dimmed only in an idle session nothing inhibits (idle_dim.rs, state.rs).
LightKept == scene = "house" => LevelKept /\ DimmedRightly

\* What was asked for is done: CallsEnd, CatchesUpOrFails, ShotsAnswered and
\* ChildrenRestart, of one client, request and command for all, as none is
\* told from another.  A call over D-Bus ends, a subscriber catches up or is
\* told that it has not, a screenshot is answered and gives its reservation
\* back, and a command that exits is started again or given up.
Asked ==
  CASE scene = "commands" -> call["a"].phase = "received"
    [] scene = "events" -> ~CaughtUpOrFailed
    [] scene = "screenshots" -> shots[r1].made
    [] scene = "house" -> \E c \in Commands : children[c].is = "exited"
    [] OTHER -> FALSE
Done ==
  CASE scene = "commands" -> call["a"].phase = "none"
    [] scene = "events" -> CaughtUpOrFailed
    [] scene = "screenshots" -> AnsweredAndFree(r1)
    [] OTHER -> \A c \in Commands : children[c].is # "exited"
AskedIsDone == Asked ~> Done

\* What nobody asks for is done: CleanupRuns and IdleDims.  The commands of a
\* client that left are cleaned up although others keep the queue full, unless
\* the bus is lost before the cleanup is queued, and a session that stays idle
\* and uninhibited is dimmed.
DutyCalls ==
  CASE scene = "commands" -> "a" \in left
    [] scene = "house" -> MayDim
    [] OTHER -> FALSE
DutyDone ==
  IF scene = "commands" THEN "a" \in cleaned \/ closed \/ Abandoned("a")
  ELSE light.dimmed \/ light.failed \/ ~MayDim
DutiesDone == DutyCalls ~> DutyDone

\* The timer of the hidden surfaces is early enough; each of them is told, but
\* at most once in an interval (render/frame_callbacks.rs).
CallbacksKept == []TimerCovers /\ HiddenThrottled /\ CallbackCalled(v1)
==============================================================================
