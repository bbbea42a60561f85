----------------------------- MODULE Screenshots -----------------------------
(***************************************************************************)
(* Screenshots over D-Bus: a request reserves its part of a budget, waits  *)
(* for the event loop to capture its output, and is encoded by a thread    *)
(* behind a bounded queue (screenshot.rs, backend/mod.rs).  The loop and   *)
(* the thread interleave; everything either of them drops unfinished is    *)
(* answered with a failure and gives its reservation back.                 *)
(***************************************************************************)
EXTENDS Integers, Sequences, FiniteSets, FiniteSetsExt, SequencesExt, Retaining
CONSTANTS Shots,                      \* requests, each made at most once
          Screens, ScreenModes,       \* outputs, and their sizes in bytes of pixels
          MaxRequests, MaxCaptureBytes       \* the limits of the budget
ASSUME ShotsAssumption ==
  /\ IsFiniteSet(Shots)
  /\ MaxRequests \in Nat \ {0} /\ MaxCaptureBytes \in Nat
  /\ ScreenModes \subseteq Nat \ {0}     \* rgba_bytes refuses empty sizes

VARIABLES
  shots,      \* each request: where it is, what it is for, its reservation, its reply
  spent,      \* the budget: requests and bytes reserved
  waiting,    \* requests the loop has yet to capture, in order
  jobs,       \* the job of the encoder and its queue
  lost,       \* jobs a dead encoder has left to be dropped
  encoder,    \* "none", "idle", "busy", "panics", or "gone" until the loop notices
  modes       \* the current mode of each output
shotVars == <<shots, spent, waiting, jobs, lost, encoder, modes>>

NoReply == "none"
Holding(r) == shots[r].held > 0

ScreenshotsInit ==
  /\ shots = [r \in Shots |-> [made |-> FALSE, screen |-> CHOOSE o \in Screens : TRUE, size |-> 0,
                               held |-> 0, reply |-> NoReply]]
  /\ spent = [requests |-> 0, bytes |-> 0]
  /\ waiting = <<>> /\ jobs = <<>> /\ lost = <<>> /\ encoder = "none"
  /\ modes \in [Screens -> ScreenModes]
------------------------------------------------------------------------------
Released(budget, bytes) == [requests |-> budget.requests - 1, bytes |-> budget.bytes - bytes]

\* One request too many.
FitsOneMore(budget, bytes) == budget.requests <= MaxRequests /\ bytes <= MaxCaptureBytes - budget.bytes

Fits(budget, bytes) == budget.requests < MaxRequests /\ bytes <= MaxCaptureBytes - budget.bytes

\* On the loop a dropped request is answered and releases its reservation
\* before anything else happens there.
Drop(r) ==
  /\ shots' = [shots EXCEPT ![r].reply = "failed", ![r].held = 0]
  /\ spent' = Released(spent, shots[r].held)

\* Denied by policy, or there is no such output or mode, or no budget.
Refuse(r) ==
  /\ ~shots[r].made
  /\ shots' = [shots EXCEPT ![r].made = TRUE, ![r].reply = "failed"]
  /\ UNCHANGED <<spent, waiting, jobs, lost, encoder, modes>>

RequestShot(r, o) ==
  /\ ~shots[r].made
  /\ Fits(spent, modes[o])
  /\ shots' = [shots EXCEPT ![r] = [made |-> TRUE, screen |-> o, size |-> modes[o], held |-> modes[o],
                                    reply |-> NoReply]]
  /\ spent' = [requests |-> spent.requests + 1, bytes |-> spent.bytes + modes[o]]
  /\ waiting' = Append(waiting, r)
  /\ UNCHANGED <<jobs, lost, encoder, modes>>

ChangeScreenMode(o) ==
  /\ \E mode \in ScreenModes \ {modes[o]} : modes' = [modes EXCEPT ![o] = mode]
  /\ UNCHANGED <<shots, spent, waiting, jobs, lost, encoder>>

Queued == Len(jobs) - (IF encoder \in {"busy", "panics"} THEN 1 ELSE 0)

NextFor(o) == Retained(waiting, {r \in Shots : shots[r].screen = o})

\* A request whose output has changed would wait for the old mode to return.
ProcessLater(o) ==
  /\ NextFor(o) # <<>>
  /\ LET r == Head(NextFor(o)) IN
     /\ shots[r].size = modes[o]
     /\ waiting' = Retained(waiting, Shots \ {r})
     /\ encoder # "gone" /\ Queued < MaxRequests
     /\ jobs' = Append(jobs, r)
     /\ encoder' = IF encoder = "none" THEN "idle" ELSE encoder
     /\ UNCHANGED <<shots, spent>>
  /\ UNCHANGED <<lost, modes>>

\* No thread to encode it, or no room in its queue, drops the request.
Submit(r) ==
  CASE encoder = "gone" -> Drop(r) /\ encoder' = "none" /\ UNCHANGED jobs
    [] encoder # "gone" /\ Queued >= MaxRequests -> Drop(r) /\ UNCHANGED <<jobs, encoder>>
    [] OTHER -> /\ jobs' = Append(jobs, r)
                /\ encoder' = IF encoder = "none" THEN "idle" ELSE encoder
                /\ UNCHANGED <<shots, spent>>

\* A capture that fails or returns the wrong number of bytes drops it too.
\* The requests for an output are taken one after the other, while the thread
\* runs.
ProcessScreenshots(o) ==
  /\ NextFor(o) # <<>>
  /\ LET r == Head(NextFor(o)) IN
     /\ waiting' = Retained(waiting, Shots \ {r})
     /\ \/ Drop(r) /\ UNCHANGED <<jobs, encoder>>
        \/ shots[r].size = modes[o] /\ Submit(r)
  /\ UNCHANGED <<lost, modes>>
------------------------------------------------------------------------------
Encode ==
  /\ encoder = "idle" /\ jobs # <<>>
  /\ encoder' \in {"busy", "panics"}
  /\ UNCHANGED <<shots, spent, waiting, jobs, lost, modes>>

AnswerShot(r, reply) == shots' = [shots EXCEPT ![r].reply = reply] /\ UNCHANGED spent
GiveBack(r) == shots' = [shots EXCEPT ![r].held = 0] /\ spent' = Released(spent, shots[r].held)

Worked(finishing) ==
  /\ jobs' = IF finishing THEN Tail(jobs) ELSE jobs
  /\ encoder' = IF finishing THEN "idle" ELSE "busy"
  /\ UNCHANGED <<waiting, lost, modes>>

\* The thread would answer first, as it does when it panics.
FinishEncodingAfter ==
  /\ encoder = "busy"
  /\ LET r == Head(jobs) IN
     /\ IF shots[r].reply = NoReply THEN \E reply \in {"written", "failed"} : AnswerShot(r, reply) ELSE GiveBack(r)
     /\ Worked(shots[r].reply # NoReply)

\* First the reservation is given back, then the reply is sent.
FinishEncoding ==
  /\ encoder = "busy"
  /\ LET r == Head(jobs) IN
     /\ IF Holding(r) THEN GiveBack(r) ELSE \E reply \in {"written", "failed"} : AnswerShot(r, reply)
     /\ Worked(~Holding(r))

\* Unwinding drops the job and then the queue, each reply before its reservation.
Dropping(r) == IF shots[r].reply = NoReply THEN AnswerShot(r, "failed") ELSE GiveBack(r)

Unwind ==
  /\ encoder = "panics"
  /\ LET r == Head(jobs) IN
     /\ Dropping(r)
     /\ IF shots[r].reply = NoReply THEN UNCHANGED <<jobs, lost, encoder>>
        ELSE encoder' = "gone" /\ jobs' = <<>> /\ lost' = lost \o Tail(jobs)
  /\ UNCHANGED <<waiting, modes>>

DropLost ==
  /\ lost # <<>>
  /\ Dropping(Head(lost))
  /\ lost' = IF shots[Head(lost)].reply = NoReply THEN lost ELSE Tail(lost)
  /\ UNCHANGED <<waiting, jobs, encoder, modes>>

ScreenshotsNext ==
  \/ \E r \in Shots : Refuse(r) \/ \E o \in Screens : RequestShot(r, o)
  \/ \E o \in Screens : ChangeScreenMode(o) \/ ProcessScreenshots(o)
  \/ Encode \/ FinishEncoding \/ Unwind \/ DropLost

\* The loop visits every output in each of its iterations; the scheduler runs
\* the thread.
ScreenshotsFairness ==
  /\ \A o \in Screens : WF_shotVars(ProcessScreenshots(o))
  /\ WF_shotVars(Encode \/ FinishEncoding \/ Unwind) /\ WF_shotVars(DropLost)
ScreenshotsSpec == ScreenshotsInit /\ [][ScreenshotsNext]_shotVars /\ ScreenshotsFairness
------------------------------------------------------------------------------
\* The budget is what the requests in flight hold, within its limits, however
\* requests were dropped, encoded or lost with the thread; the queue of the
\* encoder is never longer than it may be.
BudgetExact ==
  /\ spent.requests = Cardinality({r \in Shots : Holding(r)})
  /\ spent.bytes = SumFunction([r \in Shots |-> shots[r].held])
  /\ spent.requests <= MaxRequests /\ spent.bytes <= MaxCaptureBytes
  /\ Queued <= MaxRequests

\* A client that has been told its screenshot was written finds the budget of
\* that screenshot free when it asks for the next one.
ReplyMeansRoom == \A r \in Shots : shots[r].reply = "written" => ~Holding(r)

\* Every request is answered, also when the mode changes, a capture fails or
\* the thread panics with others still in its queue, and nothing stays held.
AnsweredAndFree(r) == shots[r].reply # NoReply /\ ~Holding(r)
ShotsAnswered == \A r \in Shots : shots[r].made ~> AnsweredAndFree(r)
==============================================================================
