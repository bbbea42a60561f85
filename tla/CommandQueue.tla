---------------------------- MODULE CommandQueue ----------------------------
(***************************************************************************)
(* The way of a D-Bus request to the compositor: the service thread admits *)
(* it (command.rs, interface.rs), the compositor thread executes a batch   *)
(* at each wake-up (dispatch_batch), and the reply goes back. The monitor  *)
(* of the service thread (server.rs) sends the one command that may not be *)
(* refused, the cleanup after a client that left the bus. The service      *)
(* thread ends with the compositor, or by itself when the bus is lost.     *)
(*                                                                         *)
(* A client has one request under way; "bind" leaves something registered  *)
(* in its name, "unbind" removes it without a reply, "wait" is answered    *)
(* after its execution, as a screenshot is. Tasks of the service thread    *)
(* interleave only where they await.                                       *)
(***************************************************************************)
EXTENDS Integers, SequencesExt, FiniteSetsExt

CONSTANTS
    Clients,        \* unique bus names
    Requests,       \* what a client may ask, and its size in bytes
    Capacity,       \* COMMAND_CAPACITY
    Memory,         \* COMMAND_BYTES
    MaxBytes,       \* MAX_COMMAND_BYTES
    Notice,         \* bytes of a ClientDisconnected
    Batch,          \* COMMAND_BATCH
    MaxPending      \* pending replies of CompositorInterface

ASSUME QueueAssumption ==
    /\ IsFiniteSet(Clients)
    /\ {Capacity, Memory, MaxBytes, Notice, Batch, MaxPending} \subseteq Nat \ {0}
    /\ Notice <= MaxBytes /\ MaxBytes <= Memory
    /\ Requests \subseteq [kind : {"ask", "bind", "unbind", "wait"}, bytes : Nat \ {0}]

VARIABLES
    left,       \* clients that left the bus
    notices,    \* NameOwnerChanged signals not handled yet
    call,       \* the request of each client
    queue,      \* the channel to the compositor
    memory,     \* free bytes
    slots,      \* free places of the channel
    pending,    \* permits of the interface
    waking,     \* the service thread has sent and will wake the compositor
    monitor,    \* send_control of the disconnect monitor
    woken,      \* the compositor's wake-up is set
    draining,   \* dispatch_batch runs
    batch,      \* commands it may still take
    bound,      \* clients with something registered
    cleaned,    \* clients whose cleanup was executed
    closed,     \* the compositor dropped its end
    serving     \* the service thread runs

service == <<pending, waking, serving>>
loop == <<woken, draining, batch, closed>>
vars == <<left, notices, call, queue, memory, slots, pending, waking, monitor,
          woken, draining, batch, bound, cleaned, closed, serving>>

None == [phase |-> "none", kind |-> "ask", bytes |-> 0]
Idle == [phase |-> "idle", who |-> "nobody", need |-> 0]
Stopped == [Idle EXCEPT !.phase = "stopped"]
Command(kind, c, bytes) == [kind |-> kind, who |-> c, bytes |-> bytes]

\* What the monitor holds while it awaits.
HeldBytes == CASE monitor.phase = "memory" -> Notice - monitor.need
               [] monitor.phase \in {"slot", "push"} -> Notice
               [] OTHER -> 0
HeldSlots == IF monitor.phase = "push" THEN 1 ELSE 0

BytesOf(q) == FoldLeft(LAMBDA sum, e : sum + e.bytes, 0, q)
QueuedBytes == BytesOf(queue)

Init ==
    /\ left = {} /\ notices = <<>>
    /\ call = [c \in Clients |-> None]
    /\ queue = <<>> /\ memory = Memory /\ slots = Capacity
    /\ pending = MaxPending /\ waking = FALSE /\ monitor = Idle
    /\ woken = FALSE /\ draining = FALSE /\ batch = 0
    /\ bound = {} /\ cleaned = {}
    /\ closed = FALSE /\ serving = TRUE

-----------------------------------------------------------------------------
(* The service thread. *)

\* A request arrives; a task of its own will handle it.
Receive(c) ==
    /\ serving /\ c \notin left /\ call[c].phase = "none"
    /\ \E r \in Requests :
          call' = [call EXCEPT ![c] = [phase |-> "received", kind |-> r.kind, bytes |-> r.bytes]]
    /\ UNCHANGED <<left, notices, queue, memory, slots, monitor, bound, cleaned, service, loop>>

Leave(c) ==
    /\ c \notin left
    /\ left' = left \cup {c}
    /\ notices' = Append(notices, c)
    /\ UNCHANGED <<call, queue, memory, slots, monitor, bound, cleaned, service, loop>>

Push(e) ==
    /\ queue' = Append(queue, e)
    /\ waking' = TRUE

\* call asks for a permit before send; unbind_shortcut and the like only send.
Replies(c) == call[c].kind # "unbind"
Admitted(c) ==
    /\ Replies(c) => pending > 0
    /\ call[c].bytes <= MaxBytes /\ call[c].bytes <= memory
    /\ slots > 0 /\ ~closed

\* Mutant of Handle: a request refused by the channel keeps its bytes.
HandleLeaks(c) ==
    /\ serving /\ ~waking /\ call[c].phase = "received"
    /\ IF Admitted(c)
       THEN /\ Push(Command(call[c].kind, c, call[c].bytes))
            /\ memory' = memory - call[c].bytes
            /\ slots' = slots - 1
            /\ pending' = IF Replies(c) THEN pending - 1 ELSE pending
            /\ call' = [call EXCEPT ![c] = IF Replies(c) THEN [None EXCEPT !.phase = "sent"] ELSE None]
       ELSE /\ call' = [call EXCEPT ![c] = None]
            /\ memory' = IF call[c].bytes <= Min({memory, MaxBytes}) THEN memory - call[c].bytes ELSE memory
            /\ UNCHANGED <<queue, slots, pending, waking>>
    /\ UNCHANGED <<left, notices, monitor, bound, cleaned, serving, loop>>

\* CompositorInterface::call up to its await; a request that is not admitted
\* is answered with an error.
Handle(c) ==
    /\ serving /\ ~waking /\ call[c].phase = "received"
    /\ IF Admitted(c)
       THEN /\ Push(Command(call[c].kind, c, call[c].bytes))
            /\ memory' = memory - call[c].bytes
            /\ slots' = slots - 1
            /\ pending' = IF Replies(c) THEN pending - 1 ELSE pending
            /\ call' = [call EXCEPT ![c] = IF Replies(c) THEN [None EXCEPT !.phase = "sent"] ELSE None]
       ELSE call' = [call EXCEPT ![c] = None] /\ UNCHANGED <<queue, memory, slots, pending, waking>>
    /\ UNCHANGED <<left, notices, monitor, bound, cleaned, serving, loop>>

Wake ==
    /\ serving /\ waking
    /\ waking' = FALSE /\ woken' = TRUE
    /\ UNCHANGED <<left, notices, call, queue, memory, slots, pending, monitor, draining, batch,
                   bound, cleaned, closed, serving>>

\* The reply, or its loss, resumes the task.
Finish(c) ==
    /\ serving /\ ~waking /\ call[c].phase \in {"done", "dropped"}
    /\ call' = [call EXCEPT ![c] = None]
    /\ pending' = pending + 1
    /\ UNCHANGED <<left, notices, queue, memory, slots, monitor, waking, bound, cleaned, serving, loop>>

\* Mutant of MonitorTakes: the cleanup is sent like any other request.
MonitorTries ==
    /\ serving /\ ~waking /\ monitor.phase = "idle" /\ notices # <<>>
    /\ notices' = Tail(notices)
    /\ IF memory < Notice \/ slots = 0 \/ closed THEN UNCHANGED <<monitor, memory>>
       ELSE /\ monitor' = [phase |-> "memory", who |-> Head(notices), need |-> 0]
            /\ memory' = memory - Notice
    /\ UNCHANGED <<left, call, queue, slots, bound, cleaned, service, loop>>

\* The monitor takes what memory there is and waits for the rest.
MonitorTakes ==
    /\ serving /\ ~waking /\ monitor.phase = "idle" /\ notices # <<>>
    /\ LET got == Min({memory, Notice}) IN
       /\ monitor' = [phase |-> "memory", who |-> Head(notices), need |-> Notice - got]
       /\ memory' = memory - got
    /\ notices' = Tail(notices)
    /\ UNCHANGED <<left, call, queue, slots, bound, cleaned, service, loop>>

MonitorReserves ==
    /\ serving /\ ~waking /\ ~closed
    /\ monitor.phase = "memory" /\ monitor.need = 0
    /\ monitor' = [monitor EXCEPT !.phase = IF slots > 0 THEN "push" ELSE "slot"]
    /\ slots' = IF slots > 0 THEN slots - 1 ELSE slots
    /\ UNCHANGED <<left, notices, call, queue, memory, bound, cleaned, service, loop>>

MonitorPushes ==
    /\ serving /\ ~waking /\ ~closed /\ monitor.phase = "push"
    /\ Push(Command("gone", monitor.who, Notice))
    /\ monitor' = Idle
    /\ UNCHANGED <<left, notices, call, memory, slots, pending, bound, cleaned, serving, loop>>

\* The monitor is dropped with what it holds; what it has not sent yet is lost.
MonitorDropped ==
    /\ monitor' = Stopped
    /\ memory' = memory + HeldBytes /\ slots' = slots + HeldSlots

\* An event cannot be emitted, or the connection to the bus closes: run_connection
\* shuts the monitors down, whether the compositor goes on or not.
Disconnect ==
    /\ serving /\ ~waking /\ monitor # Stopped
    /\ MonitorDropped
    /\ UNCHANGED <<left, notices, call, queue, bound, cleaned, service, loop>>

\* run_connection is over, or stopped.closed() was first: the tasks are dropped with
\* the runtime. What they sent stays in the queue.
ServiceEnds ==
    /\ serving /\ ~waking /\ (closed \/ monitor = Stopped)
    /\ serving' = FALSE
    /\ call' = [c \in Clients |-> None] /\ pending' = MaxPending
    /\ MonitorDropped
    /\ UNCHANGED <<left, notices, queue, waking, bound, cleaned, loop>>

-----------------------------------------------------------------------------
(* The compositor thread. *)

\* The ping is cleared before the queue is looked at.
Dispatch ==
    /\ ~closed /\ woken /\ ~draining
    /\ woken' = FALSE /\ draining' = TRUE /\ batch' = Batch
    /\ UNCHANGED <<left, notices, call, queue, memory, slots, monitor, bound, cleaned, closed, service>>

\* A reply goes to the task that awaits it, unless the service has ended.
Execute(e) ==
    /\ bound' = IF e.kind = "bind" THEN bound \cup {e.who}
                ELSE IF e.kind \in {"unbind", "gone"} THEN bound \ {e.who} ELSE bound
    /\ cleaned' = IF e.kind = "gone" THEN cleaned \cup {e.who} ELSE cleaned
    /\ call' = IF ~serving THEN call
               ELSE IF e.kind \in {"ask", "bind"} THEN [call EXCEPT ![e.who].phase = "done"]
               ELSE IF e.kind = "wait" THEN [call EXCEPT ![e.who].phase = "deferred"]
               ELSE call

\* Bytes and a place come free; a waiting monitor gets them first.
Freed(bytes, places) ==
    LET got == IF monitor.phase = "memory" THEN Min({bytes, monitor.need}) ELSE 0
        granted == monitor.phase = "slot" /\ places > 0
    IN  /\ memory' = memory + bytes - got
        /\ slots' = IF granted THEN slots + places - 1 ELSE slots + places
        /\ monitor' = [monitor EXCEPT !.need = @ - got, !.phase = IF granted THEN "push" ELSE @]

\* One command of the batch; it may use up the time slice.
Take ==
    /\ ~closed /\ draining /\ batch > 0 /\ queue # <<>>
    /\ Freed(Head(queue).bytes, 1)
    /\ queue' = Tail(queue)
    /\ Execute(Head(queue))
    /\ batch' \in {batch - 1, 0}
    /\ UNCHANGED <<left, notices, woken, draining, closed, service>>

\* Mutant of BatchEnds: what is left in the queue waits for the next request.
BatchEndsQuietly ==
    /\ ~closed /\ draining /\ (batch = 0 \/ queue = <<>>)
    /\ draining' = FALSE /\ batch' = 0
    /\ UNCHANGED <<left, notices, call, queue, memory, slots, monitor, woken, bound, cleaned,
                   closed, service>>

BatchEnds ==
    /\ ~closed /\ draining /\ (batch = 0 \/ queue = <<>>)
    /\ draining' = FALSE /\ batch' = 0
    /\ woken' = (woken \/ queue # <<>>)
    /\ UNCHANGED <<left, notices, call, queue, memory, slots, monitor, bound, cleaned, closed, service>>

\* A screenshot is written, a display mode applied.
Answer(c) ==
    /\ ~closed /\ call[c].phase = "deferred"
    /\ call' = [call EXCEPT ![c].phase = "done"]
    /\ UNCHANGED <<left, notices, queue, memory, slots, monitor, bound, cleaned, service, loop>>

\* The compositor exits: the queue and the reply senders are dropped.
Stop ==
    /\ ~closed /\ ~draining
    /\ closed' = TRUE
    /\ Freed(QueuedBytes, 0)
    /\ queue' = <<>>
    /\ call' = [c \in Clients |-> IF call[c].phase \in {"sent", "deferred"}
                                  THEN [call[c] EXCEPT !.phase = "dropped"] ELSE call[c]]
    /\ UNCHANGED <<left, notices, woken, draining, batch, bound, cleaned, service>>

Monitor == MonitorTakes \/ MonitorReserves \/ MonitorPushes
Compositor == Dispatch \/ Take \/ BatchEnds

Next ==
    \/ \E c \in Clients : Receive(c) \/ Leave(c) \/ Handle(c) \/ Finish(c) \/ Answer(c)
    \/ Wake \/ Monitor \/ Disconnect \/ ServiceEnds
    \/ Compositor \/ Stop

\* The executor of the service polls every ready task in turn, also when others
\* are ready again and again; the event loop serves its wake-up. Requests,
\* clients that leave, a bus that is lost and the exit are not forced.
Fairness ==
    /\ WF_vars(Wake) /\ SF_vars(Monitor) /\ WF_vars(ServiceEnds)
    /\ WF_vars(Compositor)
    /\ \A c \in Clients : SF_vars(Handle(c)) /\ SF_vars(Finish(c)) /\ WF_vars(Answer(c))

Spec == Init /\ [][Next]_vars /\ Fairness

-----------------------------------------------------------------------------
(* Properties. *)

\* The type invariant; no permit count goes below zero.
TypeOK ==
    /\ left \subseteq Clients /\ notices \in Seq(Clients)
    /\ call \in [Clients -> [phase : {"none", "received", "sent", "deferred", "done", "dropped"},
                             kind : {"ask", "bind", "unbind", "wait"}, bytes : Nat]]
    /\ queue \in Seq([kind : {"ask", "bind", "unbind", "wait", "gone"}, who : Clients, bytes : 1..MaxBytes])
    /\ memory \in 0..Memory /\ slots \in 0..Capacity /\ pending \in 0..MaxPending
    /\ {waking, woken, draining, closed, serving} \subseteq BOOLEAN
    /\ monitor \in [phase : {"idle", "memory", "slot", "push", "stopped"}, who : Clients \cup {"nobody"}, need : 0..Notice]
    /\ batch \in 0..Batch /\ bound \subseteq Clients /\ cleaned \subseteq Clients

BytesConserved == memory + QueuedBytes + HeldBytes = Memory
PlacesConserved == ~closed => slots + Len(queue) + HeldSlots = Capacity
Busy == {c \in Clients : call[c].phase \in {"sent", "deferred", "done", "dropped"}}
PermitsConserved == pending + Cardinality(Busy) = MaxPending

\* Bytes, places and pending permits are never lost or made up, whether a
\* request is refused, executed, answered late or dropped by the exit.
Conserved == BytesConserved /\ PlacesConserved /\ PermitsConserved

\* The compositor never sleeps on a command.
NoLostWakeup == queue # <<>> /\ ~draining => woken \/ waking

\* Every request is answered, refused or dropped by the exit of the compositor or
\* the end of the service, and its pending permit comes back.
CallsEnd == \A c \in Clients : call[c].phase = "received" ~> call[c].phase = "none"

\* The bus was lost before the monitor had sent the cleanup after a client.
Abandoned(c) ==
    monitor = Stopped /\ ~\E i \in DOMAIN queue : queue[i].kind = "gone" /\ queue[i].who = c

\* The cleanup after a client is executed although other clients keep the
\* queue full and it may have to wait for bytes and for a place; once it is
\* queued, even if the service ends. Only what the monitor has not sent when
\* the bus is lost is never done.
CleanupRuns == \A c \in Clients : c \in left ~> c \in cleaned \/ closed \/ Abandoned(c)

\* What a client registered goes with it (interface.rs: "a process-owned
\* temporary rule").
OwnedByLiving == cleaned \cap bound = {}
=============================================================================
