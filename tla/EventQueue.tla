----------------------------- MODULE EventQueue -----------------------------
(***************************************************************************)
(* The bounded event queue of blair-integration (events.rs): one producer  *)
(* handle, one asynchronous receiver, a buffer behind a mutex and a Notify *)
(* that stores at most one permit.                                         *)
(*                                                                         *)
(* Updates (title, app id, geometry, work area) carry a key; a later       *)
(* update replaces an earlier one of its key unless a lifecycle event lies *)
(* between them. On overflow the backlog is dropped and a reset takes its  *)
(* place.                                                                  *)
(***************************************************************************)
EXTENDS Naturals, SequencesExt

CONSTANTS
    Keys,           \* keys of coalescing updates
    Lifecycle,      \* the "key" of events that have none
    Ids,            \* what tells two events apart
    Sizes,          \* retained bytes of an event
    EventCapacity, EventBytes, MaxEventBytes

ASSUME KeysAssumption == Lifecycle \notin Keys
ASSUME SizesAssumption == Sizes \subseteq Nat
ASSUME LimitsAssumption == /\ EventCapacity \in Nat \ {0}
                           /\ EventBytes \in Nat
                           /\ MaxEventBytes \in Nat

VARIABLES
    events,         \* Buffer.events, oldest first
    bytes,          \* Buffer.bytes
    resetPending,   \* Buffer.reset_pending
    producerClosed, \* Buffer.producer_closed
    receiverClosed, \* Buffer.receiver_closed
    permit,         \* the permit stored in Shared.ready
    receiver        \* recv(): "running", "await" (found nothing), "parked", "ended"

buffer == <<events, bytes, resetPending, producerClosed, receiverClosed>>
queueVars == <<buffer, permit, receiver>>

Event == [key : Keys \cup {Lifecycle}, id : Ids, size : Sizes]

\* The type invariant.
TypeOK ==
    /\ events \in Seq(Event)
    /\ bytes \in Nat
    /\ resetPending \in BOOLEAN
    /\ producerClosed \in BOOLEAN
    /\ receiverClosed \in BOOLEAN
    /\ permit \in BOOLEAN
    /\ receiver \in {"running", "await", "parked", "ended"}

Init ==
    /\ events = <<>>
    /\ bytes = 0
    /\ resetPending = FALSE
    /\ producerClosed = FALSE
    /\ receiverClosed = FALSE
    /\ permit = FALSE
    /\ receiver = "running"

\* Mutant of Notify: only a parked receiver is told, no permit is kept.
NotifyParked == IF receiver = "parked"
                THEN receiver' = "running" /\ UNCHANGED permit
                ELSE UNCHANGED <<receiver, permit>>

\* Notify::notify_one: a parked receiver runs, otherwise the permit is kept.
Notify == IF receiver = "parked"
          THEN receiver' = "running" /\ UNCHANGED permit
          ELSE permit' = TRUE /\ UNCHANGED receiver

-----------------------------------------------------------------------------
(* Producer. *)

\* Mutant of Superseded: lifecycle events are no barrier.
SupersededAnywhere(e) == {i \in DOMAIN events : e.key # Lifecycle /\ events[i].key = e.key}

\* The queued update an event supersedes: of the same key, with no lifecycle
\* event after it.
Superseded(e) ==
    {i \in DOMAIN events :
        /\ e.key # Lifecycle
        /\ events[i].key = e.key
        /\ \A j \in i..Len(events) : events[j].key # Lifecycle}

\* Mutant of KeptBytes: the bytes of the superseded update stay counted.
KeptBytesLeak(e) == bytes

\* The backlog and its bytes once the superseded update, if any, is removed.
Kept(e) == IF Superseded(e) = {} THEN events ELSE RemoveAt(events, Max(Superseded(e)))
KeptBytes(e) == IF Superseded(e) = {} THEN bytes ELSE bytes - events[Max(Superseded(e))].size

\* Mutant of Overflows: only the bytes are limited.
OverflowsBytes(e) == e.size > MaxEventBytes \/ KeptBytes(e) + e.size > EventBytes

Overflows(e) ==
    \/ e.size > MaxEventBytes
    \/ KeptBytes(e) + e.size > EventBytes
    \/ Len(Kept(e)) = EventCapacity

\* EventSender::send on an open queue with no reset pending.
SendQueued(e) ==
    /\ ~receiverClosed /\ ~resetPending
    /\ ~Overflows(e)
    /\ events' = Append(Kept(e), e)
    /\ bytes' = KeptBytes(e) + e.size
    /\ UNCHANGED <<resetPending, producerClosed, receiverClosed>>
    /\ Notify

\* send overflows: the backlog is discarded and a reset takes its place.
SendReset(e) ==
    /\ ~receiverClosed /\ ~resetPending
    /\ Overflows(e)
    /\ events' = <<>>
    /\ bytes' = 0
    /\ resetPending' = TRUE
    /\ UNCHANGED <<producerClosed, receiverClosed>>
    /\ Notify

\* send while a reset is pending, or to a receiver that is gone.
SendDropped == /\ receiverClosed \/ resetPending
               /\ UNCHANGED queueVars

Send(e) == /\ ~producerClosed
           /\ SendQueued(e) \/ SendReset(e) \/ SendDropped

\* EventSender::reset.
Reset ==
    /\ ~producerClosed
    /\ IF receiverClosed
       THEN UNCHANGED queueVars
       ELSE /\ events' = <<>>
            /\ bytes' = 0
            /\ resetPending' = TRUE
            /\ UNCHANGED <<producerClosed, receiverClosed>>
            /\ Notify

\* The last EventSender is dropped.
CloseProducer ==
    /\ ~producerClosed
    /\ producerClosed' = TRUE
    /\ UNCHANGED <<events, bytes, resetPending, receiverClosed>>
    /\ Notify

-----------------------------------------------------------------------------
(* Receiver: one iteration of the loop of recv(), and its wait. *)

RecvReset ==
    /\ receiver = "running" /\ ~receiverClosed
    /\ resetPending
    /\ resetPending' = FALSE
    /\ UNCHANGED <<events, bytes, producerClosed, receiverClosed, permit, receiver>>

RecvEvent ==
    /\ receiver = "running" /\ ~receiverClosed
    /\ ~resetPending /\ events # <<>>
    /\ events' = Tail(events)
    /\ bytes' = bytes - Head(events).size
    /\ UNCHANGED <<resetPending, producerClosed, receiverClosed, permit, receiver>>

\* Nothing to take: the end of the stream, or the receiver goes to wait.
RecvNothing ==
    /\ receiver = "running" /\ ~receiverClosed
    /\ ~resetPending /\ events = <<>>
    /\ receiver' = IF producerClosed THEN "ended" ELSE "await"
    /\ UNCHANGED <<buffer, permit>>

\* notified.await takes the stored permit or parks the receiver.
Await ==
    /\ receiver = "await"
    /\ receiver' = IF permit THEN "running" ELSE "parked"
    /\ permit' = FALSE
    /\ UNCHANGED buffer

\* EventReceiver::drop.
CloseReceiver ==
    /\ ~receiverClosed
    /\ receiverClosed' = TRUE
    /\ events' = <<>>
    /\ bytes' = 0
    /\ resetPending' = FALSE
    /\ UNCHANGED <<producerClosed, permit, receiver>>

Next ==
    \/ \E e \in Event : Send(e)
    \/ Reset
    \/ CloseProducer
    \/ RecvReset \/ RecvEvent \/ RecvNothing \/ Await
    \/ CloseReceiver

Spec == Init /\ [][Next]_queueVars

-----------------------------------------------------------------------------
(* Properties of the queue by itself. *)

\* The backlog stays within its capacity and its byte budget, a pending reset
\* stands alone, and nothing is retained for a receiver that is gone.
Bounded ==
    /\ Len(events) <= EventCapacity
    /\ bytes <= EventBytes
    /\ resetPending \/ receiverClosed => events = <<>>
    /\ resetPending => ~receiverClosed

\* A receiver never sleeps through something to receive: when it is parked
\* there is nothing, and when it is about to park the permit will stop it.
NoLostWakeup ==
    LET Something == events # <<>> \/ resetPending \/ producerClosed
    IN  Something => receiver # "parked" /\ (receiver = "await" => permit)
=============================================================================
