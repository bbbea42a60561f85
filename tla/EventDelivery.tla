--------------------------- MODULE EventDelivery ---------------------------
(***************************************************************************)
(* Compositor events on their way to one client subscription: the queue of *)
(* the bus service (backend.rs, server.rs), the signals on the bus, the    *)
(* subscription task and its queue, and the consumer (client/events.rs).   *)
(* Both queues are instances of EventQueue. Publications are numbered;     *)
(* "latest" is what a snapshot taken from the compositor would contain.    *)
(***************************************************************************)
EXTENDS Naturals, SequencesExt

CONSTANTS
    Keys, Lifecycle,
    ServiceCapacity,    \* capacity of the queue of the bus service
    ClientCapacity,     \* capacity of the queue of the subscription
    SignalBound,        \* bound on the signals in flight
    MaxPublished        \* bound on the number of publications

ASSUME DeliveryAssumption == Lifecycle \notin Keys

VARIABLES
    \* the queue of the bus service
    svcEvents, svcBytes, svcReset, svcProducerClosed, svcReceiverClosed, svcPermit, svcReceiver,
    \* the queue of the subscription
    subEvents, subBytes, subReset, subProducerClosed, subReceiverClosed, subPermit, subReceiver,
    signals,    \* signals in flight: events and EventsReset
    serviceUp,  \* the bus name of the compositor has its owner
    task,       \* the subscription task: "running", "set", "reset", "drop", "done"
    reason,     \* the reason the task left its loop
    error,      \* the OnceLock shared with the consumer
    reported,   \* the error next_result returned ("none" while the stream is live)
    view, latest, published

Ids == 0..MaxPublished

Service == INSTANCE EventQueue WITH
    events <- svcEvents, bytes <- svcBytes, resetPending <- svcReset,
    producerClosed <- svcProducerClosed, receiverClosed <- svcReceiverClosed,
    permit <- svcPermit, receiver <- svcReceiver,
    EventCapacity <- ServiceCapacity, Sizes <- {0}, EventBytes <- 0, MaxEventBytes <- 0

Client == INSTANCE EventQueue WITH
    events <- subEvents, bytes <- subBytes, resetPending <- subReset,
    producerClosed <- subProducerClosed, receiverClosed <- subReceiverClosed,
    permit <- subPermit, receiver <- subReceiver,
    EventCapacity <- ClientCapacity, Sizes <- {0}, EventBytes <- 0, MaxEventBytes <- 0

svcVars == <<svcEvents, svcBytes, svcReset, svcProducerClosed, svcReceiverClosed, svcPermit, svcReceiver>>
subVars == <<subEvents, subBytes, subReset, subProducerClosed, subReceiverClosed, subPermit, subReceiver>>
linkVars == <<signals, serviceUp>>
taskVars == <<task, reason>>
consumerVars == <<reported, view>>
snapshotVars == <<latest, published>>
deliveryVars == <<svcVars, subVars, linkVars, taskVars, error, consumerVars, snapshotVars>>

Errors == {"Overflow", "Reset", "Disconnected"}

\* The signal that tells subscribers a backlog was dropped.
EventsReset == [key |-> "EventsReset", id |-> 0, size |-> 0]

\* The type invariant.
DeliveryTypeOK ==
    /\ Service!TypeOK
    /\ Client!TypeOK
    /\ signals \in Seq(Service!Event \cup {EventsReset})
    /\ serviceUp \in BOOLEAN
    /\ task \in {"running", "set", "reset", "drop", "done"}
    /\ {reason, error, reported} \subseteq Errors \cup {"none"}
    /\ view \in [Keys -> Ids]
    /\ latest \in [Keys -> Ids]

DeliveryInit ==
    /\ Service!Init
    /\ Client!Init
    /\ signals = <<>>
    /\ serviceUp = TRUE
    /\ task = "running"
    /\ reason = "none" /\ error = "none" /\ reported = "none"
    /\ view = [k \in Keys |-> 0]
    /\ latest = [k \in Keys |-> 0]
    /\ published = <<latest>>

-----------------------------------------------------------------------------
(* The compositor and the bus service. *)

Publish(key) ==
    /\ serviceUp
    /\ Len(published) <= MaxPublished
    /\ Service!Send([key |-> key, id |-> Len(published), size |-> 0])
    /\ latest' = IF key = Lifecycle THEN latest ELSE [latest EXCEPT ![key] = Len(published)]
    /\ published' = Append(published, latest')
    /\ UNCHANGED <<subVars, linkVars, taskVars, error, consumerVars>>

\* forward_events hands an item to the bus as a signal.
ForwardEvent ==
    /\ serviceUp /\ Len(signals) < SignalBound
    /\ Service!RecvEvent
    /\ signals' = Append(signals, Head(svcEvents))
    /\ UNCHANGED <<subVars, serviceUp, taskVars, error, consumerVars, snapshotVars>>

\* Mutant of ForwardReset: the reset is taken but not announced on the bus.
ForwardResetSilently ==
    /\ serviceUp
    /\ Service!RecvReset
    /\ UNCHANGED <<subVars, linkVars, taskVars, error, consumerVars, snapshotVars>>

ForwardReset ==
    /\ serviceUp /\ Len(signals) < SignalBound
    /\ Service!RecvReset
    /\ signals' = Append(signals, EventsReset)
    /\ UNCHANGED <<subVars, serviceUp, taskVars, error, consumerVars, snapshotVars>>

ForwardIdle ==
    /\ serviceUp
    /\ Service!RecvNothing \/ Service!Await
    /\ UNCHANGED <<subVars, linkVars, taskVars, error, consumerVars, snapshotVars>>

\* The compositor exits or loses its bus connection.
ServiceLost ==
    /\ serviceUp
    /\ serviceUp' = FALSE
    /\ UNCHANGED <<svcVars, subVars, signals, taskVars, error, consumerVars, snapshotVars>>

-----------------------------------------------------------------------------
(* The subscription task. *)

LeaveTask(r) == task' = "set" /\ reason' = r

\* The select is biased: a dropped subscription, then the loss of the owner,
\* then the next signal.
TaskAbandoned ==
    /\ task = "running" /\ subReceiverClosed
    /\ task' = "drop"
    /\ UNCHANGED <<svcVars, subVars, linkVars, reason, error, consumerVars, snapshotVars>>

TaskOwnerLost ==
    /\ task = "running" /\ ~subReceiverClosed
    /\ ~serviceUp
    /\ LeaveTask("Disconnected")
    /\ UNCHANGED <<svcVars, subVars, linkVars, error, consumerVars, snapshotVars>>

\* Mutant of TaskSignal: EventsReset is skipped like an unknown signal.
TaskSignalSkipsReset ==
    /\ task = "running"
    /\ signals # <<>>
    /\ signals' = Tail(signals)
    /\ IF Head(signals) = EventsReset
       THEN UNCHANGED <<subVars, taskVars>>
       ELSE /\ Client!Send(Head(signals))
            /\ IF subReceiverClosed
               THEN task' = "drop" /\ UNCHANGED reason
               ELSE IF subReset' THEN LeaveTask("Overflow") ELSE UNCHANGED taskVars
    /\ UNCHANGED <<svcVars, serviceUp, error, consumerVars, snapshotVars>>

\* A signal the select took before it noticed the lost owner or subscription.
TaskSignal ==
    /\ task = "running"
    /\ signals # <<>>
    /\ signals' = Tail(signals)
    /\ IF Head(signals) = EventsReset
       THEN LeaveTask("Reset") /\ UNCHANGED subVars
       ELSE /\ Client!Send(Head(signals))
            /\ IF subReceiverClosed
               THEN task' = "drop" /\ UNCHANGED reason
               ELSE IF subReset' THEN LeaveTask("Overflow") ELSE UNCHANGED taskVars
    /\ UNCHANGED <<svcVars, serviceUp, error, consumerVars, snapshotVars>>

\* Mutant of TaskSetError: the reset is sent before the error is set.
TaskResetFirst ==
    /\ task = "set"
    /\ Client!Reset
    /\ task' = "reset"
    /\ UNCHANGED <<svcVars, linkVars, reason, error, consumerVars, snapshotVars>>

\* status.set(reason): a OnceLock keeps its first value.
TaskSetError ==
    /\ task = "set"
    /\ error' = IF error = "none" THEN reason ELSE error
    /\ task' = "reset"
    /\ UNCHANGED <<svcVars, subVars, linkVars, reason, consumerVars, snapshotVars>>

TaskReset ==
    /\ task = "reset"
    /\ Client!Reset
    /\ task' = "drop"
    /\ UNCHANGED <<svcVars, linkVars, reason, error, consumerVars, snapshotVars>>

\* The task returns and its sender is dropped.
TaskDrop ==
    /\ task = "drop"
    /\ Client!CloseProducer
    /\ task' = "done"
    /\ UNCHANGED <<svcVars, linkVars, reason, error, consumerVars, snapshotVars>>

\* The runtime drops the task at its await; nothing is reported.
TaskAborted ==
    /\ task = "running"
    /\ Client!CloseProducer
    /\ task' = "done"
    /\ UNCHANGED <<svcVars, linkVars, reason, error, consumerVars, snapshotVars>>

-----------------------------------------------------------------------------
(* The consumer: Events::next_result. *)

Live == reported = "none"

NextEvent ==
    /\ Live
    /\ Client!RecvEvent
    /\ view' = IF Head(subEvents).key = Lifecycle THEN view
               ELSE [view EXCEPT ![Head(subEvents).key] = Head(subEvents).id]
    /\ UNCHANGED <<svcVars, linkVars, taskVars, error, reported, snapshotVars>>

\* The stream ends with the error of the task, or with a fallback.
End(default) ==
    /\ error' = IF error = "none" THEN default ELSE error
    /\ reported' = error'
    /\ UNCHANGED <<svcVars, linkVars, taskVars, view, snapshotVars>>

NextReset == Live /\ Client!RecvReset /\ End("Overflow")

NextEnd == Live /\ Client!RecvNothing /\ subProducerClosed /\ End("Disconnected")

NextIdle ==
    /\ Live
    /\ (Client!RecvNothing /\ ~subProducerClosed) \/ Client!Await
    /\ UNCHANGED <<svcVars, linkVars, taskVars, error, consumerVars, snapshotVars>>

\* The consumer drops its subscription.
Unsubscribe ==
    /\ Client!CloseReceiver
    /\ UNCHANGED <<svcVars, linkVars, taskVars, error, consumerVars, snapshotVars>>

Forward == ForwardEvent \/ ForwardReset \/ ForwardIdle
Task == TaskAbandoned \/ TaskOwnerLost \/ TaskSignal \/ TaskSetError \/ TaskReset \/ TaskDrop
Consume == NextEvent \/ NextReset \/ NextEnd \/ NextIdle

DeliveryNext ==
    \/ \E key \in Keys \cup {Lifecycle} : Publish(key)
    \/ Forward \/ ServiceLost
    \/ Task \/ TaskAborted
    \/ Consume \/ Unsubscribe

\* The bus thread, the subscription task and the consumer keep being polled.
DeliverySpec == DeliveryInit /\ [][DeliveryNext]_deliveryVars /\ WF_deliveryVars(Forward) /\ WF_deliveryVars(Task) /\ WF_deliveryVars(Consume)

-----------------------------------------------------------------------------
(* Properties. *)

\* The view after the first n events waiting in the subscription.
Replay(n) ==
    [k \in Keys |->
        LET updates == {i \in 1..n : subEvents[i].key = k}
        IN  IF updates = {} THEN view[k] ELSE subEvents[Max(updates)].id]

\* End to end, a live subscription never shows a gap: when a lifecycle event
\* is delivered, the consumer knows everything published before it, although
\* two queues may have coalesced or dropped events on the way.
DeliveryExact ==
    Live /\ ~subReset =>
        \A i \in DOMAIN subEvents :
            subEvents[i].key = Lifecycle => Replay(i - 1) = published[subEvents[i].id]

\* The consumer is told why its stream ended: the reason of the subscription
\* task, never the fallback for another one (the error is set before the reset).
ReasonReported == reported # "none" /\ reason # "none" => reported = reason

\* A consumer that stays either catches up or learns that it has not.
CaughtUpOrFailed == view = latest \/ ~Live \/ subReceiverClosed
CatchesUpOrFails == []<>CaughtUpOrFailed
=============================================================================
