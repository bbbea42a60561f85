--------------------------- MODULE EventQueueView ---------------------------
(***************************************************************************)
(* The event queue between a publisher and a consumer that keeps the last  *)
(* value it saw of every key and refreshes it from a snapshot on a reset.  *)
(* Events are numbered in the order of publication; "latest" is what a     *)
(* snapshot would contain and "view" what the consumer knows.              *)
(***************************************************************************)
EXTENDS EventQueue

CONSTANT MaxPublished   \* bound on the number of publications

\* Publications are numbered from 1.
ASSUME IdsAssumption == MaxPublished \in Nat /\ 1..MaxPublished \subseteq Ids

VARIABLES latest, view, published

ghosts == <<latest, view, published>>
viewVars == <<queueVars, ghosts>>

ViewInit ==
    /\ Init
    /\ latest = [k \in Keys |-> 0]
    /\ view = [k \in Keys |-> 0]
    /\ published = <<latest>>

\* The values of a publication: what each key was when it was made.
Publish(key, size) ==
    /\ Len(published) <= MaxPublished
    /\ LET id == Len(published)
       IN  /\ Send([key |-> key, id |-> id, size |-> size])
           /\ latest' = IF key = Lifecycle THEN latest ELSE [latest EXCEPT ![key] = id]
           /\ published' = Append(published, latest')
           /\ UNCHANGED view

\* The consumer records an update, and refreshes its view on a reset.
ConsumeEvent ==
    /\ RecvEvent
    /\ view' = IF Head(events).key = Lifecycle THEN view
               ELSE [view EXCEPT ![Head(events).key] = Head(events).id]
    /\ UNCHANGED <<latest, published>>

ConsumeReset ==
    /\ RecvReset
    /\ view' = latest
    /\ UNCHANGED <<latest, published>>

ViewNext ==
    \/ \E key \in Keys \cup {Lifecycle}, size \in Sizes : Publish(key, size)
    \/ ConsumeEvent
    \/ ConsumeReset
    \/ (Reset \/ CloseProducer \/ RecvNothing \/ Await \/ CloseReceiver) /\ UNCHANGED ghosts

ViewSpec == ViewInit /\ [][ViewNext]_viewVars

-----------------------------------------------------------------------------
(* Properties. *)

\* The view after the first n events of the backlog.
Replay(n) ==
    [k \in Keys |->
        LET updates == {i \in 1..n : events[i].key = k}
        IN  IF updates = {} THEN view[k] ELSE events[Max(updates)].id]

\* Coalescing loses nothing a consumer could tell: by the time a lifecycle
\* event is received the view is exactly what had been published before it,
\* and the whole backlog brings the view up to date, in publication order.
\* Only a pending reset, which refreshes the view, excuses a gap.
CoalescingExact ==
    ~resetPending /\ ~receiverClosed =>
        /\ Replay(Len(events)) = latest
        /\ \A i \in DOMAIN events :
              /\ events[i].key = Lifecycle => Replay(i - 1) = published[events[i].id]
              /\ \A j \in 1..i - 1 : events[j].id < events[i].id

\* The byte count is that of the backlog: additions and subtractions in send,
\* reset and recv never drift apart (the count is unsigned, and one that
\* drifts would wrap or refuse events for ever).
BytesExact == bytes = FoldLeft(LAMBDA sum, e : sum + e.size, 0, events)
=============================================================================
