------------------------- MODULE SessionLockProofs -------------------------
(***************************************************************************)
(* Proofs about SessionLock, for any number of lock requests, failures and *)
(* VT switches.                                                            *)
(***************************************************************************)
EXTENDS SessionLock, TLAPS

\* The frames f and q in the two slots, with the lock p that waits and the
\* picture s on the screen and what the clients know. A lock frame was drawn under the lock it carries,
\* and no lock that is still to come has one; what is queued behind a frame of
\* the lock in force shows that lock, and so does everything from the screen
\* to the queue once it is confirmed.
Slots(f, q, p, s, known) ==
    /\ f \in Frame \cup {NoFrame} /\ q \in Frame \cup {NoFrame}
    /\ f.lock # NoLock => f.shows = f.lock /\ known[f.lock] # "new"
    /\ q.lock # NoLock => q.shows = q.lock /\ known[q.lock] # "new"
    /\ f = NoFrame => q = NoFrame
    /\ locked /\ f.lock = holder => q = NoFrame \/ q.shows = holder
    /\ locked /\ p = NoLock => /\ s = holder
                               /\ f = NoFrame \/ f.shows = holder
                               /\ q = NoFrame \/ q.shows = holder

\* What the clients know of the lock in force.
Clients ==
    /\ locked => holder \in Locks /\ client[holder] # "new"
    /\ pending # NoLock => locked /\ pending = holder
    /\ \A l \in Locks : client[l] \in {"waiting", "locked"} => locked /\ holder = l
    /\ \A l \in Locks : client[l] = "waiting" => pending = l
    /\ \A l \in Locks : client[l] = "locked" => pending = NoLock

\* The strengthening of the type invariant, of LockedScreen and NeverAsleep.
LockInv == TypeOK /\ Clients /\ Slots(flip, queued, pending, screen, client) /\ NeverAsleep

-----------------------------------------------------------------------------
(* The pacer's functions stay within its type. *)

LEMMA ScheduledType ==
    ASSUME NEW p \in Pacer, NEW due \in {1, 2}
    PROVE  Scheduled(p, due) \in Pacer
BY DEF Scheduled, Pacer, Wakeups, NoWakeup

LEMMA PacerTypes ==
    ASSUME NEW p \in Pacer, NEW b \in BOOLEAN
    PROVE  /\ NewPacer \in Pacer
           /\ KeptAwake(p, b) \in Pacer
           /\ FrameQueued(p) \in Pacer
           /\ FramePresented(p) \in Pacer
           /\ Forced(p) \in Pacer
           /\ Requested(p, b) \in Pacer
           /\ Started(p) \in Pacer
           /\ Deferred(p) \in Pacer
<1>1. NewPacer \in Pacer
  BY DEF NewPacer, Pacer, Wakeups, NoWakeup, Ages
<1>2. KeptAwake(p, b) \in Pacer
  <2>1. [p EXCEPT !.redraw = TRUE] \in Pacer
    BY DEF Pacer
  <2> QED BY <2>1, ScheduledType DEF KeptAwake
<1>3. FrameQueued(p) \in Pacer
  <2>1. [p EXCEPT !.frame = TRUE] \in Pacer
    BY DEF Pacer
  <2> QED BY <2>1, ScheduledType DEF FrameQueued
<1>4. FramePresented(p) \in Pacer
  <2>1. 1 \in Ages /\ NoWakeup \in Wakeups
    BY DEF Ages, Wakeups
  <2> QED BY <2>1 DEF FramePresented, Pacer
<1>5. Forced(p) \in Pacer
  <2>1. SUFFICES ASSUME NEW q \in Pacer PROVE [q EXCEPT !.redraw = TRUE] \in Pacer
    BY <1>4 DEF Forced
  <2> QED BY DEF Pacer
<1>6. Requested(p, b) \in Pacer
  <2>1. ASSUME NEW c \in BOOLEAN PROVE [p EXCEPT !.redraw = c] \in Pacer
    BY DEF Pacer
  <2>2. (p.redraw \/ b) \in BOOLEAN
    OBVIOUS
  <2>3. Requested(p, b) = [p EXCEPT !.redraw = p.redraw \/ b]
    BY Zenon DEF Requested
  <2> QED BY <2>1, <2>2, <2>3, Zenon
<1>7. Started(p) \in Pacer
  <2>1. 0 \in Ages /\ NoWakeup \in Wakeups
    BY DEF Ages, Wakeups
  <2>2. [p EXCEPT !.frame = FALSE, !.wakeup = NoWakeup] \in Pacer
    BY <2>1 DEF Pacer
  <2>3. Started(p) = [[p EXCEPT !.frame = FALSE, !.wakeup = NoWakeup] EXCEPT !.redraw = FALSE, !.age = 0]
    BY DEF Started, Pacer
  <2> QED BY <2>1, <2>2, <2>3 DEF Pacer
<1>8. Deferred(p) \in Pacer
  <2>1. Abandoned(p) \in Pacer
    BY DEF Abandoned, Pacer
  <2> QED BY <2>1, ScheduledType DEF Deferred
<1> QED BY <1>1, <1>2, <1>3, <1>4, <1>5, <1>6, <1>7, <1>8

\* A pacer may sleep when nothing is left to do or a timer is armed.
Rested(p) == p.redraw \/ p.frame => p.wakeup # NoWakeup

LEMMA ScheduledRested ==
    ASSUME NEW p \in Pacer, NEW due \in {1, 2}
    PROVE  /\ Scheduled(p, due).wakeup # NoWakeup
           /\ Rested(Scheduled(p, due))
BY DEF Scheduled, Rested, Pacer, Wakeups, NoWakeup

LEMMA PacerRests ==
    ASSUME NEW p \in Pacer, NEW b \in BOOLEAN
    PROVE  /\ Rested(KeptAwake(p, TRUE))
           /\ Rested(KeptAwake(Started(p), b))
           /\ Rested(KeptAwake(FrameQueued(p), b))
           /\ ~Due(p) => Rested(Deferred(p))
<1>1. Rested(KeptAwake(p, TRUE))
  <2>1. [p EXCEPT !.redraw = TRUE] \in Pacer
    BY DEF Pacer
  <2> QED BY <2>1, ScheduledRested DEF KeptAwake
<1>2. Rested(KeptAwake(Started(p), b))
  <2>1. Started(p) \in Pacer
    BY PacerTypes
  <2>2. [Started(p) EXCEPT !.redraw = TRUE] \in Pacer
    <3>1. SUFFICES ASSUME NEW q \in Pacer PROVE [q EXCEPT !.redraw = TRUE] \in Pacer
      BY <2>1
    <3> QED BY DEF Pacer
  <2>3. ~Started(p).redraw /\ ~Started(p).frame
    BY DEF Started, Pacer
  <2>4. CASE b
    BY <2>2, <2>4, ScheduledRested DEF KeptAwake
  <2>5. CASE ~b
    BY <2>3, <2>5 DEF KeptAwake, Rested
  <2> QED BY <2>4, <2>5
<1>3. Rested(KeptAwake(FrameQueued(p), b))
  <2>1. FrameQueued(p) \in Pacer
    BY PacerTypes
  <2>2. Rested(FrameQueued(p))
    <3>1. [p EXCEPT !.frame = TRUE] \in Pacer
      BY DEF Pacer
    <3> QED BY <3>1, ScheduledRested DEF FrameQueued
  <2>3. [FrameQueued(p) EXCEPT !.redraw = TRUE] \in Pacer
    <3>1. SUFFICES ASSUME NEW q \in Pacer PROVE [q EXCEPT !.redraw = TRUE] \in Pacer
      BY <2>1
    <3> QED BY DEF Pacer
  <2>4. CASE b
    BY <2>3, <2>4, ScheduledRested DEF KeptAwake
  <2>5. CASE ~b
    BY <2>2, <2>5 DEF KeptAwake
  <2> QED BY <2>4, <2>5
<1>4. ASSUME ~Due(p) PROVE Rested(Deferred(p))
  <2>1. Abandoned(p) \in Pacer /\ ~Abandoned(p).frame /\ Abandoned(p).redraw = p.redraw
    BY DEF Abandoned, Pacer
  <2>2. CASE Awaited(p)
    BY <2>2, ScheduledRested DEF Deferred
  <2>3. CASE ~Awaited(p) /\ p.redraw
    BY <2>1, <2>3, ScheduledRested DEF Deferred
  <2>4. CASE ~Awaited(p) /\ ~p.redraw
    BY <2>1, <2>4 DEF Deferred, Rested
  <2> QED BY <2>2, <2>3, <2>4
<1> QED BY <1>1, <1>2, <1>3, <1>4
-----------------------------------------------------------------------------
(* What dispatch_redraw can do to the output. *)

Outputs == [pacer : Pacer, flip : Frame \cup {NoFrame}, queued : Frame \cup {NoFrame},
            stale : BOOLEAN, failures : 0..MaxFailures]

\* Between two outputs at most one frame was added, as the flip or behind it.
Extends(o, next, frame) ==
    \/ next.flip = o.flip /\ next.queued = o.queued
    \/ o.flip = NoFrame /\ next.flip = frame /\ next.queued = o.queued
    \/ o.flip # NoFrame /\ next.flip = o.flip /\ next.queued = frame

LEMMA OutputUpdates ==
    ASSUME NEW o \in Outputs, NEW p \in Pacer, NEW b \in BOOLEAN
    PROVE  /\ [o EXCEPT !.pacer = p] \in Outputs
           /\ [o EXCEPT !.stale = b, !.pacer = p] \in Outputs
           /\ CanFail(o) => Failed(o) \in Outputs
<1>1. [o EXCEPT !.pacer = p] \in Outputs
  BY DEF Outputs
<1>2. [o EXCEPT !.stale = b, !.pacer = p] \in Outputs
  BY DEF Outputs
<1>3. ASSUME CanFail(o) PROVE Failed(o) \in Outputs
  <2>1. o.failures + 1 \in 0..MaxFailures
    BY <1>3, BoundsAssumption DEF CanFail, Outputs
  <2>2. ASSUME NEW n \in 0..MaxFailures PROVE [o EXCEPT !.failures = n] \in Outputs
    BY DEF Outputs
  <2> QED BY <2>1, <2>2 DEF Failed
<1> QED BY <1>1, <1>2, <1>3

LEMMA OutputBecomes ==
    ASSUME NEW o \in Outputs, Becomes(o)
    PROVE  /\ pacer' \in Pacer
           /\ flip' \in Frame \cup {NoFrame} /\ queued' \in Frame \cup {NoFrame}
           /\ stale' \in BOOLEAN /\ failures' \in 0..MaxFailures
           /\ Output' = o
<1>1. /\ pacer' = o.pacer /\ flip' = o.flip /\ queued' = o.queued
      /\ stale' = o.stale /\ failures' = o.failures
  BY DEF Becomes
<1>2. o = [pacer |-> o.pacer, flip |-> o.flip, queued |-> o.queued, stale |-> o.stale,
           failures |-> o.failures]
  BY DEF Outputs
<1>3. Output' = o
  BY <1>1, <1>2 DEF Output
<1> QED BY <1>1, <1>3 DEF Outputs

LEMMA Rendered ==
    ASSUME NEW o \in Outputs, NEW p \in Pacer, o.pacer = Started(p),
           NEW lock \in Locks \cup {NoLock}, Shown \in Contents,
           drawn \in Contents, dirty \in BOOLEAN, Render(o, lock)
    PROVE  /\ Output' \in Outputs
           /\ drawn' \in Contents /\ dirty' \in BOOLEAN
           /\ Rested(pacer')
           /\ Extends(o, Output', [shows |-> Shown, lock |-> lock])
<1> DEFINE frame == [shows |-> Shown, lock |-> lock]
<1>1. frame \in Frame
  BY DEF Frame
<1>2. o.pacer \in Pacer
  BY DEF Outputs
<1>3. ASSUME NEW next \in Outputs, Becomes(next), next.flip = o.flip, next.queued = o.queued,
             Rested(next.pacer)
      PROVE  Output' \in Outputs /\ Rested(pacer') /\ Extends(o, Output', frame)
  <2>1. Output' = next
    BY <1>3, OutputBecomes
  <2> QED BY <2>1, <1>3 DEF Extends, Becomes
<1>4. ASSUME CanFail(o), NEW b \in BOOLEAN, NEW next, Becomes(next),
             next \in {[Failed(o) EXCEPT !.pacer = KeptAwake(@, TRUE)],
                       [Failed(o) EXCEPT !.stale = b, !.pacer = KeptAwake(@, TRUE)]}
      PROVE  Output' \in Outputs /\ Rested(pacer') /\ Extends(o, Output', frame)
  <2>1. Failed(o) \in Outputs
    BY <1>4, OutputUpdates, <1>2
  <2>2. Failed(o).flip = o.flip /\ Failed(o).queued = o.queued /\ Failed(o).pacer = o.pacer
    BY DEF Failed, Outputs
  <2>3. KeptAwake(o.pacer, TRUE) \in Pacer /\ Rested(KeptAwake(o.pacer, TRUE))
    BY <1>2, PacerTypes, PacerRests
  <2>4. next \in Outputs
    BY <1>4, <2>1, <2>2, <2>3, OutputUpdates
  <2>5. next.flip = o.flip /\ next.queued = o.queued /\ next.pacer = KeptAwake(o.pacer, TRUE)
    BY <1>4, <2>1, <2>2 DEF Outputs
  <2> QED BY <1>3, <1>4, <2>3, <2>4, <2>5
<1>5. CASE RenderFails(o)
  <2>1. drawn' \in Contents /\ dirty' \in BOOLEAN
    BY <1>5 DEF RenderFails
  <2> QED BY <1>4, <1>5, <2>1 DEF RenderFails
<1>6. ASSUME NEW animating \in BOOLEAN, drawn' = Shown, dirty' = animating, QueueFails(o, animating)
      PROVE  Output' \in Outputs /\ Rested(pacer') /\ Extends(o, Output', frame)
  BY <1>4, <1>6 DEF QueueFails
<1>7. ASSUME NEW animating \in BOOLEAN, RenderNothing(o, animating)
      PROVE  Output' \in Outputs /\ Rested(pacer') /\ Extends(o, Output', frame)
  <2>1. KeptAwake(o.pacer, animating) \in Pacer /\ Rested(KeptAwake(o.pacer, animating))
    BY <1>2, PacerTypes, PacerRests
  <2> DEFINE next == [o EXCEPT !.pacer = KeptAwake(o.pacer, animating)]
  <2>2. next \in Outputs
    BY <2>1, OutputUpdates
  <2>3. next.flip = o.flip /\ next.queued = o.queued /\ next.pacer = KeptAwake(o.pacer, animating)
    BY DEF Outputs
  <2>4. Becomes(next)
    BY <1>7 DEF RenderNothing
  <2> HIDE DEF next
  <2> QED BY <1>3, <2>1, <2>2, <2>3, <2>4
<1>8. ASSUME NEW animating \in BOOLEAN, RenderFrame(o, animating, lock)
      PROVE  Output' \in Outputs /\ Rested(pacer') /\ Extends(o, Output', frame)
  <2> DEFINE damaged == [o EXCEPT !.stale = FALSE]
             grown == Queue(damaged, frame)
             rest == KeptAwake(FrameQueued(o.pacer), animating)
             next == [grown EXCEPT !.pacer = rest]
  <2>1. rest \in Pacer /\ Rested(rest)
    BY <1>2, PacerTypes, PacerRests
  <2>2. /\ damaged \in Outputs /\ damaged.flip = o.flip /\ damaged.queued = o.queued
        /\ damaged.pacer = o.pacer
    BY DEF Outputs
  <2>3. /\ grown \in Outputs /\ grown.pacer = o.pacer
        /\ Extends(o, grown, frame)
    <3> HIDE DEF damaged
    <3>1. CASE o.flip = NoFrame
      BY <3>1, <2>2, <1>1 DEF Queue, Outputs, Extends
    <3>2. CASE o.flip # NoFrame
      BY <3>2, <2>2, <1>1 DEF Queue, Outputs, Extends
    <3> QED BY <3>1, <3>2
  <2> HIDE DEF grown
  <2>4. next \in Outputs /\ next.pacer = rest /\ next.flip = grown.flip /\ next.queued = grown.queued
    <3> HIDE DEF rest
    <3> QED BY <2>1, <2>3 DEF Outputs
  <2>5. Becomes(next)
    BY <1>8, <2>3 DEF RenderFrame, grown
  <2> HIDE DEF next, rest
  <2>6. Output' = next /\ pacer' = rest
    BY <2>4, <2>5, OutputBecomes DEF Becomes
  <2> QED BY <2>1, <2>3, <2>4, <2>6 DEF Extends
<1> QED BY <1>5, <1>6, <1>7, <1>8 DEF Render

LEMMA Dispatched ==
    ASSUME TypeOK, NEW o \in Outputs, NEW request \in BOOLEAN,
           NEW lock \in Locks \cup {NoLock}, Shown \in Contents,
           DispatchRedraw(o, request, lock)
    PROVE  /\ Output' \in Outputs
           /\ drawn' \in Contents /\ dirty' \in BOOLEAN /\ requested' \in BOOLEAN
           /\ active => ~requested' /\ Rested(pacer')
           /\ Extends(o, Output', [shows |-> Shown, lock |-> lock])
<1> DEFINE p == Requested(o.pacer, request)
           due == [o EXCEPT !.pacer = Started(p)]
           deferred == [o EXCEPT !.pacer = Deferred(p)]
<1>1. o.pacer \in Pacer
  BY DEF Outputs
<1>2. p \in Pacer
  BY <1>1, PacerTypes
<1>3. Started(p) \in Pacer /\ Deferred(p) \in Pacer
  BY <1>2, PacerTypes
<1>4. /\ due \in Outputs /\ due.pacer = Started(p)
      /\ due.flip = o.flip /\ due.queued = o.queued
  <2> HIDE DEF p
  <2> QED BY <1>3 DEF Outputs
<1>5. /\ deferred \in Outputs /\ deferred.pacer = Deferred(p)
      /\ deferred.flip = o.flip /\ deferred.queued = o.queued
  <2> HIDE DEF p
  <2> QED BY <1>3 DEF Outputs
<1> HIDE DEF p, due, deferred
<1>6. drawn \in Contents /\ dirty \in BOOLEAN
  BY DEF TypeOK
<1>7. CASE ~active
  <2>1. Becomes(o) /\ requested' = request /\ UNCHANGED <<drawn, dirty>>
    BY <1>7 DEF DispatchRedraw
  <2>2. Output' = o
    BY <2>1, OutputBecomes
  <2> QED BY <2>1, <2>2, <1>6, <1>7 DEF Extends
<1>8. CASE active /\ Due(p)
  <2>1. requested' = FALSE /\ Render(due, lock)
    BY <1>8 DEF DispatchRedraw, p, due
  <2>2. /\ Output' \in Outputs
        /\ drawn' \in Contents /\ dirty' \in BOOLEAN
        /\ Rested(pacer')
        /\ Extends(due, Output', [shows |-> Shown, lock |-> lock])
    BY <2>1, <1>2, <1>4, <1>6, Rendered
  <2> QED BY <2>1, <2>2, <1>4 DEF Extends
<1>9. CASE active /\ ~Due(p)
  <2>1. requested' = FALSE /\ Becomes(deferred) /\ UNCHANGED <<drawn, dirty>>
    BY <1>9 DEF DispatchRedraw, p, deferred
  <2>2. Output' = deferred /\ pacer' = Deferred(p)
    BY <2>1, <1>5, OutputBecomes DEF Becomes
  <2>3. Rested(Deferred(p))
    BY <1>2, <1>9, PacerRests
  <2> QED BY <2>1, <2>2, <2>3, <1>5, <1>6 DEF Extends
<1> QED BY <1>7, <1>8, <1>9

\* dispatch_redraw keeps the slots in order, whatever the handler did to them
\* and to the pending lock before.
LEMMA SlotsDispatched ==
    ASSUME Clients', NEW o \in Outputs, UNCHANGED <<locked, holder>>,
           Slots(o.flip, o.queued, pending', screen', client'),
           Extends(o, Output', [shows |-> Shown, lock |-> pending'])
    PROVE  Slots(flip, queued, pending, screen, client)'
<1> DEFINE frame == [shows |-> Shown, lock |-> pending']
<1>1. /\ o.flip \in Frame \cup {NoFrame} /\ o.queued \in Frame \cup {NoFrame}
      /\ Output'.flip = flip' /\ Output'.queued = queued'
  BY DEF Outputs, Output
<1>2. /\ frame \in Frame /\ frame # NoFrame
      /\ frame.lock # NoLock => frame.shows = frame.lock /\ client'[frame.lock] # "new"
      /\ locked => frame.shows = holder
  BY ContentAssumption DEF Clients, Frame, NoFrame, Shown, Contents
<1>3. CASE flip' = o.flip /\ queued' = o.queued
  BY <1>3 DEF Slots
<1>4. CASE o.flip = NoFrame /\ flip' = frame /\ queued' = o.queued
  BY <1>2, <1>4 DEF Slots, NoFrame
<1>5. CASE o.flip # NoFrame /\ flip' = o.flip /\ queued' = frame
  BY <1>2, <1>5 DEF Slots
<1> QED BY <1>1, <1>3, <1>4, <1>5 DEF Extends

-----------------------------------------------------------------------------
(* The invariant. *)

LEMMA InitInv == Init => LockInv
<1> SUFFICES ASSUME Init PROVE LockInv
  OBVIOUS
<1>1. NewPacer \in Pacer
  BY DEF NewPacer, Pacer, Ages, Wakeups, NoWakeup
<1>2. TypeOK
  <2>1. 0 \in 0..MaxFailures /\ 0 \in 0..MaxPauses
    BY BoundsAssumption
  <2>2. client \in [Locks -> {"new", "waiting", "locked", "rejected", "released", "gone"}]
    BY DEF Init
  <2>3. {flip, queued} \subseteq Frame \cup {NoFrame} /\ {drawn, screen} \subseteq Contents
    BY DEF Init, Contents
  <2>4. /\ locked \in BOOLEAN /\ holder \in Locks \cup {NoLock} /\ pending \in Locks \cup {NoLock}
        /\ {requested, dirty, active, stale, dispatching} \subseteq BOOLEAN
    BY DEF Init
  <2> QED BY <1>1, <2>1, <2>2, <2>3, <2>4 DEF Init, TypeOK
<1>3. Clients
  BY DEF Init, Clients
<1>4. Slots(flip, queued, pending, screen, client)
  BY ContentAssumption DEF Init, Slots, NoFrame
<1> QED BY <1>2, <1>3, <1>4 DEF Init, LockInv, NeverAsleep

LEMMA ShownContents ==
    ASSUME Clients
    PROVE  Shown \in Contents
BY DEF Clients, Shown, Contents

\* Every handler but the end of the iteration leaves the loop awake.
LEMMA StepInv ==
    ASSUME LockInv, [Next]_vars
    PROVE  LockInv'
<1> USE DEF LockInv
<1>1. Output \in Outputs
  BY DEF TypeOK, Outputs, Output, Slots
<1>2. pacer \in Pacer /\ client \in [Locks -> {"new", "waiting", "locked", "rejected", "released", "gone"}]
  BY DEF TypeOK
<1>3. ASSUME Output' \in Outputs
      PROVE  /\ pacer' \in Pacer /\ stale' \in BOOLEAN /\ failures' \in 0..MaxFailures
             /\ flip' \in Frame \cup {NoFrame} /\ queued' \in Frame \cup {NoFrame}
  BY <1>3 DEF Outputs, Output
<1>4. ASSUME UNCHANGED lockVars
      PROVE  Clients'
  BY <1>4 DEF Clients, lockVars
<1>5. ASSUME UNCHANGED <<lockVars, flip, queued, screen>>
      PROVE  Slots(flip, queued, pending, screen, client)'
  BY <1>5 DEF Slots, lockVars
<1>6. ASSUME Tick PROVE LockInv'
  <2> USE <1>6 DEF Tick
  <2>1. Clients'
    BY <1>4
  <2>2. /\ Output' \in Outputs
        /\ drawn' \in Contents /\ dirty' \in BOOLEAN /\ requested' \in BOOLEAN
        /\ active => ~requested' /\ Rested(pacer')
        /\ Extends(Output, Output', [shows |-> Shown, lock |-> pending])
    <3>1. requested \in BOOLEAN /\ pending \in Locks \cup {NoLock}
      BY DEF TypeOK
    <3>2. DispatchRedraw(Output, requested, pending)
      OBVIOUS
    <3> QED BY <1>1, <3>1, <3>2, ShownContents, Dispatched
  <2>3. TypeOK'
    BY <2>2, <1>3 DEF TypeOK, lockVars
  <2>4. Slots(flip, queued, pending, screen, client)'
    <3>1. Slots(Output.flip, Output.queued, pending', screen', client')
      BY DEF Output, lockVars
    <3>2. Extends(Output, Output', [shows |-> Shown, lock |-> pending'])
      BY <2>2 DEF lockVars
    <3>3. UNCHANGED <<locked, holder>>
      BY DEF lockVars
    <3> HIDE <1>6 DEF Tick
    <3> QED BY <1>1, <2>1, <3>1, <3>2, <3>3, SlotsDispatched
  <2>5. NeverAsleep'
    BY <2>2 DEF NeverAsleep, Rested
  <2> QED BY <2>1, <2>3, <2>4, <2>5
<1>7. ASSUME VBlank PROVE LockInv'
  <2> DEFINE o == [Output EXCEPT !.pacer = FramePresented(@), !.flip = queued, !.queued = NoFrame]
  <2>1. o \in Outputs /\ o.flip = queued /\ o.queued = NoFrame
    <3>1. Output.pacer = pacer /\ FramePresented(pacer) \in Pacer
      BY <1>2, PacerTypes DEF Output
    <3>2. queued \in Frame \cup {NoFrame}
      BY DEF Slots
    <3> QED BY <1>1, <3>1, <3>2 DEF Outputs
  <2>2. SessionLockFramePresented(flip.lock) /\ UNCHANGED <<locked, holder, active>>
    BY <1>7 DEF VBlank
  <2>3. /\ pending' \in Locks \cup {NoLock}
        /\ client' \in [Locks -> {"new", "waiting", "locked", "rejected", "released", "gone"}]
        /\ \A l \in Locks : client'[l] = client[l] \/ (client[l] = "waiting" /\ client'[l] = "locked" /\ pending = l)
    <3>1. CASE pending # NoLock /\ pending = flip.lock
      BY <1>2, <2>2, <3>1 DEF SessionLockFramePresented, TypeOK
    <3>2. CASE ~(pending # NoLock /\ pending = flip.lock)
      BY <1>2, <2>2, <3>2 DEF SessionLockFramePresented, TypeOK
    <3> QED BY <3>1, <3>2
  <2>4. ASSUME pending # NoLock /\ pending = flip.lock
        PROVE  Clients' /\ Slots(o.flip, o.queued, pending', screen', client')
    <3>1. /\ pending' = NoLock /\ locked /\ holder = flip.lock /\ holder \in Locks
          /\ client' = [client EXCEPT ![holder] = IF @ = "waiting" THEN "locked" ELSE @]
      BY <2>2, <2>4 DEF SessionLockFramePresented, Clients
    <3>2. Clients'
      BY <1>2, <2>2, <3>1 DEF Clients
    <3>3. Slots(o.flip, o.queued, pending', screen', client')
      <4>1. screen' = flip.shows /\ flip.shows = holder
        BY <1>7, <3>1, ContentAssumption DEF VBlank, Slots
      <4>2. queued = NoFrame \/ queued.shows = holder
        BY <3>1 DEF Slots
      <4>3. queued.lock # NoLock => queued.shows = queued.lock /\ client'[queued.lock] # "new"
        BY <1>2, <3>1, ContentAssumption DEF Slots, Frame, NoFrame
      <4> HIDE DEF o
      <4> QED BY <2>1, <3>1, <4>1, <4>2, <4>3 DEF Slots, NoFrame
    <3> HIDE DEF o
    <3> QED BY <3>2, <3>3
  <2>5. ASSUME ~(pending # NoLock /\ pending = flip.lock)
        PROVE  Clients' /\ Slots(o.flip, o.queued, pending', screen', client')
    <3>1. pending' = pending /\ client' = client
      BY <2>2, <2>5 DEF SessionLockFramePresented
    <3>2. Clients'
      BY <2>2, <3>1 DEF Clients
    <3>3. Slots(o.flip, o.queued, pending', screen', client')
      <4>1. screen' = flip.shows /\ flip # NoFrame
        BY <1>7 DEF VBlank
      <4> HIDE DEF o
      <4> QED BY <2>1, <3>1, <4>1 DEF Slots, NoFrame
    <3> HIDE DEF o
    <3> QED BY <3>2, <3>3
  <2>6. Clients' /\ Slots(o.flip, o.queued, pending', screen', client')
    <3> HIDE DEF o
    <3> QED BY <2>4, <2>5
  <2>7. /\ Output' \in Outputs
        /\ drawn' \in Contents /\ dirty' \in BOOLEAN /\ requested' \in BOOLEAN
        /\ Extends(o, Output', [shows |-> Shown, lock |-> pending'])
    <3>1. requested \in BOOLEAN
      BY DEF TypeOK
    <3>2. DispatchRedraw(o, requested, pending')
      BY <1>7 DEF VBlank
    <3> HIDE DEF o
    <3> QED BY <2>1, <2>3, <3>1, <3>2, ShownContents, Dispatched
  <2> HIDE DEF o
  <2>8. Slots(flip, queued, pending, screen, client)'
    BY <2>1, <2>2, <2>6, <2>7, SlotsDispatched
  <2>9. TypeOK'
    <3>1. screen' \in Contents /\ dispatching' = TRUE /\ pauses' = pauses
      BY <1>7 DEF VBlank, Slots, Frame
    <3> QED BY <2>2, <2>3, <2>7, <3>1, <1>3 DEF TypeOK
  <2>10. NeverAsleep'
    BY <1>7 DEF VBlank, NeverAsleep
  <2> QED BY <2>6, <2>8, <2>9, <2>10
<1>8. ASSUME VBlankSubmitFails PROVE LockInv'
  <2> DEFINE failed == IF active THEN Failed(Output) ELSE Output
             o == [failed EXCEPT !.pacer = FramePresented(@), !.flip = NoFrame,
                                 !.queued = NoFrame, !.stale = TRUE]
  <2>1. UNCHANGED <<lockVars, active, pauses>> /\ screen' = flip.shows /\ dispatching' = TRUE
    BY <1>8 DEF VBlankSubmitFails
  <2>2. failed \in Outputs
    <3>1. active => CanFail(Output)
      BY <1>8 DEF VBlankSubmitFails
    <3> QED BY <1>1, <1>2, <3>1, OutputUpdates
  <2>3. o \in Outputs /\ o.flip = NoFrame /\ o.queued = NoFrame
    <3> HIDE DEF failed
    <3>1. FramePresented(failed.pacer) \in Pacer
      BY <2>2, PacerTypes DEF Outputs
    <3> QED BY <2>2, <3>1 DEF Outputs
  <2>4. Clients'
    BY <1>4, <2>1
  <2>5. Slots(o.flip, o.queued, pending', screen', client')
    <3>1. flip # NoFrame
      BY <1>8 DEF VBlankSubmitFails
    <3> HIDE DEF o
    <3> QED BY <2>1, <2>3, <3>1 DEF Slots, NoFrame, lockVars
  <2>6. /\ Output' \in Outputs
        /\ drawn' \in Contents /\ dirty' \in BOOLEAN /\ requested' \in BOOLEAN
        /\ Extends(o, Output', [shows |-> Shown, lock |-> pending])
    <3>1. pending \in Locks \cup {NoLock}
      BY DEF TypeOK
    <3>2. DispatchRedraw(o, TRUE, pending)
      BY <1>8 DEF VBlankSubmitFails
    <3> HIDE DEF o
    <3> QED BY <2>3, <3>1, <3>2, ShownContents, Dispatched
  <2> HIDE DEF o
  <2>7. Slots(flip, queued, pending, screen, client)'
    BY <2>1, <2>3, <2>4, <2>5, <2>6, SlotsDispatched DEF lockVars
  <2>8. TypeOK'
    <3>1. screen' \in Contents
      BY <1>8 DEF VBlankSubmitFails, Slots, Frame
    <3> QED BY <2>1, <2>6, <3>1, <1>3 DEF TypeOK, lockVars
  <2>9. NeverAsleep'
    BY <2>1 DEF NeverAsleep
  <2> QED BY <2>4, <2>7, <2>8, <2>9
<1>9. ASSUME Pause PROVE LockInv'
  <2>1. FramePresented(pacer) \in Pacer
    BY <1>2, PacerTypes
  <2>2. pauses' \in 0..MaxPauses
    BY <1>9, BoundsAssumption DEF Pause, TypeOK
  <2>3. TypeOK'
    BY <1>9, <2>1, <2>2 DEF Pause, TypeOK, lockVars
  <2>4. Slots(flip, queued, pending, screen, client)'
    BY <1>9 DEF Pause, Slots, NoFrame, lockVars
  <2>5. Clients'
    BY <1>4, <1>9 DEF Pause
  <2> QED BY <1>9, <2>3, <2>4, <2>5 DEF Pause, NeverAsleep
<1>10. ASSUME Resume PROVE LockInv'
  <2>1. Forced(pacer) \in Pacer
    BY <1>2, PacerTypes
  <2>2. TypeOK'
    BY <1>10, <2>1 DEF Resume, TypeOK, lockVars, boundVars
  <2> QED BY <1>4, <1>5, <1>10, <2>2 DEF Resume, NeverAsleep
<1>11. ASSUME SwitchMode PROVE LockInv'
  <2>1. NewPacer \in Pacer
    BY <1>2, PacerTypes
  <2>2. TypeOK'
    BY <1>11, <2>1 DEF SwitchMode, TypeOK, lockVars, boundVars
  <2> QED BY <1>4, <1>5, <1>11, <2>2 DEF SwitchMode, NeverAsleep
<1>12. ASSUME TimerFires PROVE LockInv'
  <2>1. [pacer EXCEPT !.wakeup = NoWakeup] \in Pacer
    BY <1>2 DEF Pacer, Wakeups
  <2>2. TypeOK'
    BY <1>12, <2>1 DEF TimerFires, TypeOK, lockVars, boundVars
  <2> QED BY <1>4, <1>5, <1>12, <2>2 DEF TimerFires, NeverAsleep
<1>13. ASSUME Elapse PROVE LockInv'
  <2>1. pacer.age + 1 \in Ages
    BY <1>2, <1>13 DEF Elapse, Pacer, Ages
  <2>2. /\ pacer' \in Pacer
        /\ pacer'.redraw = pacer.redraw /\ pacer'.frame = pacer.frame
        /\ pacer'.wakeup = pacer.wakeup
    BY <1>2, <1>13, <2>1 DEF Elapse, Pacer
  <2>3. TypeOK'
    BY <1>13, <2>2 DEF Elapse, TypeOK, lockVars, boundVars
  <2>4. NeverAsleep'
    BY <1>13, <2>2 DEF Elapse, NeverAsleep
  <2> QED BY <1>4, <1>5, <1>13, <2>3, <2>4 DEF Elapse
<1>14. ASSUME Commit PROVE LockInv'
  <2>1. TypeOK'
    BY <1>14 DEF Commit, TypeOK, lockVars, boundVars
  <2> QED BY <1>4, <1>5, <1>14, <2>1 DEF Commit, NeverAsleep
<1>15. ASSUME NEW l \in Locks, Lock(l) PROVE LockInv'
  <2>1. CASE locked
    <3>1. client' = [client EXCEPT ![l] = "rejected"] /\ UNCHANGED <<locked, holder, pending, requested>>
      BY <1>15, <2>1 DEF Lock
    <3>2. TypeOK'
      BY <1>15, <3>1, <1>2 DEF Lock, TypeOK, boundVars
    <3>3. Clients'
      BY <1>2, <1>15, <3>1 DEF Lock, Clients
    <3>4. Slots(flip, queued, pending, screen, client)'
      BY <1>2, <1>15, <3>1, ContentAssumption DEF Lock, Slots, Frame, NoFrame
    <3> QED BY <1>15, <3>2, <3>3, <3>4 DEF Lock, NeverAsleep
  <2>2. CASE ~locked
    <3>1. /\ client' = [client EXCEPT ![l] = "waiting"]
          /\ locked' = TRUE /\ holder' = l /\ pending' = l /\ requested' = TRUE
      BY <1>15, <2>2 DEF Lock
    <3>2. TypeOK'
      BY <1>15, <3>1, <1>2 DEF Lock, TypeOK, boundVars
    <3>3. Clients'
      BY <1>2, <1>15, <2>2, <3>1, ContentAssumption DEF Lock, Clients
    <3>4. Slots(flip, queued, pending, screen, client)'
      <4>1. l # NoLock /\ flip.lock # l /\ queued.lock # l
        BY <1>15, ContentAssumption DEF Lock, Slots
      <4> QED BY <1>2, <1>15, <3>1, <4>1, ContentAssumption DEF Lock, Slots, Frame, NoFrame
    <3> QED BY <1>15, <3>2, <3>3, <3>4 DEF Lock, NeverAsleep
  <2> QED BY <2>1, <2>2
<1>16. ASSUME NEW l \in Locks, Unlock(l) PROVE LockInv'
  <2> USE <1>16 DEF Unlock
  <2>1. TypeOK'
    BY <1>2 DEF TypeOK, boundVars
  <2>2. Clients'
    BY <1>2 DEF Clients
  <2>3. Slots(flip, queued, pending, screen, client)'
    BY <1>2, ContentAssumption DEF Slots, Frame, NoFrame
  <2> QED BY <2>1, <2>2, <2>3 DEF NeverAsleep
<1>17. ASSUME NEW l \in Locks, LockerGone(l) PROVE LockInv'
  <2> USE <1>17 DEF LockerGone
  <2>1. TypeOK'
    BY <1>2 DEF TypeOK, boundVars, outputVars
  <2>2. Clients'
    BY <1>2 DEF Clients
  <2>3. Slots(flip, queued, pending, screen, client)'
    BY <1>2, ContentAssumption DEF Slots, Frame, NoFrame, outputVars
  <2> QED BY <2>1, <2>2, <2>3 DEF NeverAsleep
<1>18. ASSUME UNCHANGED vars PROVE LockInv'
  BY <1>4, <1>5, <1>18 DEF vars, lockVars, outputVars, boundVars, TypeOK, NeverAsleep
<1> QED BY <1>6, <1>7, <1>8, <1>9, <1>10, <1>11, <1>12, <1>13, <1>14, <1>15, <1>16, <1>17, <1>18
        DEF Next, Present

\* The inductive invariant holds in every behaviour of the session lock.
THEOREM Invariance == Spec => []LockInv
<1>1. LockInv /\ [Next]_vars => LockInv'
  BY StepInv
<1> QED BY InitInv, <1>1, PTL DEF Spec

\* The variables keep their types.
THEOREM LockTypes == Spec => []TypeOK
<1>1. LockInv => TypeOK
  BY DEF LockInv
<1> QED BY Invariance, <1>1, PTL

\* What the client was told about the lock is what the screen shows, for any
\* number of locks, failures and VT switches.
THEOREM LockedScreenHolds == Spec => []LockedScreen
<1>1. LockInv => LockedScreen
  BY DEF LockInv, Slots, LockedScreen
<1> QED BY Invariance, <1>1, PTL

\* The event loop keeps a wake-up for whatever is left to do.
THEOREM WakeupsKept == Spec => []NeverAsleep
<1>1. LockInv => NeverAsleep
  BY DEF LockInv
<1> QED BY Invariance, <1>1, PTL

\* Only the client that holds the confirmed lock unlocks the session.
THEOREM HolderUnlocks == Spec => OnlyHolderUnlocks
<1>1. ASSUME LockInv, [Next]_vars
      PROVE  [locked /\ ~locked' => client[holder] = "locked" /\ client'[holder] = "released"]_vars
  <2> SUFFICES ASSUME Next, locked, ~locked'
               PROVE  client[holder] = "locked" /\ client'[holder] = "released"
    BY <1>1
  <2>1. PICK l \in Locks : Unlock(l)
    BY DEF Next, Tick, Present, VBlank, VBlankSubmitFails, Pause, Resume, SwitchMode, TimerFires,
           Elapse, Commit, Lock, LockerGone, lockVars
  <2>2. holder = l
    BY <1>1, <2>1 DEF LockInv, Clients, Unlock
  <2> QED BY <1>1, <2>1, <2>2 DEF LockInv, TypeOK, Unlock
<1> QED BY Invariance, <1>1, PTL DEF Spec, OnlyHolderUnlocks
=============================================================================
