----------------------------- MODULE SessionLock -----------------------------
(***************************************************************************)
(* Session locking on the DRM backend: a lock is confirmed to its client   *)
(* only when a frame drawn under that lock has reached the screen          *)
(* (session_lock.rs, drm.rs). Frames travel through the two slots of the   *)
(* DrmCompositor: one flip in flight, one frame queued behind it. The      *)
(* display, the VT and the kernel are the environment.                     *)
(*                                                                         *)
(* What a frame shows is all that matters of it: the session, or the       *)
(* background and surfaces of one lock. Every lock gets a background of    *)
(* its own, so the first frame under a lock is damaged.                    *)
(***************************************************************************)
EXTENDS FramePacer, FiniteSets

CONSTANTS
    Locks,          \* lock objects clients create, each with one lock request
    NoLock,
    Session,        \* what a frame of the unlocked session shows
    MaxFailures,    \* bound on failed renders, queues and submissions
    MaxPauses       \* bound on VT switches

ASSUME ContentAssumption == /\ NoLock \notin Locks
                            /\ Session \notin Locks \cup {NoLock}
ASSUME BoundsAssumption == MaxFailures \in Nat /\ MaxPauses \in Nat

Contents == Locks \cup {Session}
Frame == [shows : Contents, lock : Locks \cup {NoLock}]
NoFrame == [shows |-> NoLock, lock |-> NoLock]

VARIABLES
    locked,         \* BlairState.session_locked
    holder,         \* the lock that engaged last; its client is session_lock_client
    pending,        \* the lock of pending_session_lock
    client,         \* what the client of each lock knows
    requested,      \* BlairState.redraw_requested
    dirty,          \* something changed that the next frame may show
    active,         \* DrmBackend.active
    pacer,          \* DrmBackend.pacer
    flip,           \* the frame whose vblank is awaited
    queued,         \* the frame queued behind it
    drawn,          \* what the last rendered frame shows
    stale,          \* the buffer ages were reset: the next frame is damaged
    screen,         \* what the last presented frame shows
    dispatching,    \* the event loop runs the end of its iteration
    failures, pauses

lockVars == <<locked, holder, pending, client>>
outputVars == <<pacer, flip, queued, drawn, stale, dirty, requested>>
boundVars == <<failures, pauses>>
vars == <<lockVars, outputVars, active, screen, dispatching, boundVars>>

\* The type invariant.
TypeOK ==
    /\ locked \in BOOLEAN
    /\ holder \in Locks \cup {NoLock}
    /\ pending \in Locks \cup {NoLock}
    /\ client \in [Locks -> {"new", "waiting", "locked", "rejected", "released", "gone"}]
    /\ pacer \in Pacer
    /\ {flip, queued} \subseteq Frame \cup {NoFrame}
    /\ {drawn, screen} \subseteq Contents
    /\ {requested, dirty, active, stale, dispatching} \subseteq BOOLEAN
    /\ failures \in 0..MaxFailures
    /\ pauses \in 0..MaxPauses

Init ==
    /\ locked = FALSE /\ holder = NoLock /\ pending = NoLock
    /\ client = [l \in Locks |-> "new"]
    /\ requested = TRUE /\ dirty = TRUE /\ active = TRUE
    /\ pacer = NewPacer
    /\ flip = NoFrame /\ queued = NoFrame
    /\ drawn = Session /\ stale = TRUE /\ screen = Session
    /\ dispatching = TRUE
    /\ failures = 0 /\ pauses = 0

-----------------------------------------------------------------------------
(* Rendering. The operators below take what the handler changed before it  *)
(* came to dispatch_redraw: o, the DrmBackend, and lock, the pending lock. *)

Output == [pacer |-> pacer, flip |-> flip, queued |-> queued, stale |-> stale,
           failures |-> failures]

\* The output after dispatch_redraw.
Becomes(o) == /\ pacer' = o.pacer /\ flip' = o.flip
              /\ queued' = o.queued /\ stale' = o.stale
              /\ failures' = o.failures

\* One more operation of the display has failed.
CanFail(o) == o.failures < MaxFailures
Failed(o) == [o EXCEPT !.failures = @ + 1]

\* What output_elements draws.
Shown == IF locked THEN holder ELSE Session

\* Whether the rendered frame differs from the one before it.
Damage(o) == IF o.stale \/ drawn # Shown THEN {TRUE}
             ELSE IF dirty THEN BOOLEAN ELSE {FALSE}

\* DrmCompositor::queue_frame: the frame is submitted, or replaces the one
\* that waits for the flip in flight.
Queue(o, frame) == IF o.flip = NoFrame THEN [o EXCEPT !.flip = frame]
                   ELSE [o EXCEPT !.queued = frame]

RenderFails(o) ==
    /\ CanFail(o)
    /\ Becomes([Failed(o) EXCEPT !.pacer = KeptAwake(@, TRUE)])
    /\ UNCHANGED <<drawn, dirty>>

\* Mutant of QueueFails: the buffer ages are kept.
QueueFailsUndamaged(o, animating) ==
    /\ CanFail(o)
    /\ TRUE \in Damage(o)
    /\ Becomes([Failed(o) EXCEPT !.stale = FALSE, !.pacer = KeptAwake(@, TRUE)])

QueueFails(o, animating) ==
    /\ CanFail(o)
    /\ TRUE \in Damage(o)
    /\ Becomes([Failed(o) EXCEPT !.stale = TRUE, !.pacer = KeptAwake(@, TRUE)])

\* A frame that shows nothing new is not queued.
RenderNothing(o, animating) ==
    /\ FALSE \in Damage(o)
    /\ Becomes([o EXCEPT !.pacer = KeptAwake(@, animating)])

\* The queued frame carries the lock it was drawn for, when that lock waits.
RenderFrame(o, animating, lock) ==
    /\ TRUE \in Damage(o)
    /\ LET next == Queue([o EXCEPT !.stale = FALSE], [shows |-> Shown, lock |-> lock])
       IN  Becomes([next EXCEPT !.pacer = KeptAwake(FrameQueued(@), animating)])

\* DrmBackend::render. An animation shows something new in every frame.
Render(o, lock) ==
    \/ RenderFails(o)
    \/ \E animating \in BOOLEAN :
          /\ drawn' = Shown
          /\ dirty' = animating
          /\ \/ QueueFails(o, animating)
             \/ RenderNothing(o, animating)
             \/ RenderFrame(o, animating, lock)

\* dispatch_redraw with the redraw request it finds.
DispatchRedraw(o, request, lock) ==
    IF ~active
    THEN /\ Becomes(o) /\ requested' = request
         /\ UNCHANGED <<drawn, dirty>>
    ELSE LET p == Requested(o.pacer, request)
             due == [o EXCEPT !.pacer = Started(p)]
         IN  /\ requested' = FALSE
             /\ IF Due(p)
                THEN Render(due, lock)
                ELSE /\ Becomes([o EXCEPT !.pacer = Deferred(p)])
                     /\ UNCHANGED <<drawn, dirty>>

\* The end of an iteration of the event loop.
Tick ==
    /\ dispatching
    /\ dispatching' = FALSE
    /\ DispatchRedraw(Output, requested, pending)
    /\ UNCHANGED <<lockVars, active, screen, pauses>>

-----------------------------------------------------------------------------
(* Presentation. *)

\* Mutant of SessionLockFramePresented: any lock frame confirms the pending lock.
PresentedAnyLock(lock) ==
    IF pending # NoLock /\ lock # NoLock
    THEN /\ pending' = NoLock
         /\ client' = [client EXCEPT ![pending] = IF @ = "waiting" THEN "locked" ELSE @]
    ELSE UNCHANGED <<pending, client>>

\* session_lock_frame_presented: only a frame of the pending lock confirms it.
SessionLockFramePresented(lock) ==
    IF pending # NoLock /\ pending = lock
    THEN /\ pending' = NoLock
         /\ client' = [client EXCEPT ![lock] = IF @ = "waiting" THEN "locked" ELSE @]
    ELSE UNCHANGED <<pending, client>>

\* on_vblank when frame_submitted succeeds; the queued frame is submitted.
VBlank ==
    /\ flip # NoFrame
    /\ active \/ queued = NoFrame
    /\ screen' = flip.shows
    /\ dispatching' = TRUE
    /\ SessionLockFramePresented(flip.lock)
    /\ DispatchRedraw([Output EXCEPT !.pacer = FramePresented(@), !.flip = queued, !.queued = NoFrame],
                      requested, pending')
    /\ UNCHANGED <<locked, holder, active, pauses>>

\* on_vblank when the queued frame cannot be submitted: what the presented
\* frame carried is lost with the error.
VBlankSubmitFails ==
    /\ flip # NoFrame /\ queued # NoFrame
    /\ active => CanFail(Output)
    /\ screen' = flip.shows
    /\ dispatching' = TRUE
    /\ LET o == IF active THEN Failed(Output) ELSE Output
       IN  DispatchRedraw([o EXCEPT !.pacer = FramePresented(@), !.flip = NoFrame,
                                    !.queued = NoFrame, !.stale = TRUE],
                          TRUE, pending)
    /\ UNCHANGED <<lockVars, active, pauses>>

-----------------------------------------------------------------------------
(* The VT, display modes and time. *)

\* set_active(false). The vblank of the flip in flight may still come, or
\* never: then nothing that was submitted is shown any more.
Pause ==
    /\ active /\ pauses < MaxPauses
    /\ pauses' = pauses + 1
    /\ active' = FALSE
    /\ dispatching' = TRUE
    /\ pacer' = FramePresented(pacer)
    /\ \/ UNCHANGED <<flip, queued>>
       \/ flip' = NoFrame /\ queued' = NoFrame
    /\ UNCHANGED <<lockVars, drawn, stale, dirty, requested, screen, failures>>

\* set_active(true).
Resume ==
    /\ ~active
    /\ active' = TRUE
    /\ dispatching' = TRUE
    /\ stale' = TRUE
    /\ pacer' = Forced(pacer)
    /\ requested' = TRUE
    /\ UNCHANGED <<lockVars, flip, queued, drawn, dirty, screen, boundVars>>

\* switch_mode: the buffers and the pacer start afresh, flips go on.
SwitchMode ==
    /\ active
    /\ dispatching' = TRUE
    /\ stale' = TRUE
    /\ pacer' = NewPacer
    /\ requested' = TRUE
    /\ UNCHANGED <<lockVars, active, flip, queued, drawn, dirty, screen, boundVars>>

\* The wake-up of the pacer.
TimerFires ==
    /\ pacer.wakeup # NoWakeup /\ pacer.wakeup <= pacer.age
    /\ pacer' = [pacer EXCEPT !.wakeup = NoWakeup]
    /\ requested' = TRUE
    /\ dispatching' = TRUE
    /\ UNCHANGED <<lockVars, flip, queued, drawn, stale, dirty, active, screen, boundVars>>

Elapse ==
    /\ pacer.age < 2
    /\ pacer' = [pacer EXCEPT !.age = @ + 1]
    /\ UNCHANGED <<lockVars, flip, queued, drawn, stale, dirty, requested,
                   active, screen, dispatching, boundVars>>

-----------------------------------------------------------------------------
(* Clients. *)

\* A client changes what the session shows.
Commit ==
    /\ dirty' = TRUE
    /\ requested' = TRUE
    /\ dispatching' = TRUE
    /\ UNCHANGED <<lockVars, pacer, flip, queued, drawn, stale, active, screen, boundVars>>

\* Mutant of Lock: a locked session can be locked again.
LockAgain(l) ==
    /\ client[l] = "new"
    /\ dispatching' = TRUE
    /\ client' = [client EXCEPT ![l] = "waiting"]
    /\ locked' = TRUE /\ holder' = l /\ pending' = l
    /\ requested' = TRUE
    /\ UNCHANGED <<pacer, flip, queued, drawn, stale, dirty, active, screen, boundVars>>

\* SessionLockHandler::lock: a second lock is rejected, otherwise the lock
\* engages and waits for a frame of every output.
Lock(l) ==
    /\ client[l] = "new"
    /\ dispatching' = TRUE
    /\ IF locked
       THEN /\ client' = [client EXCEPT ![l] = "rejected"]
            /\ UNCHANGED <<locked, holder, pending, requested>>
       ELSE /\ client' = [client EXCEPT ![l] = "waiting"]
            /\ locked' = TRUE /\ holder' = l /\ pending' = l
            /\ requested' = TRUE
    /\ UNCHANGED <<pacer, flip, queued, drawn, stale, dirty, active, screen, boundVars>>

\* SessionLockHandler::unlock; the protocol allows it to a client that was
\* told it holds the lock.
Unlock(l) ==
    /\ client[l] = "locked"
    /\ client' = [client EXCEPT ![l] = "released"]
    /\ locked' = FALSE /\ pending' = NoLock
    /\ requested' = TRUE
    /\ dispatching' = TRUE
    /\ UNCHANGED <<holder, pacer, flip, queued, drawn, stale, dirty, active, screen, boundVars>>

\* The client of a lock dies, or destroys a lock that is not confirmed: the
\* compositor is not told and the session stays locked.
LockerGone(l) ==
    /\ client[l] \in {"waiting", "locked"}
    /\ client' = [client EXCEPT ![l] = "gone"]
    /\ dispatching' = TRUE
    /\ UNCHANGED <<locked, holder, pending, outputVars, active, screen, boundVars>>

Present == VBlank \/ VBlankSubmitFails

Next ==
    \/ Tick \/ Present
    \/ Pause \/ Resume \/ SwitchMode
    \/ TimerFires \/ Elapse
    \/ Commit
    \/ \E l \in Locks : Lock(l) \/ Unlock(l) \/ LockerGone(l)

Spec == Init /\ [][Next]_vars

\* The loop dispatches its events, time passes, a flip is completed, and the
\* user comes back to this VT.
FairSpec ==
    /\ Spec
    /\ WF_vars(Tick) /\ WF_vars(Present) /\ WF_vars(Resume)
    /\ WF_vars(TimerFires) /\ WF_vars(Elapse)

-----------------------------------------------------------------------------
(* Properties. *)

\* When the client has been told that the session is locked, the screen shows
\* that lock, and goes on doing so until it is released: no frame of the
\* session or of an earlier lock is shown, however many were in flight.
LockedScreen == locked /\ pending = NoLock => screen = holder

\* Nothing but the holder of a confirmed lock ends the locked state.
OnlyHolderUnlocks == [][locked /\ ~locked' => client[holder] = "locked" /\ client'[holder] = "released"]_vars

\* The loop never goes to sleep with a repaint or a lost flip to attend to and
\* no timer to wake it.
NeverAsleep ==
    ~dispatching /\ active /\ (requested \/ pacer.redraw \/ pacer.frame)
        => pacer.wakeup # NoWakeup

\* A lock that engages is confirmed, whatever fails on the way, unless its
\* client goes first.
LocksSettle == \A l \in Locks : client[l] = "waiting" ~> client[l] \in {"locked", "gone"}
=============================================================================
