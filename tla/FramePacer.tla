----------------------------- MODULE FramePacer -----------------------------
(***************************************************************************)
(* The repaint pacer of the backends (FramePacer in backend/mod.rs), as    *)
(* functions on its state. Time is the age of the last frame: 0 within one *)
(* refresh interval, 1 from one interval on, 2 from MISSED_FRAME_INTERVALS *)
(* on. A wake-up is named by the age at which it is due: every operation   *)
(* that moves last_frame also cancels the wake-up, so a deadline keeps its *)
(* meaning until it is dropped.                                            *)
(***************************************************************************)
EXTENDS Naturals

Ages == 0..2
NoWakeup == 0
Wakeups == {NoWakeup, 1, 2}

Pacer == [redraw : BOOLEAN,     \* redraw_pending
          frame : BOOLEAN,      \* frame_pending
          age : Ages,           \* of last_frame
          wakeup : Wakeups]     \* the armed timer

\* FramePacer::new.
NewPacer == [redraw |-> TRUE, frame |-> FALSE, age |-> 1, wakeup |-> NoWakeup]

\* schedule_wakeup: a timer that still lies ahead and is early enough stays.
Scheduled(p, due) ==
    IF p.wakeup # NoWakeup /\ p.age < p.wakeup /\ p.wakeup <= due
    THEN p
    ELSE [p EXCEPT !.wakeup = due]

KeptAwake(p, animating) ==
    IF animating THEN Scheduled([p EXCEPT !.redraw = TRUE], 1) ELSE p

FrameQueued(p) == Scheduled([p EXCEPT !.frame = TRUE], 2)

FramePresented(p) == [p EXCEPT !.wakeup = NoWakeup, !.frame = FALSE, !.age = 1]

Forced(p) == [FramePresented(p) EXCEPT !.redraw = TRUE]

\* poll, from the redraw request it takes on. A frame is awaited until it is
\* overdue; then its feedback is taken for lost.
Requested(p, request) == [p EXCEPT !.redraw = @ \/ request]
Awaited(p) == p.frame /\ p.age < 2
Abandoned(p) == [p EXCEPT !.frame = FALSE]

Due(p) == ~Awaited(p) /\ p.redraw /\ p.age >= 1

\* The pacer poll leaves when a frame is due, and when it is not.
Started(p) == [p EXCEPT !.frame = FALSE, !.wakeup = NoWakeup, !.redraw = FALSE, !.age = 0]

\* Mutant of Deferred: a repaint that comes too early arms no timer.
DeferredAsleep(p) == IF Awaited(p) THEN Scheduled(p, 2) ELSE Abandoned(p)

Deferred(p) ==
    IF Awaited(p) THEN Scheduled(p, 2)
    ELSE IF p.redraw THEN Scheduled(Abandoned(p), 1) ELSE Abandoned(p)
=============================================================================
