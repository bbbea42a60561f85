--------------------------- MODULE ScreenCapture ---------------------------
(***************************************************************************)
(* Screen capture under the permission policy: the wlr-screencopy frames   *)
(* of the compositor (screencopy.rs) and the Screenshot method of the bus  *)
(* service (interface.rs), composed with the authorization table.          *)
(* The handlers of the compositor thread are atomic with respect to each   *)
(* other; the bus thread interleaves with them at every step.              *)
(***************************************************************************)
EXTENDS CaptureAuth

CONSTANTS
    Owners,     \* unique bus names
    OwnerOf     \* the bus name a Screenshot call comes from

ASSUME OwnerAssumption == OwnerOf \in [Calls -> Owners]

VARIABLES
    policy,     \* config.integrations.screencopy
    frame,      \* life of a screencopy frame object
    parked,     \* frames in screencopy_auth_pending
    call        \* progress of a Screenshot call; in Asking: the policy it read

captureVars == <<policy, frame, parked, call>>
vars == <<authVars, captureVars>>

Policies == {"allow", "ask", "ask-safe", "deny"}
Asking == {"ask", "ask-safe"}
FrameStates == {"new", "parked", "ready", "copied", "delivered", "failed", "killed", "gone"}
CallStates == {"idle", "waiting", "granted", "captured", "refused"} \cup Asking

\* How a requester is identified: not at all, or by a subject ("long" is one
\* over 4096 bytes).
Subjects == {"unknown", "known", "long"}

\* What an unavailable service means under a policy (the fallback argument).
FallbackOf(p) == IF p = "ask-safe" THEN "allow" ELSE "deny"

\* The type invariant.
TypeOK ==
    /\ AuthTypeOK
    /\ policy \in Policies
    /\ frame \in [Frames -> FrameStates]
    /\ parked \subseteq Frames
    /\ call \in [Calls -> CallStates]

Init ==
    /\ AuthInit
    /\ policy \in Policies
    /\ frame = [f \in Frames |-> "new"]
    /\ parked = {}
    /\ call = [c \in Calls |-> "idle"]

SetFrame(f, s) == frame' = [frame EXCEPT ![f] = s]
SetCall(c, s) == call' = [call EXCEPT ![c] = s]

-----------------------------------------------------------------------------
(* Compositor thread. *)

\* A capture request for an unknown output or an empty region.
CaptureRejected(f) ==
    /\ frame[f] = "new"
    /\ SetFrame(f, "failed")
    /\ UNCHANGED <<authVars, policy, parked, call>>

\* A capture request the policy decides without the service.
CaptureByPolicy(f) ==
    /\ frame[f] = "new"
    /\ policy \notin Asking
    /\ SetFrame(f, IF policy = "allow" THEN "ready" ELSE "failed")
    /\ UNCHANGED <<authVars, policy, parked, call>>

\* A capture request the service is asked about: parked once it is admitted,
\* decided by the fallback when the client or the service is unknown, failed
\* when the queue is full.
CaptureAsk(f, subject) ==
    /\ frame[f] = "new"
    /\ policy \in Asking
    /\ IF subject # "unknown" /\ Admission(subject) = "Ok"
       THEN /\ Register(f, FallbackOf(policy))
            /\ SetFrame(f, "parked")
            /\ parked' = parked \cup {f}
       ELSE /\ SetFrame(f, IF /\ subject = "unknown" \/ Admission(subject) = "Unavailable"
                              /\ policy = "ask-safe"
                           THEN "ready" ELSE "failed")
            /\ UNCHANGED <<authVars, parked>>
    /\ UNCHANGED <<policy, call>>

\* copy on an announced frame queues it for the next render.
Copy(f) ==
    /\ frame[f] = "ready"
    /\ SetFrame(f, IF policy = "deny" THEN "failed" ELSE "copied")
    /\ UNCHANGED <<authVars, policy, parked, call>>

\* copy on any other frame is a protocol error that kills the client; what is
\* sent to its frames until they are destroyed reaches nobody.
CopyUnannounced(f) ==
    /\ frame[f] \in {"parked", "copied", "delivered", "failed"}
    /\ SetFrame(f, "killed")
    /\ UNCHANGED <<authVars, policy, parked, call>>

\* The renderer completes or fails a queued capture.
CompleteCapture(f) ==
    /\ frame[f] = "copied"
    /\ \E s \in {"delivered", "failed"} : SetFrame(f, s)
    /\ UNCHANGED <<authVars, policy, parked, call>>

\* Mutant of CancelFrame: the ticket is not dropped with the parked capture.
CancelFrameLeaks(f) ==
    /\ frame[f] \notin {"new", "gone"}
    /\ SetFrame(f, "gone")
    /\ parked' = parked \ {f}
    /\ UNCHANGED <<authVars, policy, call>>

\* cancel_frame: the frame is destroyed or its client disconnects; dropping
\* the parked capture drops its ticket, which removes the entry.
CancelFrame(f) ==
    /\ frame[f] \notin {"new", "gone"}
    /\ SetFrame(f, "gone")
    /\ parked' = parked \ {f}
    /\ entries' = IF f \in parked THEN entries \ {f} ELSE entries
    /\ UNCHANGED <<fallback, verdict, mailbox, receiver, closing, running,
                   task, heard, ping, policy, call>>

\* Mutant of Resumed: the policy is not read again.
ResumedBlindly(f) == IF verdict[f] = "deny" THEN "failed" ELSE "ready"

\* What the verdict of a drained token makes of its frame.
Resumed(f) == IF verdict[f] = "deny" \/ policy = "deny" THEN "failed" ELSE "ready"

\* The wake-up source fires: every decided entry leaves the table and its
\* verdict is applied to the parked frame.
Drain ==
    /\ ping
    /\ ping' = FALSE
    /\ LET ready == {r \in entries : verdict[r] # "none"}
       IN  /\ entries' = entries \ ready
           /\ parked' = parked \ ready
           /\ frame' = [f \in Frames |-> IF f \in ready \cap parked /\ frame[f] = "parked"
                                         THEN Resumed(f) ELSE frame[f]]
    /\ UNCHANGED <<fallback, verdict, mailbox, receiver, closing, running,
                   task, heard, policy, call>>

\* The configuration is reloaded.
SetPolicy(p) ==
    /\ policy' = p
    /\ UNCHANGED <<authVars, frame, parked, call>>

-----------------------------------------------------------------------------
(* Screenshot method calls, on the bus thread; the compositor executes their
   two commands. *)

\* Command::ScreenCapturePolicy.
CallPolicy(c) ==
    /\ call[c] = "idle"
    /\ SetCall(c, CASE policy = "deny" -> "refused"
                    [] policy = "allow" -> "granted"
                    [] OTHER -> policy)
    /\ UNCHANGED <<authVars, policy, frame, parked>>

\* The caller's process is looked up on the bus and the request is admitted
\* to the table; without a subject or a service the fallback decides, and a
\* full queue is an error under every policy.
CallAuthorize(c, subject) ==
    /\ call[c] \in Asking
    /\ IF subject # "unknown" /\ Admission(subject) = "Ok"
       THEN Register(c, FallbackOf(call[c])) /\ SetCall(c, "waiting")
       ELSE /\ SetCall(c, IF /\ subject = "unknown" \/ Admission(subject) = "Unavailable"
                             /\ call[c] = "ask-safe"
                          THEN "granted" ELSE "refused")
            /\ UNCHANGED authVars
    /\ UNCHANGED <<policy, frame, parked>>

\* authorize() returns: the reply, or a denial when the entry was dropped.
CallVerdict(c) ==
    /\ call[c] = "waiting"
    /\ c \notin entries
    /\ SetCall(c, IF verdict[c] = "allow" THEN "granted" ELSE "refused")
    /\ UNCHANGED <<authVars, policy, frame, parked>>

\* Command::Screenshot; the policy is read again, and the capture may fail.
CallScreenshot(c) ==
    /\ call[c] = "granted"
    /\ \/ policy # "deny" /\ SetCall(c, "captured")
       \/ SetCall(c, "refused")
    /\ UNCHANGED <<authVars, policy, frame, parked>>

\* NameOwnerChanged: the entries of a vanished bus name are dropped.
Disconnect(o) ==
    /\ entries' = {r \in entries : r \in Frames \/ OwnerOf[r] # o}
    /\ UNCHANGED <<fallback, verdict, mailbox, receiver, closing, running,
                   task, heard, ping, captureVars>>

CallStep(c) == \/ CallPolicy(c) \/ CallVerdict(c) \/ CallScreenshot(c)
               \/ \E subject \in Subjects : CallAuthorize(c, subject)

FrameStep(f) == \/ CaptureRejected(f) \/ CaptureByPolicy(f) \/ Copy(f)
                \/ CopyUnannounced(f) \/ CompleteCapture(f) \/ CancelFrame(f)
                \/ \E subject \in Subjects : CaptureAsk(f, subject)

Next ==
    \/ AuthNext /\ UNCHANGED captureVars
    \/ Drain
    \/ \E f \in Frames : FrameStep(f)
    \/ \E c \in Calls : CallStep(c)
    \/ \E p \in Policies : SetPolicy(p)
    \/ \E o \in Owners : Disconnect(o)

Spec == Init /\ [][Next]_vars

\* The event loop serves its wake-up source, the bus runtime polls its ready
\* tasks, and every wait of a worker is bounded by a timeout. Nothing is
\* assumed of clients, of the permission service or of the user.
Fairness ==
    /\ WF_vars(Drain)
    /\ WF_vars(Spawn /\ UNCHANGED captureVars)
    /\ WF_vars(CloseReceiver /\ UNCHANGED captureVars)
    /\ \A r \in Requests :
        /\ WF_vars(WorkerStep(r) /\ UNCHANGED captureVars)
        /\ WF_vars(Join(r) /\ UNCHANGED captureVars)
        /\ WF_vars(Abort(r) /\ UNCHANGED captureVars)
        /\ WF_vars(CompleteOnClose(r) /\ UNCHANGED captureVars)
    /\ \A c \in Calls : WF_vars(CallVerdict(c) \/ CallScreenshot(c))

FairSpec == Spec /\ Fairness

-----------------------------------------------------------------------------
(* Properties. *)

\* The request has been given, or is about to be given, pixels.
Granted(r) == IF r \in Calls THEN call[r] \in {"granted", "captured"}
                             ELSE frame[r] \in {"ready", "copied", "delivered"}

\* A request registered under "ask" is granted only if its worker heard the
\* service allow it: neither an abort, nor the shutdown of the transport, nor
\* a vanished bus name, nor a failed call ever turns into an approval
\* (complete, Completion and AuthReceiver drops, verdict, authorize).
ConsentRequired ==
    \A r \in Requests : Granted(r) /\ fallback[r] = "deny" => heard[r] = "allow"

\* The compositor's table of parked frames and the authorization table agree:
\* a frame is parked exactly as long as the table holds its entry, so no
\* parked frame loses its verdict and no entry outlives its frame.
ParkedHasEntry ==
    /\ parked = entries \cap Frames
    /\ \A f \in Frames : /\ frame[f] = "parked" => f \in parked
                         /\ f \in parked => frame[f] \in {"parked", "killed"}

\* A verdict comes for every entry: an undecided one is still in the channel,
\* or a worker holds its Completion guard, or AuthReceiver::drop has it on its
\* list; a decided one has woken the compositor. Otherwise the capture would be
\* parked for ever.
EntryServed ==
    \A r \in entries :
        \/ verdict[r] # "none" /\ ping
        \/ /\ verdict[r] = "none"
           /\ r \in Active \/ r \in closing \/ \E i \in DOMAIN mailbox : mailbox[i] = r

\* At most CAPACITY requests are outstanding, queued, or being asked, whatever
\* is cancelled while it is queued.
Bounded ==
    /\ Cardinality(entries) <= Capacity
    /\ Len(mailbox) <= Capacity
    /\ Cardinality(Tasks) <= Capacity

\* What the table, the frames and the workers know of each other agrees.
EntriesSound == ParkedHasEntry /\ EntryServed /\ Bounded

\* Once the policy is "deny", no frame is announced or queued for rendering
\* and no screenshot is taken, whatever was decided before.
DenyHolds ==
    [][policy = "deny" =>
        /\ \A f \in Frames : frame'[f] \in {"ready", "copied"} => frame'[f] = frame[f]
        /\ \A c \in Calls : call'[c] = "captured" => call[c] = "captured"]_vars

\* Every parked frame is eventually resolved or destroyed, and every waiting
\* Screenshot call gets its verdict, with the service silent or gone.
CapturesResolved ==
    /\ \A f \in Frames : f \in parked ~> f \notin parked
    /\ \A c \in Calls : call[c] = "waiting" ~> call[c] # "waiting"

\* What the worker test explicit_denial_survives_transport_shutdown_... says of
\* the program: a denial the worker has read is never turned into an approval.
ExplicitDenialSurvives == \A r \in Requests : heard[r] = "deny" => verdict[r] # "allow"

-----------------------------------------------------------------------------
(* Refinement: every request follows the consent protocol of CaptureConsent. *)

FrameConsent(f) ==
    CASE frame[f] = "parked" -> IF verdict[f] = "none" THEN "asked" ELSE verdict[f]
      [] frame[f] \in {"ready", "copied", "delivered"} -> "granted"
      [] frame[f] = "failed" -> "refused"
      [] frame[f] \in {"killed", "gone"} -> "withdrawn"
      [] OTHER -> "new"

CallConsent(c) ==
    CASE call[c] = "waiting" /\ verdict[c] # "none" -> verdict[c]
      [] call[c] = "waiting" /\ verdict[c] = "none" -> IF c \in entries THEN "asked" ELSE "withdrawn"
      [] call[c] \in {"granted", "captured"} -> "granted"
      [] call[c] = "refused" -> "refused"
      [] OTHER -> "new"

ConsentOf == [r \in Requests |-> IF r \in Calls THEN CallConsent(r) ELSE FrameConsent(r)]

Consent == INSTANCE CaptureConsent WITH Requests <- Requests, consent <- ConsentOf

\* The composition implements the consent protocol.
ImplementsConsent == Consent!Spec
=============================================================================
