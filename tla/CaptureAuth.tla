---------------------------- MODULE CaptureAuth ----------------------------
(***************************************************************************)
(* The authorization table of blair-integration-dbus (auth.rs): the        *)
(* compositor and the D-Bus method calls register capture requests, one    *)
(* worker task per request puts the question to the permission service     *)
(* (org.coconut.Permissions1), and the answer is recorded in the table.    *)
(* The service is outside the repository: it may answer anything at any    *)
(* time, or never.                                                         *)
(*                                                                         *)
(* A request stands for its token: tokens come from a counter and every    *)
(* capture registers at most once, so a token names one request for ever.  *)
(* Frames are the wlr-screencopy frames (entries without an owner), Calls  *)
(* the pending Screenshot method calls (entries owned by a bus name).      *)
(* The fields of an entry keep their value when the entry is removed; only *)
(* "entries" tells which of them the table still holds.                    *)
(***************************************************************************)
EXTENDS Naturals, Sequences, FiniteSets

CONSTANTS
    Frames,     \* screencopy frames that may ask for consent
    Calls,      \* D-Bus Screenshot calls that may ask for consent
    Capacity    \* CAPACITY: bounds the table, the channel and the workers

ASSUME FramesCallsAssumption == /\ Frames \cap Calls = {}
                                /\ IsFiniteSet(Frames)
                                /\ IsFiniteSet(Calls)
ASSUME CapacityAssumption == Capacity \in Nat \ {0}

Requests == Frames \cup Calls
Verdicts == {"allow", "deny"}

VARIABLES
    entries,    \* tokens in Shared.entries
    fallback,   \* Entry.fallback as a verdict; "unasked" before register
    verdict,    \* Entry.result (frames) or the value sent on Entry.reply (calls)
    mailbox,    \* the mpsc channel of AuthRequests
    receiver,   \* "open" until the AuthReceiver closes the channel
    closing,    \* tokens AuthReceiver::drop still has to complete
    running,    \* the loop of auth::run is live
    task,       \* state of the worker task of a request
    heard,      \* the worker's local answer of ask()
    ping        \* the compositor's wake-up source is readable

authVars == <<entries, fallback, verdict, mailbox, receiver, closing,
              running, task, heard, ping>>

TaskStates == {"none", "spawned", "begin", "wait", "release", "finished", "joined"}

\* Tasks the JoinSet still counts (finished ones until join_next reaps them).
Tasks == {r \in Requests : task[r] \notin {"none", "joined"}}

\* Tasks that hold the Completion guard of their request.
Active == {r \in Requests : task[r] \in {"spawned", "begin", "wait", "release"}}

AuthTypeOK ==
    /\ entries \subseteq Requests
    /\ fallback \in [Requests -> Verdicts \cup {"unasked"}]
    /\ verdict \in [Requests -> Verdicts \cup {"none"}]
    /\ mailbox \in Seq(Requests)
    /\ receiver \in {"open", "closed"}
    /\ closing \subseteq Requests
    /\ running \in BOOLEAN
    /\ task \in [Requests -> TaskStates]
    /\ heard \in [Requests -> Verdicts \cup {"unheard", "failed"}]
    /\ ping \in BOOLEAN

AuthInit ==
    /\ entries = {}
    /\ fallback = [r \in Requests |-> "unasked"]
    /\ verdict = [r \in Requests |-> "none"]
    /\ mailbox = <<>>
    /\ receiver = "open"
    /\ closing = {}
    /\ running = TRUE
    /\ task = [r \in Requests |-> "none"]
    /\ heard = [r \in Requests |-> "unheard"]
    /\ ping = FALSE

-----------------------------------------------------------------------------
(* Operations on the table, each under the entries mutex. *)

\* Mutant of Admission: the size of the table is not checked.
AdmissionUnbounded(subject) ==
    IF receiver = "closed" THEN "Unavailable"
    ELSE IF subject = "long" \/ Len(mailbox) >= Capacity THEN "Full" ELSE "Ok"

\* What ScreencopyAuth::register answers for a subject ("long": over 4096
\* bytes). A channel that is closed reports so even when it is full.
Admission(subject) ==
    CASE Cardinality(entries) >= Capacity \/ subject = "long" -> "Full"
      [] Cardinality(entries) < Capacity /\ subject # "long" /\ receiver = "closed" -> "Unavailable"
      [] OTHER -> IF Len(mailbox) >= Capacity THEN "Full" ELSE "Ok"

\* register succeeds: the entry and its AuthRequest appear together.
Register(r, unavailable) ==
    /\ entries' = entries \cup {r}
    /\ fallback' = [fallback EXCEPT ![r] = unavailable]
    /\ mailbox' = Append(mailbox, r)
    /\ UNCHANGED <<verdict, receiver, closing, running, task, heard, ping>>

\* Mutant of Complete: an unavailable service means consent.
CompletePermissive(r, answer) ==
    IF r \in entries /\ verdict[r] = "none"
    THEN /\ verdict' = [verdict EXCEPT ![r] = IF answer = "none" THEN "allow" ELSE answer]
         /\ entries' = IF r \in Calls THEN entries \ {r} ELSE entries
         /\ ping' = (ping \/ r \in Frames)
    ELSE UNCHANGED <<verdict, entries, ping>>

\* Mutant of Complete: a later completion overwrites the result.
CompleteAgain(r, answer) ==
    IF r \in entries
    THEN /\ verdict' = [verdict EXCEPT ![r] = IF answer = "none" THEN fallback[r] ELSE answer]
         /\ entries' = IF r \in Calls THEN entries \ {r} ELSE entries
         /\ ping' = (ping \/ r \in Frames)
    ELSE UNCHANGED <<verdict, entries, ping>>

\* Mutant of Complete: the compositor is not woken.
CompleteSilently(r, answer) ==
    IF r \in entries /\ verdict[r] = "none"
    THEN /\ verdict' = [verdict EXCEPT ![r] = IF answer = "none" THEN fallback[r] ELSE answer]
         /\ entries' = IF r \in Calls THEN entries \ {r} ELSE entries
         /\ UNCHANGED ping
    ELSE UNCHANGED <<verdict, entries, ping>>

\* Shared::complete(token, answer); "none" asks for the entry's fallback.
\* The first completion decides; a frame's stays in the table and wakes the
\* compositor, a call's leaves the table with the reply.
Complete(r, answer) ==
    IF r \in entries /\ verdict[r] = "none"
    THEN /\ verdict' = [verdict EXCEPT ![r] = IF answer = "none" THEN fallback[r] ELSE answer]
         /\ entries' = IF r \in Calls THEN entries \ {r} ELSE entries
         /\ ping' = (ping \/ r \in Frames)
    ELSE UNCHANGED <<verdict, entries, ping>>

-----------------------------------------------------------------------------
(* auth::run and the worker tasks. *)

\* The loop takes a request off the channel and spawns its worker.
Spawn ==
    /\ running
    /\ mailbox # <<>>
    /\ Cardinality(Tasks) < Capacity
    /\ task' = [task EXCEPT ![Head(mailbox)] = "spawned"]
    /\ mailbox' = Tail(mailbox)
    /\ UNCHANGED <<entries, fallback, verdict, receiver, closing, running, heard, ping>>

\* First poll of a worker: a request already cancelled is dropped, any other
\* one is put to the service with BeginRequest.
StartWorker(r) ==
    /\ running /\ task[r] = "spawned"
    /\ task' = [task EXCEPT ![r] = IF r \in entries THEN "begin" ELSE "finished"]
    /\ UNCHANGED <<entries, fallback, verdict, mailbox, receiver, closing,
                   running, heard, ping>>

\* BeginRequest returned a handle; WaitRequest is sent.
BeginReply(r) ==
    /\ running /\ task[r] = "begin"
    /\ task' = [task EXCEPT ![r] = "wait"]
    /\ UNCHANGED <<entries, fallback, verdict, mailbox, receiver, closing,
                   running, heard, ping>>

\* BeginRequest failed, timed out (None) or returned no handle (Some(false)).
BeginEnds(r) ==
    /\ running /\ task[r] = "begin"
    /\ \/ Complete(r, "none") /\ heard' = [heard EXCEPT ![r] = "failed"]
       \/ Complete(r, "deny") /\ heard' = [heard EXCEPT ![r] = "deny"]
    /\ task' = [task EXCEPT ![r] = "finished"]
    /\ UNCHANGED <<fallback, mailbox, receiver, closing, running>>

\* The select of ask(): the service's answer, an unreadable one (denied), a
\* failure or the ASK_TIMEOUT, or the cancellation of the request. Each is
\* followed by CancelRequest, awaited before the answer is recorded.
WaitEnds(r) ==
    /\ running /\ task[r] = "wait"
    /\ \/ \E answer \in Verdicts \cup {"failed"} : heard' = [heard EXCEPT ![r] = answer]
       \/ r \notin entries /\ heard' = [heard EXCEPT ![r] = "deny"]
    /\ task' = [task EXCEPT ![r] = "release"]
    /\ UNCHANGED <<entries, fallback, verdict, mailbox, receiver, closing,
                   running, ping>>

\* CancelRequest returned or timed out; the worker records what it heard.
Release(r) ==
    /\ running /\ task[r] = "release"
    /\ Complete(r, IF heard[r] = "failed" THEN "none" ELSE heard[r])
    /\ task' = [task EXCEPT ![r] = "finished"]
    /\ UNCHANGED <<fallback, mailbox, receiver, closing, running, heard>>

\* The loop reaps a finished worker (join_next).
Join(r) ==
    /\ running /\ task[r] = "finished"
    /\ task' = [task EXCEPT ![r] = "joined"]
    /\ UNCHANGED <<entries, fallback, verdict, mailbox, receiver, closing,
                   running, heard, ping>>

\* The bus connection closes, or the service thread ends: the loop breaks.
Stop ==
    /\ running
    /\ running' = FALSE
    /\ UNCHANGED <<entries, fallback, verdict, mailbox, receiver, closing,
                   task, heard, ping>>

\* A worker is aborted; its Completion guard resolves the request.
Abort(r) ==
    /\ ~running /\ task[r] \in {"spawned", "begin", "wait", "release"}
    /\ Complete(r, "none")
    /\ task' = [task EXCEPT ![r] = "joined"]
    /\ UNCHANGED <<fallback, mailbox, receiver, closing, running, heard>>

\* Mutant of CloseReceiver: the tokens of the table are forgotten.
CloseReceiverOnly ==
    /\ ~running /\ receiver = "open"
    /\ receiver' = "closed"
    /\ mailbox' = <<>>
    /\ UNCHANGED <<entries, fallback, verdict, closing, running, task, heard, ping>>

\* AuthReceiver::drop closes the channel and lists the tokens of the table.
\* An aborted run drops the receiver before its tasks, a closed connection after.
CloseReceiver ==
    /\ ~running /\ receiver = "open"
    /\ receiver' = "closed"
    /\ closing' = entries
    /\ mailbox' = <<>>
    /\ UNCHANGED <<entries, fallback, verdict, running, task, heard, ping>>

\* AuthReceiver::drop completes one listed token.
CompleteOnClose(r) ==
    /\ r \in closing
    /\ closing' = closing \ {r}
    /\ Complete(r, "none")
    /\ UNCHANGED <<fallback, mailbox, receiver, running, task, heard>>

\* Steps the runtime must take: every wait in a worker has a timeout.
WorkerStep(r) == StartWorker(r) \/ BeginReply(r) \/ BeginEnds(r) \/ WaitEnds(r) \/ Release(r)

AuthNext ==
    \/ Spawn
    \/ Stop
    \/ CloseReceiver
    \/ \E r \in Requests : \/ WorkerStep(r) \/ Join(r) \/ Abort(r)
                           \/ CompleteOnClose(r)

=============================================================================
