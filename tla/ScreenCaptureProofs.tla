------------------------ MODULE ScreenCaptureProofs ------------------------
(***************************************************************************)
(* Proofs about screen capture under the permission policy, for any number *)
(* of frames, calls and bus names and any capacity.                        *)
(*                                                                         *)
(* The inductive invariant has two layers. AuthInv speaks of the           *)
(* authorization table and its workers alone; CaptureInv relates the table *)
(* to the frames and calls. What the table's own steps may do to the       *)
(* entries and verdicts is summed up in AuthEffect, which is all that the  *)
(* second layer needs to know of them.                                     *)
(***************************************************************************)
EXTENDS ScreenCapture, TLAPS, FiniteSetTheorems, SequenceTheorems

-----------------------------------------------------------------------------
(* The invariant of the authorization table. *)

\* An entry has a fallback to be resolved with.
Answerable == \A r \in entries : fallback[r] \in Verdicts

\* A worker that awaits CancelRequest has an answer to record.
Heard == \A r \in Requests : task[r] = "release" => heard[r] \in Verdicts \cup {"failed"}

\* A request that never registered has left no trace.
NeverAsked ==
    \A r \in Requests : fallback[r] = "unasked" =>
        /\ r \notin entries
        /\ verdict[r] = "none"
        /\ task[r] = "none"
        /\ \A i \in DOMAIN mailbox : mailbox[i] # r

\* Queued requests are distinct and have no worker yet.
Queued ==
    \A i \in DOMAIN mailbox :
        /\ task[mailbox[i]] = "none"
        /\ \A j \in DOMAIN mailbox : mailbox[i] = mailbox[j] => i = j

\* Where the fallback is a denial, only the service's answer allows.
ServiceAllowed ==
    \A r \in Requests : verdict[r] = "allow" /\ fallback[r] = "deny" =>
        heard[r] = "allow" /\ task[r] \in {"finished", "joined"}

\* A reply removes the entry of a call.
CallsUndecided == \A c \in Calls \cap entries : verdict[c] = "none"

AuthInv ==
    /\ AuthTypeOK
    /\ Answerable
    /\ Heard
    /\ NeverAsked
    /\ Queued
    /\ ServiceAllowed
    /\ CallsUndecided
    /\ EntryServed
    /\ Bounded

\* What a step of the table or its workers may do.
AuthEffect ==
    /\ entries' \subseteq entries
    /\ entries' \cap Frames = entries \cap Frames
    /\ fallback' = fallback
    /\ \A r \in Requests : verdict[r] # "none" \/ r \notin entries => verdict'[r] = verdict[r]
    /\ \A c \in Calls \cap entries' : verdict'[c] = "none"
    /\ \A c \in Calls \cap entries : c \in entries' \/ verdict'[c] # "none"

-----------------------------------------------------------------------------
(* The invariant of the composition. *)

\* A capture that has not asked yet has no entry.
Untried ==
    /\ \A f \in Frames : frame[f] = "new" => fallback[f] = "unasked"
    /\ \A c \in Calls : call[c] \in {"idle"} \cup Asking => fallback[c] = "unasked"

\* The entry of a call means that the call is waiting for it.
CallsWaiting == \A c \in Calls \cap entries : call[c] = "waiting"

\* Whoever asked and was granted has been allowed.
GrantedAllowed ==
    \A r \in Requests : Granted(r) => fallback[r] = "unasked" \/ verdict[r] = "allow"

CaptureTypeOK ==
    /\ policy \in Policies
    /\ frame \in [Frames -> FrameStates]
    /\ parked \subseteq Frames
    /\ call \in [Calls -> CallStates]

CaptureInv ==
    /\ CaptureTypeOK
    /\ ParkedHasEntry
    /\ Untried
    /\ CallsWaiting
    /\ GrantedAllowed

IInv == AuthInv /\ CaptureInv

-----------------------------------------------------------------------------
(* Finiteness. *)

LEMMA RequestsFinite ==
    ASSUME NEW S \in SUBSET Requests
    PROVE  IsFiniteSet(S) /\ Cardinality(S) \in Nat
<1>1. IsFiniteSet(Requests)
  BY FramesCallsAssumption, FS_Union DEF Requests
<1>2. IsFiniteSet(S)
  BY <1>1, FS_Subset
<1> QED BY <1>2, FS_CardinalityType

\* Fewer requests never count more.
LEMMA FewerRequests ==
    ASSUME NEW S \in SUBSET Requests, NEW T \in SUBSET S
    PROVE  Cardinality(T) <= Cardinality(S)
BY RequestsFinite, FS_Subset

LEMMA OneMoreRequest ==
    ASSUME NEW S \in SUBSET Requests, NEW r \in Requests
    PROVE  Cardinality(S \cup {r}) <= Cardinality(S) + 1
BY RequestsFinite, FS_AddElement

-----------------------------------------------------------------------------
(* Initial states. *)

LEMMA InitEstablishes == Init => IInv
<1> SUFFICES ASSUME Init PROVE IInv
  OBVIOUS
<1> USE DEF Init, AuthInit
<1>1. AuthTypeOK
  BY EmptySeq DEF AuthTypeOK, TaskStates, Verdicts
<1>2. Answerable /\ Heard /\ NeverAsked /\ Queued /\ ServiceAllowed /\ CallsUndecided /\ EntryServed
  BY DEF Answerable, Heard, NeverAsked, Queued, ServiceAllowed, CallsUndecided, EntryServed
<1>3. Bounded
  <2>1. Tasks = {}
    BY DEF Tasks
  <2> QED BY <2>1, FS_EmptySet, CapacityAssumption DEF Bounded
<1>4. CaptureTypeOK
  BY DEF CaptureTypeOK, FrameStates, CallStates
<1>5. ParkedHasEntry /\ CallsWaiting
  BY DEF ParkedHasEntry, CallsWaiting
<1>6. Untried /\ GrantedAllowed
  BY DEF Untried, GrantedAllowed, Granted, Requests
<1> QED BY <1>1, <1>2, <1>3, <1>4, <1>5, <1>6 DEF IInv, AuthInv, CaptureInv

-----------------------------------------------------------------------------
(* Steps of the table and its workers. *)

\* What Complete does to the table: it touches the entry of r only, decides it
\* if it was there, and has the compositor woken if it stays.
LEMMA CompleteEffect ==
    ASSUME AuthTypeOK, Answerable, CallsUndecided, EntryServed,
           NEW r \in Requests, NEW answer \in Verdicts \cup {"none"},
           Complete(r, answer)
    PROVE  /\ entries' \subseteq entries
           /\ entries' \cap Frames = entries \cap Frames
           /\ verdict' \in [Requests -> Verdicts \cup {"none"}]
           /\ ping' \in BOOLEAN
           /\ ping => ping'
           /\ \A x \in Requests : x # r => verdict'[x] = verdict[x]
           /\ verdict'[r] # verdict[r] =>
                /\ r \in entries /\ verdict[r] = "none"
                /\ verdict'[r] = IF answer = "none" THEN fallback[r] ELSE answer
           /\ r \in entries' => verdict'[r] # "none" /\ ping'
           /\ \A c \in Calls \cap entries' : verdict'[c] = "none"
           /\ \A c \in Calls \cap entries : c \in entries' \/ verdict'[c] # "none"
<1> USE FramesCallsAssumption DEF AuthTypeOK, Answerable, CallsUndecided, EntryServed, Requests, Verdicts
<1>1. CASE r \in entries /\ verdict[r] = "none"
  <2>1. /\ verdict' = [verdict EXCEPT ![r] = IF answer = "none" THEN fallback[r] ELSE answer]
        /\ entries' = IF r \in Calls THEN entries \ {r} ELSE entries
        /\ ping' = (ping \/ r \in Frames)
    BY <1>1 DEF Complete
  <2>2. (IF answer = "none" THEN fallback[r] ELSE answer) \in {"allow", "deny"}
    BY <1>1
  <2>3. \A x \in Requests : verdict'[x] = IF x = r THEN IF answer = "none" THEN fallback[r] ELSE answer
                                          ELSE verdict[x]
    BY <2>1
  <2>4. verdict' \in [Requests -> Verdicts \cup {"none"}]
    BY <2>1, <2>2
  <2>5. r \in entries' => r \in Frames
    BY <2>1
  <2>6. /\ entries' \subseteq entries
        /\ entries' \cap Frames = entries \cap Frames
    BY <2>1
  <2>8. /\ ping' \in BOOLEAN
        /\ ping => ping'
        /\ r \in entries' => ping'
    BY <2>1, <2>5, Zenon
  <2>7. \A c \in Calls \cap entries' : verdict'[c] = "none"
    <3> SUFFICES ASSUME NEW c \in Calls \cap entries' PROVE verdict'[c] = "none"
      OBVIOUS
    <3>1. c # r /\ c \in entries
      BY <2>5, <2>6
    <3> QED BY <2>3, <3>1
  <2>9. \A c \in Calls \cap entries : c \in entries' \/ verdict'[c] # "none"
    <3> SUFFICES ASSUME NEW c \in Calls \cap entries, c \notin entries' PROVE verdict'[c] # "none"
      OBVIOUS
    <3>1. c = r
      BY <2>1
    <3> QED BY <2>2, <2>3, <3>1
  <2> QED BY <1>1, <2>2, <2>3, <2>4, <2>6, <2>7, <2>8, <2>9
<1>2. CASE ~ (r \in entries /\ verdict[r] = "none")
  <2>1. UNCHANGED <<verdict, entries, ping>>
    BY <1>2 DEF Complete
  <2> QED BY <1>2, <2>1
<1> QED BY <1>1, <1>2

\* A step that completes r, after which its worker is over or its place on
\* the list of AuthReceiver::drop is given up.
LEMMA CompletingStep ==
    ASSUME AuthInv,
           NEW r \in Requests, NEW answer \in Verdicts \cup {"none"},
           Complete(r, answer),
           UNCHANGED <<fallback, mailbox, receiver, running>>,
           closing' \subseteq closing, closing \subseteq closing' \cup {r},
           heard' \in [Requests -> Verdicts \cup {"unheard", "failed"}],
           \A x \in Requests : x # r => heard'[x] = heard[x],
           task' \in [Requests -> TaskStates],
           \A x \in Requests : x # r => task'[x] = task[x],
           (task'[r] = task[r] /\ heard'[r] = heard[r]) \/ task'[r] \in {"finished", "joined"},
           task[r] = "none" => task'[r] = "none",
           task[r] = "joined" => task'[r] = "joined",
           task[r] \in {"finished", "joined"} => heard'[r] = heard[r],
           answer = "allow" => heard'[r] = "allow" /\ task'[r] = "finished"
    PROVE  AuthInv' /\ AuthEffect
<1> USE DEF AuthInv
<1>1. /\ entries' \subseteq entries
      /\ entries' \cap Frames = entries \cap Frames
      /\ verdict' \in [Requests -> Verdicts \cup {"none"}]
      /\ ping' \in BOOLEAN
      /\ ping => ping'
      /\ \A x \in Requests : x # r => verdict'[x] = verdict[x]
      /\ verdict'[r] # verdict[r] =>
           /\ r \in entries /\ verdict[r] = "none"
           /\ verdict'[r] = IF answer = "none" THEN fallback[r] ELSE answer
      /\ r \in entries' => verdict'[r] # "none" /\ ping'
      /\ \A c \in Calls \cap entries' : verdict'[c] = "none"
      /\ \A c \in Calls \cap entries : c \in entries' \/ verdict'[c] # "none"
  BY CompleteEffect, Zenon
<1>2. AuthTypeOK'
  BY <1>1 DEF AuthTypeOK
<1>3. AuthEffect
  BY <1>1 DEF AuthEffect
<1>4. Answerable'
  BY <1>1 DEF Answerable
<1>5. Heard'
  BY DEF Heard
<1>6. NeverAsked'
  <2> SUFFICES ASSUME NEW x \in Requests, fallback[x] = "unasked"
               PROVE  /\ x \notin entries'
                      /\ verdict'[x] = "none"
                      /\ task'[x] = "none"
                      /\ \A i \in DOMAIN mailbox : mailbox[i] # x
    BY DEF NeverAsked
  <2> QED BY <1>1 DEF NeverAsked
<1>7. Queued'
  <2>1. \A i \in DOMAIN mailbox : mailbox[i] \in Requests
    BY DEF AuthTypeOK
  <2> QED BY <2>1 DEF Queued
<1>8. ServiceAllowed'
  <2> SUFFICES ASSUME NEW x \in Requests, verdict'[x] = "allow", fallback[x] = "deny"
               PROVE  heard'[x] = "allow" /\ task'[x] \in {"finished", "joined"}
    BY DEF ServiceAllowed
  <2>1. CASE x # r
    BY <2>1, <1>1 DEF ServiceAllowed
  <2>2. CASE x = r /\ verdict'[r] = verdict[r]
    BY <2>2 DEF ServiceAllowed
  <2>3. CASE x = r /\ verdict'[r] # verdict[r]
    BY <2>3, <1>1
  <2> QED BY <2>1, <2>2, <2>3
<1>9. CallsUndecided'
  BY <1>1 DEF CallsUndecided
<1>10. EntryServed'
  <2> SUFFICES ASSUME NEW x \in entries'
               PROVE  \/ verdict'[x] # "none" /\ ping'
                      \/ /\ verdict'[x] = "none"
                         /\ x \in Active' \/ x \in closing' \/ \E i \in DOMAIN mailbox : mailbox[i] = x
    BY DEF EntryServed
  <2>1. CASE x = r
    BY <2>1, <1>1
  <2>2. CASE x # r
    <3>1. x \in entries /\ x \in Requests
      BY <1>1 DEF AuthTypeOK
    <3>2. x \in Active <=> x \in Active'
      BY <2>2, <3>1 DEF Active
    <3> QED BY <2>2, <3>1, <3>2, <1>1 DEF EntryServed
  <2> QED BY <2>1, <2>2
<1>11. Bounded'
  <2>1. Tasks' \subseteq Tasks
    BY DEF Tasks, AuthTypeOK, TaskStates
  <2>2. Tasks \subseteq Requests /\ entries \subseteq Requests
    BY DEF Tasks, AuthTypeOK
  <2>3. Cardinality(Tasks') <= Cardinality(Tasks) /\ Cardinality(entries') <= Cardinality(entries)
    BY <1>1, <2>1, <2>2, FewerRequests
  <2>4. /\ Cardinality(Tasks) \in Nat /\ Cardinality(entries) \in Nat
        /\ Cardinality(Tasks') \in Nat /\ Cardinality(entries') \in Nat
    BY <1>1, <2>1, <2>2, RequestsFinite
  <2> QED BY <2>3, <2>4, CapacityAssumption DEF Bounded
<1> QED BY <1>2, <1>3, <1>4, <1>5, <1>6, <1>7, <1>8, <1>9, <1>10, <1>11

\* A step that moves one worker from a state to another, leaving the table.
LEMMA WorkerMoves ==
    ASSUME AuthInv,
           NEW r \in Requests, NEW s \in TaskStates \ {"none"},
           task[r] \notin {"none", "joined"},
           task[r] \in {"finished", "joined"} => s \in {"finished", "joined"} /\ heard' = heard,
           s \in {"finished", "joined"} => r \notin Active \/ r \notin entries,
           s = "release" => heard'[r] \in Verdicts \cup {"failed"},
           task' = [task EXCEPT ![r] = s],
           heard' \in [Requests -> Verdicts \cup {"unheard", "failed"}],
           \A x \in Requests : x # r => heard'[x] = heard[x],
           UNCHANGED <<entries, fallback, verdict, mailbox, receiver, closing, running, ping>>
    PROVE  AuthInv' /\ AuthEffect
<1> USE DEF AuthInv
<1>1. AuthTypeOK'
  BY DEF AuthTypeOK
<1>2. AuthEffect
  BY DEF AuthEffect, CallsUndecided
<1>3. Answerable' /\ CallsUndecided'
  BY DEF Answerable, CallsUndecided
<1>4. Heard'
  BY DEF Heard, AuthTypeOK
<1>5. NeverAsked'
  BY DEF NeverAsked, AuthTypeOK
<1>6. Queued'
  <2>1. \A i \in DOMAIN mailbox : mailbox[i] \in Requests
    BY DEF AuthTypeOK
  <2> QED BY <2>1 DEF Queued, AuthTypeOK
<1>7. ServiceAllowed'
  <2> SUFFICES ASSUME NEW x \in Requests, verdict[x] = "allow", fallback[x] = "deny"
               PROVE  heard'[x] = "allow" /\ task'[x] \in {"finished", "joined"}
    BY DEF ServiceAllowed
  <2>1. heard[x] = "allow" /\ task[x] \in {"finished", "joined"}
    BY DEF ServiceAllowed
  <2>2. CASE x = r
    BY <2>1, <2>2 DEF AuthTypeOK
  <2>3. CASE x # r
    BY <2>1, <2>3 DEF AuthTypeOK
  <2> QED BY <2>2, <2>3
<1>8. EntryServed'
  <2> SUFFICES ASSUME NEW x \in entries, verdict[x] = "none", x \in Active
               PROVE  x \in Active'
    BY DEF EntryServed
  <2>1. CASE x = r
    BY <2>1 DEF Active, AuthTypeOK, TaskStates
  <2>2. CASE x # r
    BY <2>2 DEF Active, AuthTypeOK
  <2> QED BY <2>1, <2>2
<1>9. Bounded'
  <2>1. Tasks' \subseteq Tasks
    BY DEF Tasks, AuthTypeOK, TaskStates
  <2>2. Tasks \subseteq Requests
    BY DEF Tasks
  <2>3. /\ Cardinality(Tasks') <= Cardinality(Tasks)
        /\ Cardinality(Tasks) \in Nat /\ Cardinality(Tasks') \in Nat
    BY <2>1, <2>2, FewerRequests, RequestsFinite
  <2> QED BY <2>3, CapacityAssumption DEF Bounded
<1> QED BY <1>1, <1>2, <1>3, <1>4, <1>5, <1>6, <1>7, <1>8, <1>9

\* The loop takes a request off the channel: its worker has it now.
LEMMA SpawnStep ==
    ASSUME AuthInv, Spawn
    PROVE  AuthInv' /\ AuthEffect
<1> USE DEF AuthInv, Spawn
<1> DEFINE r == Head(mailbox)
<1>1. /\ mailbox \in Seq(Requests) /\ mailbox # <<>>
      /\ r \in Requests
      /\ r = mailbox[1] /\ 1 \in DOMAIN mailbox
      /\ mailbox' \in Seq(Requests)
      /\ Len(mailbox') = Len(mailbox) - 1
      /\ \A i \in 1..Len(mailbox') : mailbox'[i] = mailbox[i + 1]
      /\ DOMAIN mailbox = 1..Len(mailbox) /\ DOMAIN mailbox' = 1..Len(mailbox')
      /\ Len(mailbox) \in Nat
  <2>1. mailbox \in Seq(Requests) /\ mailbox # <<>>
    BY DEF AuthTypeOK
  <2> QED BY <2>1, HeadTailProperties, EmptySeq, LenProperties
<1>2. r \notin {mailbox'[i] : i \in DOMAIN mailbox'}
  <2> SUFFICES ASSUME NEW i \in DOMAIN mailbox', r = mailbox'[i] PROVE FALSE
    OBVIOUS
  <2>1. i + 1 \in DOMAIN mailbox /\ mailbox'[i] = mailbox[i + 1] /\ i + 1 # 1
    BY <1>1
  <2> QED BY <1>1, <2>1 DEF Queued
<1>3. task[r] = "none" /\ fallback[r] # "unasked"
  BY <1>1 DEF Queued, NeverAsked
<1> HIDE DEF r
<1>4. task' = [task EXCEPT ![r] = "spawned"]
  BY DEF r
<1>5. AuthTypeOK'
  BY <1>1, <1>4 DEF AuthTypeOK, TaskStates
<1>6. AuthEffect
  BY DEF AuthEffect, CallsUndecided
<1>7. Answerable' /\ CallsUndecided'
  BY DEF Answerable, CallsUndecided
<1>8. Heard'
  BY <1>1, <1>4 DEF Heard, AuthTypeOK
<1>9. \A i \in DOMAIN mailbox' : i + 1 \in DOMAIN mailbox /\ mailbox'[i] = mailbox[i + 1]
  BY <1>1
<1>10. NeverAsked'
  <2> SUFFICES ASSUME NEW x \in Requests, fallback[x] = "unasked"
               PROVE  /\ x \notin entries
                      /\ verdict[x] = "none"
                      /\ task'[x] = "none"
                      /\ \A i \in DOMAIN mailbox' : mailbox'[i] # x
    BY DEF NeverAsked
  <2>1. x # r
    BY <1>3
  <2> QED BY <2>1, <1>4, <1>9 DEF NeverAsked, AuthTypeOK
<1>11. Queued'
  <2> SUFFICES ASSUME NEW i \in DOMAIN mailbox'
               PROVE  /\ task'[mailbox'[i]] = "none"
                      /\ \A j \in DOMAIN mailbox' : mailbox'[i] = mailbox'[j] => i = j
    BY DEF Queued
  <2>1. mailbox'[i] # r /\ mailbox'[i] = mailbox[i + 1] /\ i + 1 \in DOMAIN mailbox
    BY <1>2, <1>9
  <2>2. task'[mailbox'[i]] = task[mailbox[i + 1]]
    BY <2>1, <1>1, <1>4 DEF AuthTypeOK
  <2>3. ASSUME NEW j \in DOMAIN mailbox', mailbox'[i] = mailbox'[j] PROVE i = j
    <3>1. i + 1 = j + 1
      BY <2>1, <2>3, <1>9 DEF Queued
    <3> QED BY <3>1, <1>1
  <2> QED BY <2>1, <2>2, <2>3 DEF Queued
<1>12. ServiceAllowed'
  BY <1>1, <1>3, <1>4 DEF ServiceAllowed, AuthTypeOK
<1>13. EntryServed'
  <2> SUFFICES ASSUME NEW x \in entries, verdict[x] = "none"
               PROVE  x \in Active' \/ x \in closing \/ \E i \in DOMAIN mailbox' : mailbox'[i] = x
    BY DEF EntryServed
  <2>1. x \in Requests
    BY DEF AuthTypeOK
  <2>2. CASE x \in Active
    BY <2>1, <2>2, <1>4 DEF Active, AuthTypeOK
  <2>3. CASE \E i \in DOMAIN mailbox : mailbox[i] = x
    <3> PICK i \in DOMAIN mailbox : mailbox[i] = x
      BY <2>3
    <3>1. CASE i = 1
      BY <3>1, <1>1, <1>4 DEF Active, AuthTypeOK
    <3>2. CASE i # 1
      <4>1. i - 1 \in DOMAIN mailbox' /\ mailbox'[i - 1] = mailbox[(i - 1) + 1] /\ (i - 1) + 1 = i
        BY <3>2, <1>1
      <4> QED BY <4>1
    <3> QED BY <3>1, <3>2
  <2> QED BY <2>2, <2>3 DEF EntryServed
<1>14. Bounded'
  <2>1. Tasks' \subseteq Tasks \cup {r} /\ Tasks \cup {r} \subseteq Requests
    BY <1>1, <1>4 DEF Tasks, AuthTypeOK
  <2>2. /\ Cardinality(Tasks') <= Cardinality(Tasks \cup {r})
        /\ Cardinality(Tasks \cup {r}) <= Cardinality(Tasks) + 1
    BY <1>1, <2>1, FewerRequests, OneMoreRequest
  <2>3. /\ Cardinality(Tasks) \in Nat /\ Cardinality(Tasks') \in Nat
        /\ Cardinality(Tasks \cup {r}) \in Nat
    BY <2>1, RequestsFinite
  <2> QED BY <1>1, <2>2, <2>3, CapacityAssumption DEF Bounded
<1> QED BY <1>5, <1>6, <1>7, <1>8, <1>10, <1>11, <1>12, <1>13, <1>14

\* AuthReceiver::drop closes the channel with every entry on its list.
LEMMA CloseReceiverStep ==
    ASSUME AuthInv, CloseReceiver
    PROVE  AuthInv' /\ AuthEffect
<1> USE DEF AuthInv, CloseReceiver
<1>1. mailbox' = <<>> /\ <<>> \in Seq(Requests) /\ Len(<<>>) = 0 /\ DOMAIN mailbox' = {}
  BY EmptySeq
<1>2. AuthTypeOK'
  BY <1>1 DEF AuthTypeOK
<1>3. AuthEffect
  BY DEF AuthEffect, CallsUndecided
<1>4. Answerable' /\ CallsUndecided' /\ Heard' /\ ServiceAllowed'
  BY DEF Answerable, CallsUndecided, Heard, ServiceAllowed
<1>5. NeverAsked' /\ Queued'
  BY <1>1 DEF NeverAsked, Queued
<1>6. EntryServed'
  BY DEF EntryServed, Active
<1>7. Bounded'
  <2>1. Tasks' = Tasks
    BY DEF Tasks
  <2> QED BY <1>1, <2>1, CapacityAssumption DEF Bounded
<1> QED BY <1>2, <1>3, <1>4, <1>5, <1>6, <1>7

\* The loop ends.
LEMMA StopStep ==
    ASSUME AuthInv, Stop
    PROVE  AuthInv' /\ AuthEffect
<1> USE DEF AuthInv, Stop
<1>1. AuthTypeOK'
  BY DEF AuthTypeOK
<1>2. AuthEffect
  BY DEF AuthEffect, CallsUndecided
<1>3. Answerable' /\ CallsUndecided' /\ Heard' /\ ServiceAllowed' /\ NeverAsked' /\ Queued'
  BY DEF Answerable, CallsUndecided, Heard, ServiceAllowed, NeverAsked, Queued
<1>4. EntryServed'
  BY DEF EntryServed, Active
<1>5. Bounded'
  BY DEF Bounded, Tasks
<1> QED BY <1>1, <1>2, <1>3, <1>4, <1>5

\* Every step of the table and its workers.
LEMMA AuthStep ==
    ASSUME AuthInv, AuthNext
    PROVE  AuthInv' /\ AuthEffect
<1>1. CASE Spawn
  BY <1>1, SpawnStep
<1>2. CASE Stop
  BY <1>2, StopStep
<1>3. CASE CloseReceiver
  BY <1>3, CloseReceiverStep
<1>4. ASSUME NEW r \in Requests, StartWorker(r)
      PROVE  AuthInv' /\ AuthEffect
  <2> DEFINE s == IF r \in entries THEN "begin" ELSE "finished"
  <2>1. s \in TaskStates \ {"none"} /\ s # "release" /\ (s \in {"finished", "joined"} => r \notin entries)
    BY DEF TaskStates
  <2>2. task[r] = "spawned" /\ task' = [task EXCEPT ![r] = s] /\ heard' = heard
        /\ UNCHANGED <<entries, fallback, verdict, mailbox, receiver, closing, running, ping>>
    BY <1>4 DEF StartWorker
  <2>3. heard' \in [Requests -> Verdicts \cup {"unheard", "failed"}]
    BY <2>2 DEF AuthInv, AuthTypeOK
  <2> HIDE DEF s
  <2> QED BY <2>1, <2>2, <2>3, WorkerMoves
<1>5. ASSUME NEW r \in Requests, BeginReply(r)
      PROVE  AuthInv' /\ AuthEffect
  <2>1. task[r] = "begin" /\ task' = [task EXCEPT ![r] = "wait"] /\ heard' = heard
        /\ UNCHANGED <<entries, fallback, verdict, mailbox, receiver, closing, running, ping>>
    BY <1>5 DEF BeginReply
  <2>2. heard' \in [Requests -> Verdicts \cup {"unheard", "failed"}]
    BY <2>1 DEF AuthInv, AuthTypeOK
  <2>3. "wait" \in TaskStates \ {"none"}
    BY DEF TaskStates
  <2> QED BY <2>1, <2>2, <2>3, WorkerMoves
<1>6. ASSUME NEW r \in Requests, BeginEnds(r)
      PROVE  AuthInv' /\ AuthEffect
  <2>1. PICK answer \in {"none", "deny"} :
          Complete(r, answer) /\ heard' = [heard EXCEPT ![r] = IF answer = "none" THEN "failed" ELSE "deny"]
    BY <1>6 DEF BeginEnds
  <2>2. task[r] = "begin" /\ task' = [task EXCEPT ![r] = "finished"]
        /\ UNCHANGED <<fallback, mailbox, receiver, closing, running>>
    BY <1>6 DEF BeginEnds
  <2>3. /\ heard' \in [Requests -> Verdicts \cup {"unheard", "failed"}]
        /\ \A x \in Requests : x # r => heard'[x] = heard[x]
        /\ task' \in [Requests -> TaskStates] /\ task'[r] = "finished"
        /\ \A x \in Requests : x # r => task'[x] = task[x]
    BY <2>1, <2>2 DEF AuthInv, AuthTypeOK, TaskStates, Verdicts
  <2>4. answer \in Verdicts \cup {"none"} /\ answer # "allow"
    BY DEF Verdicts
  <2> QED BY <2>1, <2>2, <2>3, <2>4, CompletingStep
<1>7. ASSUME NEW r \in Requests, WaitEnds(r)
      PROVE  AuthInv' /\ AuthEffect
  <2>1. PICK answer \in Verdicts \cup {"failed"} : heard' = [heard EXCEPT ![r] = answer]
    BY <1>7 DEF WaitEnds, Verdicts
  <2>2. task[r] = "wait" /\ task' = [task EXCEPT ![r] = "release"]
        /\ UNCHANGED <<entries, fallback, verdict, mailbox, receiver, closing, running, ping>>
    BY <1>7 DEF WaitEnds
  <2>3. /\ heard' \in [Requests -> Verdicts \cup {"unheard", "failed"}]
        /\ heard'[r] \in Verdicts \cup {"failed"}
        /\ \A x \in Requests : x # r => heard'[x] = heard[x]
    BY <2>1 DEF AuthInv, AuthTypeOK
  <2>4. "release" \in TaskStates \ {"none"}
    BY DEF TaskStates
  <2> QED BY <2>2, <2>3, <2>4, WorkerMoves
<1>8. ASSUME NEW r \in Requests, Release(r)
      PROVE  AuthInv' /\ AuthEffect
  <2> DEFINE answer == IF heard[r] = "failed" THEN "none" ELSE heard[r]
  <2>1. Complete(r, answer) /\ task[r] = "release" /\ task' = [task EXCEPT ![r] = "finished"]
        /\ UNCHANGED <<fallback, mailbox, receiver, closing, running, heard>>
    BY <1>8 DEF Release
  <2>2. answer \in Verdicts \cup {"none"} /\ (answer = "allow" => heard[r] = "allow")
    BY <2>1 DEF AuthInv, Heard, Verdicts
  <2>3. /\ heard' \in [Requests -> Verdicts \cup {"unheard", "failed"}]
        /\ \A x \in Requests : x # r => heard'[x] = heard[x]
        /\ task' \in [Requests -> TaskStates] /\ task'[r] = "finished"
        /\ \A x \in Requests : x # r => task'[x] = task[x]
    BY <2>1 DEF AuthInv, AuthTypeOK, TaskStates
  <2> HIDE DEF answer
  <2> QED BY <2>1, <2>2, <2>3, CompletingStep
<1>9. ASSUME NEW r \in Requests, Join(r)
      PROVE  AuthInv' /\ AuthEffect
  <2>1. task[r] = "finished" /\ task' = [task EXCEPT ![r] = "joined"] /\ heard' = heard
        /\ UNCHANGED <<entries, fallback, verdict, mailbox, receiver, closing, running, ping>>
    BY <1>9 DEF Join
  <2>2. heard' \in [Requests -> Verdicts \cup {"unheard", "failed"}]
    BY <2>1 DEF AuthInv, AuthTypeOK
  <2>3. "joined" \in TaskStates \ {"none"} /\ r \notin Active
    BY <2>1 DEF TaskStates, Active
  <2> QED BY <2>1, <2>2, <2>3, WorkerMoves
<1>10. ASSUME NEW r \in Requests, Abort(r)
       PROVE  AuthInv' /\ AuthEffect
  <2>1. Complete(r, "none") /\ task[r] \in {"spawned", "begin", "wait", "release"}
        /\ task' = [task EXCEPT ![r] = "joined"]
        /\ UNCHANGED <<fallback, mailbox, receiver, closing, running, heard>>
    BY <1>10 DEF Abort
  <2>2. /\ heard' \in [Requests -> Verdicts \cup {"unheard", "failed"}]
        /\ \A x \in Requests : x # r => heard'[x] = heard[x]
        /\ task' \in [Requests -> TaskStates] /\ task'[r] = "joined"
        /\ \A x \in Requests : x # r => task'[x] = task[x]
    BY <2>1 DEF AuthInv, AuthTypeOK, TaskStates
  <2> QED BY <2>1, <2>2, CompletingStep
<1>11. ASSUME NEW r \in Requests, CompleteOnClose(r)
       PROVE  AuthInv' /\ AuthEffect
  <2>1. Complete(r, "none") /\ closing' = closing \ {r}
        /\ UNCHANGED <<fallback, mailbox, receiver, running, task, heard>>
    BY <1>11 DEF CompleteOnClose
  <2>2. /\ heard' \in [Requests -> Verdicts \cup {"unheard", "failed"}]
        /\ task' \in [Requests -> TaskStates]
    BY <2>1 DEF AuthInv, AuthTypeOK
  <2> QED BY <2>1, <2>2, CompletingStep
<1> QED BY <1>1, <1>2, <1>3, <1>4, <1>5, <1>6, <1>7, <1>8, <1>9, <1>10, <1>11 DEF AuthNext, WorkerStep

-----------------------------------------------------------------------------
(* Steps of the compositor and of the method calls, seen from the table. *)

LEMMA AuthUnchanged ==
    ASSUME AuthInv, UNCHANGED authVars
    PROVE  AuthInv'
BY DEF AuthInv, authVars, AuthTypeOK, Answerable, Heard, NeverAsked, Queued, ServiceAllowed,
       CallsUndecided, EntryServed, Bounded, Active, Tasks

\* Dropped tickets and vanished owners only shrink the table.
LEMMA RemovalStep ==
    ASSUME AuthInv, entries' \subseteq entries,
           UNCHANGED <<fallback, verdict, mailbox, receiver, closing, running, task, heard, ping>>
    PROVE  AuthInv'
<1> USE DEF AuthInv
<1>1. AuthTypeOK'
  BY DEF AuthTypeOK
<1>2. Answerable' /\ Heard' /\ NeverAsked' /\ Queued' /\ ServiceAllowed' /\ CallsUndecided'
  BY DEF Answerable, Heard, NeverAsked, Queued, ServiceAllowed, CallsUndecided
<1>3. EntryServed'
  BY DEF EntryServed, Active
<1>4. Bounded'
  <2>1. Tasks' = Tasks
    BY DEF Tasks
  <2>2. /\ Cardinality(entries') <= Cardinality(entries)
        /\ Cardinality(entries') \in Nat /\ Cardinality(entries) \in Nat
    BY FewerRequests, RequestsFinite DEF AuthTypeOK
  <2> QED BY <2>1, <2>2, CapacityAssumption DEF Bounded
<1> QED BY <1>1, <1>2, <1>3, <1>4

\* An admitted request gets its entry and its place in the channel.
LEMMA RegisterStep ==
    ASSUME AuthInv,
           NEW r \in Requests, NEW answer \in Verdicts, NEW subject,
           fallback[r] = "unasked", Admission(subject) = "Ok", Register(r, answer)
    PROVE  AuthInv'
<1> USE DEF AuthInv, Register
<1>1. /\ Cardinality(entries) < Capacity
      /\ Len(mailbox) < Capacity
  <2>1. Cardinality(entries) \in Nat /\ Len(mailbox) \in Nat
    BY RequestsFinite, LenProperties DEF AuthTypeOK
  <2> QED BY <2>1, CapacityAssumption DEF Admission
<1>2. /\ mailbox \in Seq(Requests)
      /\ mailbox' \in Seq(Requests)
      /\ Len(mailbox) \in Nat
      /\ Len(mailbox') = Len(mailbox) + 1
      /\ DOMAIN mailbox = 1..Len(mailbox) /\ DOMAIN mailbox' = 1..Len(mailbox')
      /\ \A i \in 1..Len(mailbox) : mailbox'[i] = mailbox[i]
      /\ mailbox'[Len(mailbox) + 1] = r
  BY AppendProperties, LenProperties DEF AuthTypeOK
<1>3. r \notin entries /\ verdict[r] = "none" /\ task[r] = "none" /\ \A i \in DOMAIN mailbox : mailbox[i] # r
  BY DEF NeverAsked
<1>4. AuthTypeOK'
  BY <1>2 DEF AuthTypeOK
<1>5. Answerable' /\ CallsUndecided'
  BY <1>3 DEF Answerable, CallsUndecided, AuthTypeOK
<1>6. Heard'
  BY DEF Heard
<1>7. NeverAsked'
  <2> SUFFICES ASSUME NEW x \in Requests, fallback'[x] = "unasked"
               PROVE  /\ x \notin entries'
                      /\ verdict[x] = "none"
                      /\ task[x] = "none"
                      /\ \A i \in DOMAIN mailbox' : mailbox'[i] # x
    BY DEF NeverAsked
  <2>1. x # r /\ fallback[x] = "unasked"
    BY DEF AuthTypeOK, Verdicts
  <2> QED BY <2>1, <1>2 DEF NeverAsked
<1>8. Queued'
  BY <1>2, <1>3 DEF Queued
<1>9. ServiceAllowed'
  BY <1>3 DEF ServiceAllowed, AuthTypeOK
<1>10. EntryServed'
  <2> SUFFICES ASSUME NEW x \in entries'
               PROVE  \/ verdict[x] # "none" /\ ping
                      \/ /\ verdict[x] = "none"
                         /\ x \in Active' \/ x \in closing \/ \E i \in DOMAIN mailbox' : mailbox'[i] = x
    BY DEF EntryServed
  <2>1. CASE x = r
    BY <2>1, <1>2, <1>3
  <2>2. CASE x \in entries
    BY <2>2, <1>2 DEF EntryServed, Active
  <2> QED BY <2>1, <2>2
<1>11. Bounded'
  <2>1. Tasks' = Tasks
    BY DEF Tasks
  <2>2. entries \subseteq Requests /\ entries' \subseteq Requests
    BY DEF AuthTypeOK
  <2>3. Cardinality(entries') <= Cardinality(entries) + 1
    BY <2>2, OneMoreRequest
  <2>4. Cardinality(entries') \in Nat /\ Cardinality(entries) \in Nat
    BY <2>2, RequestsFinite
  <2> QED BY <1>1, <1>2, <2>1, <2>3, <2>4, CapacityAssumption DEF Bounded
<1> QED BY <1>4, <1>5, <1>6, <1>7, <1>8, <1>9, <1>10, <1>11

-----------------------------------------------------------------------------
(* Steps of the composition. *)

\* Steps of the table and its workers keep the frames and calls in order.
LEMMA AuthEffectStep ==
    ASSUME AuthInv, CaptureInv, AuthEffect, UNCHANGED captureVars
    PROVE  CaptureInv'
<1> USE DEF CaptureInv, captureVars, AuthEffect
<1>1. CaptureTypeOK'
  BY DEF CaptureTypeOK
<1>2. ParkedHasEntry'
  BY DEF ParkedHasEntry
<1>3. Untried' /\ CallsWaiting'
  BY DEF Untried, CallsWaiting
<1>4. GrantedAllowed'
  BY DEF GrantedAllowed, Granted
<1> QED BY <1>1, <1>2, <1>3, <1>4

\* A frame changes state without the table.
LEMMA FrameMoves ==
    ASSUME AuthInv, CaptureInv,
           NEW f \in Frames, NEW s \in FrameStates \ {"new", "parked"},
           frame' = [frame EXCEPT ![f] = s],
           frame[f] \notin {"parked", "killed"} \/ s = "killed",
           s \in {"ready", "copied", "delivered"} => frame[f] \in {"new", "ready", "copied", "delivered"},
           UNCHANGED <<authVars, policy, parked, call>>
    PROVE  AuthInv' /\ CaptureInv'
<1> USE DEF CaptureInv, authVars
<1>0. AuthInv'
  BY AuthUnchanged
<1>1. CaptureTypeOK'
  BY DEF CaptureTypeOK
<1>2. ParkedHasEntry'
  BY DEF ParkedHasEntry, CaptureTypeOK
<1>3. Untried' /\ CallsWaiting'
  BY DEF Untried, CallsWaiting, CaptureTypeOK
<1>4. GrantedAllowed'
  <2> SUFFICES ASSUME NEW r \in Requests, Granted(r)'
               PROVE  fallback[r] = "unasked" \/ verdict[r] = "allow"
    BY DEF GrantedAllowed
  <2>1. CASE r \in Calls \/ r # f
    BY <2>1 DEF GrantedAllowed, Granted, Requests, CaptureTypeOK
  <2>2. CASE r \notin Calls /\ r = f
    <3>1. s \in {"ready", "copied", "delivered"}
      BY <2>2 DEF Granted, CaptureTypeOK
    <3>2. CASE frame[f] = "new"
      BY <2>2, <3>2 DEF Untried
    <3>3. CASE frame[f] \in {"ready", "copied", "delivered"}
      BY <2>2, <3>3 DEF GrantedAllowed, Granted, Requests
    <3> QED BY <3>1, <3>2, <3>3
  <2> QED BY <2>1, <2>2
<1> QED BY <1>0, <1>1, <1>2, <1>3, <1>4

\* A call changes state without the table.
LEMMA CallMoves ==
    ASSUME AuthInv, CaptureInv,
           NEW c \in Calls, NEW s \in CallStates \ {"idle", "waiting"},
           call' = [call EXCEPT ![c] = s],
           c \notin entries,
           s \in Asking => call[c] = "idle",
           s \in {"granted", "captured"} =>
              call[c] \in {"idle", "granted", "captured"} \cup Asking \/ verdict[c] = "allow",
           UNCHANGED <<authVars, policy, frame, parked>>
    PROVE  AuthInv' /\ CaptureInv'
<1> USE DEF CaptureInv, authVars
<1>0. AuthInv'
  BY AuthUnchanged
<1>1. CaptureTypeOK'
  BY DEF CaptureTypeOK
<1>2. ParkedHasEntry'
  BY DEF ParkedHasEntry
<1>3. Untried'
  BY DEF Untried, CaptureTypeOK, Asking
<1>4. CallsWaiting'
  BY DEF CallsWaiting, CaptureTypeOK
<1>5. GrantedAllowed'
  <2> SUFFICES ASSUME NEW r \in Requests, Granted(r)'
               PROVE  fallback[r] = "unasked" \/ verdict[r] = "allow"
    BY DEF GrantedAllowed
  <2>1. CASE r \notin Calls \/ r # c
    BY <2>1 DEF GrantedAllowed, Granted, Requests, CaptureTypeOK
  <2>2. CASE r \in Calls /\ r = c
    <3>1. s \in {"granted", "captured"}
      BY <2>2 DEF Granted, CaptureTypeOK
    <3>2. CASE call[c] \in {"idle"} \cup Asking
      BY <2>2, <3>2 DEF Untried
    <3>3. CASE call[c] \in {"granted", "captured"}
      BY <2>2, <3>3 DEF GrantedAllowed, Granted, Requests
    <3>4. CASE verdict[c] = "allow"
      BY <2>2, <3>4
    <3> QED BY <3>1, <3>2, <3>3, <3>4
  <2> QED BY <2>1, <2>2
<1> QED BY <1>0, <1>1, <1>2, <1>3, <1>4, <1>5

LEMMA CaptureAskStep ==
    ASSUME IInv, NEW f \in Frames, NEW subject, CaptureAsk(f, subject)
    PROVE  IInv'
<1> USE DEF IInv
<1>1. CASE subject # "unknown" /\ Admission(subject) = "Ok"
  <2> USE DEF CaptureInv
  <2>1. /\ Register(f, FallbackOf(policy))
        /\ frame[f] = "new"
        /\ frame' = [frame EXCEPT ![f] = "parked"]
        /\ parked' = parked \cup {f}
        /\ UNCHANGED <<policy, call>>
    BY <1>1 DEF CaptureAsk, SetFrame
  <2>2. f \in Requests /\ f \notin Calls /\ fallback[f] = "unasked" /\ FallbackOf(policy) \in Verdicts
    BY <2>1, FramesCallsAssumption DEF Requests, Untried, FallbackOf, Verdicts
  <2>3. AuthInv'
    BY <1>1, <2>1, <2>2, RegisterStep
  <2>4. CaptureTypeOK'
    BY <2>1 DEF CaptureTypeOK, FrameStates
  <2>5. entries' = entries \cup {f} /\ verdict' = verdict
        /\ fallback' = [fallback EXCEPT ![f] = FallbackOf(policy)]
    BY <2>1 DEF Register
  <2>6. ParkedHasEntry'
    BY <2>1, <2>2, <2>5 DEF ParkedHasEntry, CaptureTypeOK
  <2>7. Untried' /\ CallsWaiting'
    BY <2>1, <2>2, <2>5 DEF Untried, CallsWaiting, CaptureTypeOK, AuthInv, AuthTypeOK, Requests
  <2>8. GrantedAllowed'
    <3> SUFFICES ASSUME NEW r \in Requests, Granted(r)'
                 PROVE  fallback'[r] = "unasked" \/ verdict[r] = "allow"
      BY <2>5 DEF GrantedAllowed
    <3>1. r # f
      BY <2>1, <2>2 DEF Granted, CaptureTypeOK
    <3>2. Granted(r) /\ fallback'[r] = fallback[r]
      BY <2>1, <2>5, <3>1 DEF Granted, CaptureTypeOK, Requests, AuthInv, AuthTypeOK
    <3> QED BY <3>2 DEF GrantedAllowed
  <2> QED BY <2>3, <2>4, <2>6, <2>7, <2>8
<1>2. CASE ~ (subject # "unknown" /\ Admission(subject) = "Ok")
  <2>1. PICK s \in {"ready", "failed"} : frame' = [frame EXCEPT ![f] = s]
    BY <1>2 DEF CaptureAsk, SetFrame
  <2>2. frame[f] = "new" /\ UNCHANGED <<authVars, policy, parked, call>>
    BY <1>2 DEF CaptureAsk
  <2>3. s \in FrameStates \ {"new", "parked"}
    BY DEF FrameStates
  <2> QED BY <2>1, <2>2, <2>3, FrameMoves
<1> QED BY <1>1, <1>2

LEMMA CancelFrameStep ==
    ASSUME IInv, NEW f \in Frames, CancelFrame(f)
    PROVE  IInv'
<1> USE DEF IInv, CaptureInv
<1>1. /\ frame' = [frame EXCEPT ![f] = "gone"]
      /\ parked' = parked \ {f}
      /\ entries' = IF f \in parked THEN entries \ {f} ELSE entries
      /\ UNCHANGED <<fallback, verdict, mailbox, receiver, closing, running, task, heard, ping,
                     policy, call>>
  BY DEF CancelFrame, SetFrame
<1>2. entries' \subseteq entries
  BY <1>1
<1>3. AuthInv'
  BY <1>1, <1>2, RemovalStep
<1>4. CaptureTypeOK'
  BY <1>1 DEF CaptureTypeOK, FrameStates
<1>5. ParkedHasEntry'
  BY <1>1 DEF ParkedHasEntry, CaptureTypeOK
<1>6. Untried' /\ CallsWaiting'
  BY <1>1, <1>2 DEF Untried, CallsWaiting, CaptureTypeOK
<1>7. GrantedAllowed'
  BY <1>1 DEF GrantedAllowed, Granted, CaptureTypeOK, Requests
<1> QED BY <1>3, <1>4, <1>5, <1>6, <1>7

\* The decided entries leave the table with their frames.
LEMMA DrainStep ==
    ASSUME IInv, Drain
    PROVE  IInv'
<1> USE DEF IInv, CaptureInv
<1> DEFINE ready == {r \in entries : verdict[r] # "none"}
<1>1. /\ entries' = entries \ ready
      /\ parked' = parked \ ready
      /\ frame' = [f \in Frames |-> IF f \in ready \cap parked /\ frame[f] = "parked"
                                    THEN Resumed(f) ELSE frame[f]]
      /\ ping' = FALSE
      /\ UNCHANGED <<fallback, verdict, mailbox, receiver, closing, running, task, heard, policy, call>>
  BY DEF Drain
<1>2. /\ \A r \in entries' : verdict[r] = "none" /\ r \in entries
      /\ entries' \subseteq entries
  BY <1>1
<1>3. \A f \in Frames : Resumed(f) \in {"ready", "failed"}
                        /\ (Resumed(f) = "ready" => verdict[f] # "deny")
  BY DEF Resumed
<1>4. AuthInv'
  <2> USE DEF AuthInv
  <2>1. AuthTypeOK'
    BY <1>1, <1>2 DEF AuthTypeOK
  <2>2. Answerable' /\ Heard' /\ NeverAsked' /\ Queued' /\ ServiceAllowed' /\ CallsUndecided'
    BY <1>1, <1>2 DEF Answerable, Heard, NeverAsked, Queued, ServiceAllowed, CallsUndecided
  <2>3. EntryServed'
    BY <1>1, <1>2 DEF EntryServed, Active
  <2>4. Bounded'
    <3>1. Tasks' = Tasks
      BY <1>1 DEF Tasks
    <3>2. /\ Cardinality(entries') <= Cardinality(entries)
          /\ Cardinality(entries') \in Nat /\ Cardinality(entries) \in Nat
      BY <1>2, FewerRequests, RequestsFinite DEF AuthTypeOK
    <3> QED BY <1>1, <3>1, <3>2, CapacityAssumption DEF Bounded
  <2> QED BY <2>1, <2>2, <2>3, <2>4
<1>5. CaptureTypeOK'
  BY <1>1, <1>3 DEF CaptureTypeOK, FrameStates
<1>6. ParkedHasEntry'
  <2>1. parked' = entries' \cap Frames
    BY <1>1 DEF ParkedHasEntry
  <2>2. ASSUME NEW f \in Frames
        PROVE  /\ frame'[f] = "parked" => f \in parked'
               /\ f \in parked' => frame'[f] \in {"parked", "killed"}
    <3>1. CASE f \in ready \cap parked /\ frame[f] = "parked"
      BY <1>1, <1>3, <3>1
    <3>2. CASE ~ (f \in ready \cap parked /\ frame[f] = "parked")
      <4>1. frame'[f] = frame[f]
        BY <1>1, <3>2
      <4>2. frame[f] = "parked" => f \in parked
        BY DEF ParkedHasEntry
      <4>3. f \in parked => frame[f] \in {"parked", "killed"}
        BY DEF ParkedHasEntry
      <4>4. f \in parked' <=> f \in parked /\ f \notin ready
        BY <1>1
      <4> HIDE DEF ready
      <4> QED BY <3>2, <4>1, <4>2, <4>3, <4>4
    <3> QED BY <3>1, <3>2
  <2> QED BY <2>1, <2>2 DEF ParkedHasEntry
<1>7. Untried' /\ CallsWaiting'
  BY <1>1, <1>2, <1>3 DEF Untried, CallsWaiting, CaptureTypeOK
<1>8. GrantedAllowed'
  <2> SUFFICES ASSUME NEW r \in Requests, Granted(r)'
               PROVE  fallback[r] = "unasked" \/ verdict[r] = "allow"
    BY <1>1 DEF GrantedAllowed
  <2>1. CASE r \in Frames /\ r \notin Calls /\ r \in ready /\ frame[r] = "parked" /\ r \in parked
    <3>1. frame'[r] = Resumed(r)
      BY <1>1, <2>1
    <3>2. Resumed(r) = "ready"
      BY <2>1, <3>1, <1>3 DEF Granted
    <3>3. verdict[r] \in {"allow", "deny", "none"} /\ verdict[r] # "none" /\ verdict[r] # "deny"
      BY <2>1, <3>2, <1>3 DEF AuthInv, AuthTypeOK, Verdicts
    <3> QED BY <3>3
  <2>2. CASE ~ (r \in Frames /\ r \notin Calls /\ r \in ready /\ frame[r] = "parked" /\ r \in parked)
    <3>1. Granted(r)
      BY <1>1, <2>2 DEF Granted, Requests
    <3> QED BY <3>1 DEF GrantedAllowed
  <2> QED BY <2>1, <2>2
<1> QED BY <1>4, <1>5, <1>6, <1>7, <1>8

LEMMA CallAuthorizeStep ==
    ASSUME IInv, NEW c \in Calls, NEW subject, CallAuthorize(c, subject)
    PROVE  IInv'
<1> USE DEF IInv
<1>0. call[c] \in Asking /\ fallback[c] = "unasked" /\ c \in Requests /\ c \notin entries
  BY DEF CallAuthorize, CaptureInv, Untried, Requests, AuthInv, NeverAsked
<1>1. CASE subject # "unknown" /\ Admission(subject) = "Ok"
  <2> USE DEF CaptureInv
  <2>1. /\ Register(c, FallbackOf(call[c]))
        /\ call' = [call EXCEPT ![c] = "waiting"]
        /\ UNCHANGED <<policy, frame, parked>>
    BY <1>1 DEF CallAuthorize, SetCall
  <2>2. c \notin Frames /\ FallbackOf(call[c]) \in Verdicts
    BY FramesCallsAssumption DEF FallbackOf, Verdicts
  <2>3. AuthInv'
    BY <1>0, <1>1, <2>1, <2>2, RegisterStep
  <2>4. CaptureTypeOK'
    BY <2>1 DEF CaptureTypeOK, CallStates
  <2>5. entries' = entries \cup {c} /\ verdict' = verdict
        /\ fallback' = [fallback EXCEPT ![c] = FallbackOf(call[c])]
    BY <2>1 DEF Register
  <2>6. ParkedHasEntry'
    BY <2>1, <2>2, <2>5 DEF ParkedHasEntry
  <2>7. Untried' /\ CallsWaiting'
    BY <2>1, <2>2, <2>5 DEF Untried, CallsWaiting, CaptureTypeOK, AuthInv, AuthTypeOK, Requests, Asking
  <2>8. GrantedAllowed'
    <3> SUFFICES ASSUME NEW r \in Requests, Granted(r)'
                 PROVE  fallback'[r] = "unasked" \/ verdict[r] = "allow"
      BY <2>5 DEF GrantedAllowed
    <3>1. r # c
      BY <2>1, <2>2 DEF Granted, CaptureTypeOK
    <3>2. Granted(r) /\ fallback'[r] = fallback[r]
      BY <2>1, <2>5, <3>1 DEF Granted, CaptureTypeOK, Requests, AuthInv, AuthTypeOK
    <3> QED BY <3>2 DEF GrantedAllowed
  <2> QED BY <2>3, <2>4, <2>6, <2>7, <2>8
<1>2. CASE ~ (subject # "unknown" /\ Admission(subject) = "Ok")
  <2>1. PICK s \in {"granted", "refused"} : call' = [call EXCEPT ![c] = s]
    BY <1>2 DEF CallAuthorize, SetCall
  <2>2. UNCHANGED <<authVars, policy, frame, parked>>
    BY <1>2 DEF CallAuthorize
  <2>3. s \in CallStates \ {"idle", "waiting"} /\ s \notin Asking
    BY DEF CallStates, Asking
  <2> QED BY <1>0, <2>1, <2>2, <2>3, CallMoves
<1> QED BY <1>1, <1>2

LEMMA DisconnectStep ==
    ASSUME IInv, NEW o \in Owners, Disconnect(o)
    PROVE  IInv'
<1> USE DEF IInv, CaptureInv, Disconnect, captureVars
<1>1. entries' \subseteq entries /\ entries' \cap Frames = entries \cap Frames
  OBVIOUS
<1>2. AuthInv'
  BY <1>1, RemovalStep
<1>3. CaptureTypeOK' /\ ParkedHasEntry'
  BY <1>1 DEF CaptureTypeOK, ParkedHasEntry
<1>4. Untried' /\ CallsWaiting' /\ GrantedAllowed'
  BY <1>1 DEF Untried, CallsWaiting, GrantedAllowed, Granted
<1> QED BY <1>2, <1>3, <1>4

LEMMA FrameStepPreserves ==
    ASSUME IInv, NEW f \in Frames, FrameStep(f)
    PROVE  IInv'
<1> USE DEF IInv
<1>1. \A s \in FrameStates \ {"new", "parked"} : s \in FrameStates
  OBVIOUS
<1>2. CASE CaptureRejected(f)
  BY <1>2, FrameMoves DEF CaptureRejected, SetFrame, FrameStates
<1>3. CASE CaptureByPolicy(f)
  BY <1>3, FrameMoves DEF CaptureByPolicy, SetFrame, FrameStates
<1>4. CASE Copy(f)
  BY <1>4, FrameMoves DEF Copy, SetFrame, FrameStates
<1>5. CASE CopyUnannounced(f)
  BY <1>5, FrameMoves DEF CopyUnannounced, SetFrame, FrameStates
<1>6. CASE CompleteCapture(f)
  BY <1>6, FrameMoves DEF CompleteCapture, SetFrame, FrameStates
<1>7. CASE CancelFrame(f)
  BY <1>7, CancelFrameStep
<1>8. CASE \E subject \in Subjects : CaptureAsk(f, subject)
  BY <1>8, CaptureAskStep
<1> QED BY <1>2, <1>3, <1>4, <1>5, <1>6, <1>7, <1>8 DEF FrameStep

LEMMA CallStepPreserves ==
    ASSUME IInv, NEW c \in Calls, CallStep(c)
    PROVE  IInv'
<1> USE DEF IInv
<1>0. c \in Requests /\ (c \in entries => call[c] = "waiting")
  BY DEF CaptureInv, CallsWaiting, Requests
<1>1. CASE CallPolicy(c)
  <2>1. PICK s \in {"refused", "granted"} \cup Asking : call' = [call EXCEPT ![c] = s]
    BY <1>1 DEF CallPolicy, SetCall, CaptureInv, CaptureTypeOK, Policies, Asking
  <2>2. s \in CallStates \ {"idle", "waiting"}
    BY DEF CallStates, Asking
  <2> QED BY <1>0, <1>1, <2>1, <2>2, CallMoves DEF CallPolicy
<1>2. CASE CallVerdict(c)
  <2>1. PICK s \in {"granted", "refused"} :
          call' = [call EXCEPT ![c] = s] /\ (s = "granted" => verdict[c] = "allow")
    BY <1>2 DEF CallVerdict, SetCall
  <2>2. s \in CallStates \ {"idle", "waiting"} /\ s \notin Asking /\ s # "captured"
    BY DEF CallStates, Asking
  <2>3. c \notin entries /\ UNCHANGED <<authVars, policy, frame, parked>>
    BY <1>2 DEF CallVerdict
  <2> QED BY <2>1, <2>2, <2>3, CallMoves
<1>3. CASE CallScreenshot(c)
  BY <1>0, <1>3, CallMoves DEF CallScreenshot, SetCall, CallStates, Asking
<1>4. CASE \E subject \in Subjects : CallAuthorize(c, subject)
  BY <1>4, CallAuthorizeStep
<1> QED BY <1>1, <1>2, <1>3, <1>4 DEF CallStep

LEMMA StepPreserves == IInv /\ [Next]_vars => IInv'
<1> SUFFICES ASSUME IInv, [Next]_vars PROVE IInv'
  OBVIOUS
<1> USE DEF IInv
<1>1. CASE UNCHANGED vars
  <2>1. AuthInv'
    BY <1>1, AuthUnchanged DEF vars
  <2>2. CaptureInv'
    BY <1>1 DEF vars, authVars, captureVars, CaptureInv, CaptureTypeOK, ParkedHasEntry, Untried,
                CallsWaiting, GrantedAllowed, Granted
  <2> QED BY <2>1, <2>2
<1>2. CASE AuthNext /\ UNCHANGED captureVars
  BY <1>2, AuthStep, AuthEffectStep
<1>3. CASE Drain
  BY <1>3, DrainStep
<1>4. CASE \E f \in Frames : FrameStep(f)
  BY <1>4, FrameStepPreserves
<1>5. CASE \E c \in Calls : CallStep(c)
  BY <1>5, CallStepPreserves
<1>6. CASE \E p \in Policies : SetPolicy(p)
  <2>1. AuthInv'
    BY <1>6, AuthUnchanged DEF SetPolicy
  <2>2. CaptureInv'
    BY <1>6 DEF SetPolicy, authVars, CaptureInv, CaptureTypeOK, ParkedHasEntry, Untried,
                CallsWaiting, GrantedAllowed, Granted
  <2> QED BY <2>1, <2>2
<1>7. CASE \E o \in Owners : Disconnect(o)
  BY <1>7, DisconnectStep
<1> QED BY <1>1, <1>2, <1>3, <1>4, <1>5, <1>6, <1>7 DEF Next

-----------------------------------------------------------------------------
(* Theorems. *)

\* The invariant holds in every reachable state.
THEOREM Invariance == Spec => []IInv
<1>1. Init => IInv
  BY InitEstablishes
<1>2. IInv /\ [Next]_vars => IInv'
  BY StepPreserves
<1> QED BY <1>1, <1>2, PTL DEF Spec

\* Every variable keeps its type.
THEOREM CaptureTypes == Spec => []TypeOK
<1>1. IInv => TypeOK
  BY DEF IInv, AuthInv, CaptureInv, CaptureTypeOK, TypeOK
<1> QED BY <1>1, Invariance, PTL

\* A request registered under "ask" gets pixels only if its worker heard the
\* service allow it.
THEOREM CaptureConsentRequired == Spec => []ConsentRequired
<1>1. IInv => ConsentRequired
  BY DEF IInv, AuthInv, CaptureInv, GrantedAllowed, ServiceAllowed, ConsentRequired
<1> QED BY <1>1, Invariance, PTL

\* The compositor's parked frames are exactly the frames in the table.
THEOREM CaptureParkedHasEntry == Spec => []ParkedHasEntry
<1>1. IInv => ParkedHasEntry
  BY DEF IInv, CaptureInv
<1> QED BY <1>1, Invariance, PTL

\* Somebody is always going to decide an undecided entry, and a decided one
\* has woken the compositor.
THEOREM CaptureEntryServed == Spec => []EntryServed
<1>1. IInv => EntryServed
  BY DEF IInv, AuthInv
<1> QED BY <1>1, Invariance, PTL

\* The table, the channel and the workers stay within CAPACITY.
THEOREM CaptureBounded == Spec => []Bounded
<1>1. IInv => Bounded
  BY DEF IInv, AuthInv
<1> QED BY <1>1, Invariance, PTL

\* The three together.
THEOREM CaptureEntriesSound == Spec => []EntriesSound
<1> QED BY CaptureParkedHasEntry, CaptureEntryServed, CaptureBounded, PTL DEF EntriesSound

-----------------------------------------------------------------------------
(* The refinement: screen capture implements the consent protocol of       *)
(* CaptureConsent, and a policy of denial holds from the step after it was *)
(* set.                                                                    *)

\* The consent of one request.
ConsentFor(r) == IF r \in Calls THEN CallConsent(r) ELSE FrameConsent(r)

\* One request moves as the protocol allows, or not at all.
Follows(r) ==
    \/ ConsentFor(r)' = ConsentFor(r)
    \/ <<ConsentFor(r), ConsentFor(r)'>> \in Consent!Moves

LEMMA ConsentType ==
    ASSUME AuthInv, CaptureTypeOK, NEW r \in Requests
    PROVE  ConsentFor(r) \in Consent!States
<1>1. verdict[r] \in {"allow", "deny", "none"}
  BY DEF AuthInv, AuthTypeOK, Verdicts
<1>2. CASE r \in Calls
  BY <1>1, <1>2 DEF ConsentFor, CallConsent, Consent!States
<1>3. CASE r \notin Calls
  BY <1>1, <1>3 DEF ConsentFor, FrameConsent, Consent!States
<1> QED BY <1>2, <1>3

LEMMA InitConsent ==
    ASSUME Init
    PROVE  Consent!Init
<1> SUFFICES ASSUME NEW r \in Requests PROVE ConsentFor(r) = "new"
  BY DEF Consent!Init, ConsentOf, ConsentFor
<1>1. CASE r \in Calls
  BY <1>1 DEF Init, ConsentFor, CallConsent
<1>2. CASE r \notin Calls
  BY <1>2 DEF Init, ConsentFor, FrameConsent, Requests
<1> QED BY <1>1, <1>2

-----------------------------------------------------------------------------
(* Steps. *)

\* A request none of whose state changes stays where it is.
LEMMA StandsStill ==
    ASSUME NEW r \in Requests, verdict'[r] = verdict[r],
           r \in Calls => call'[r] = call[r] /\ (r \in entries' <=> r \in entries),
           r \notin Calls => frame'[r] = frame[r]
    PROVE  Follows(r)
<1>1. CASE r \in Calls
  BY <1>1 DEF Follows, ConsentFor, CallConsent
<1>2. CASE r \notin Calls
  BY <1>2 DEF Follows, ConsentFor, FrameConsent
<1> QED BY <1>1, <1>2

\* The table and its workers decide what was asked.
LEMMA AuthFollows ==
    ASSUME AuthInv, AuthInv', CaptureInv, AuthEffect, UNCHANGED captureVars, NEW r \in Requests
    PROVE  Follows(r)
<1>1. /\ verdict[r] \in {"allow", "deny", "none"} /\ verdict'[r] \in {"allow", "deny", "none"}
      /\ verdict[r] # "none" \/ r \notin entries => verdict'[r] = verdict[r]
  BY DEF AuthInv, AuthTypeOK, Verdicts, AuthEffect
<1>2. CASE r \in Calls
  <2>1. /\ r \in entries' => r \in entries
        /\ r \in entries => r \in entries' \/ verdict'[r] # "none"
        /\ r \in entries' => verdict'[r] = "none"
        /\ call'[r] = call[r]
    BY <1>2 DEF AuthEffect, captureVars
  <2> QED BY <1>1, <1>2, <2>1 DEF Follows, ConsentFor, CallConsent, Consent!Moves
<1>3. CASE r \notin Calls
  <2>1. frame'[r] = frame[r]
    BY DEF captureVars
  <2> QED BY <1>1, <1>3, <2>1 DEF Follows, ConsentFor, FrameConsent, Consent!Moves
<1> QED BY <1>2, <1>3

\* The compositor applies the verdicts it drained.
LEMMA DrainFollows ==
    ASSUME IInv, Drain, NEW r \in Requests
    PROVE  Follows(r)
<1> DEFINE ready == {x \in entries : verdict[x] # "none"}
<1>1. /\ entries' = entries \ ready
      /\ frame' = [f \in Frames |-> IF f \in ready \cap parked /\ frame[f] = "parked"
                                    THEN Resumed(f) ELSE frame[f]]
      /\ UNCHANGED <<verdict, policy, call>>
  BY DEF Drain
<1>2. CASE r \in Calls
  <2>1. r \in entries' <=> r \in entries
    BY <1>1, <1>2 DEF IInv, AuthInv, CallsUndecided
  <2> QED BY <1>1, <1>2, <2>1, StandsStill
<1>3. CASE r \notin Calls /\ r \in ready \cap parked /\ frame[r] = "parked"
  <2>1. frame'[r] = Resumed(r) /\ verdict[r] \in {"allow", "deny"}
    BY <1>1, <1>3 DEF IInv, AuthInv, AuthTypeOK, Verdicts, Requests
  <2>2. frame'[r] \in {"ready", "failed"} /\ (verdict[r] = "deny" => frame'[r] = "failed")
    BY <2>1 DEF Resumed
  <2> QED BY <1>1, <1>3, <2>1, <2>2 DEF Follows, ConsentFor, FrameConsent, Consent!Moves
<1>4. CASE r \notin Calls /\ ~ (r \in ready \cap parked /\ frame[r] = "parked")
  <2>1. frame'[r] = frame[r]
    BY <1>1, <1>4 DEF Requests
  <2> QED BY <1>1, <1>4, <2>1, StandsStill
<1> QED BY <1>2, <1>3, <1>4

LEMMA FrameFollows ==
    ASSUME IInv, NEW f \in Frames, FrameStep(f), NEW r \in Requests
    PROVE  Follows(r)
<1> USE FramesCallsAssumption
<1>1. /\ verdict' = verdict /\ call' = call
      /\ \E s \in FrameStates : frame' = [frame EXCEPT ![f] = s]
      /\ entries' \cap Calls = entries \cap Calls
  <2>1. CASE \E subject \in Subjects : CaptureAsk(f, subject)
    BY <2>1 DEF CaptureAsk, Register, SetFrame, FrameStates, authVars
  <2>2. CASE CancelFrame(f)
    BY <2>2 DEF CancelFrame, SetFrame, FrameStates
  <2>3. CASE CaptureRejected(f) \/ CaptureByPolicy(f) \/ Copy(f) \/ CopyUnannounced(f) \/ CompleteCapture(f)
    BY <2>3 DEF CaptureRejected, CaptureByPolicy, Copy, CopyUnannounced, CompleteCapture, SetFrame,
                FrameStates, authVars
  <2> QED BY <2>1, <2>2, <2>3 DEF FrameStep
<1>2. CASE r \in Calls \/ r # f
  <2>1. r \notin Calls => frame'[r] = frame[r]
    BY <1>1, <1>2 DEF Requests, IInv, CaptureInv, CaptureTypeOK
  <2>2. r \in Calls => (r \in entries' <=> r \in entries)
    BY <1>1
  <2> QED BY <1>1, <2>1, <2>2, StandsStill
<1>3. CASE r \notin Calls /\ r = f
  <2>1. verdict[f] \in {"allow", "deny", "none"} /\ frame \in [Frames -> FrameStates]
    BY <1>3 DEF IInv, AuthInv, AuthTypeOK, CaptureInv, CaptureTypeOK, Verdicts
  <2>2. frame[f] = "new" => verdict[f] = "none"
    BY <1>3 DEF IInv, CaptureInv, Untried, AuthInv, NeverAsked
  <2>3. \/ frame[f] = "new" /\ frame'[f] \in {"ready", "failed", "parked"}
        \/ frame[f] = "ready" /\ frame'[f] \in {"failed", "copied"}
        \/ frame[f] = "copied" /\ frame'[f] \in {"delivered", "failed"}
        \/ frame[f] \notin {"new", "ready"} /\ frame'[f] \in {"killed", "gone"}
        \/ frame[f] = "ready" /\ frame'[f] = "gone"
    <3>1. CASE \E subject \in Subjects : CaptureAsk(f, subject)
      BY <3>1, <2>1 DEF CaptureAsk, SetFrame
    <3>2. CASE CancelFrame(f)
      BY <3>2, <2>1 DEF CancelFrame, SetFrame
    <3>3. CASE CaptureRejected(f) \/ CaptureByPolicy(f) \/ Copy(f) \/ CopyUnannounced(f) \/ CompleteCapture(f)
      BY <3>3, <2>1 DEF CaptureRejected, CaptureByPolicy, Copy, CopyUnannounced, CompleteCapture, SetFrame
    <3> QED BY <3>1, <3>2, <3>3 DEF FrameStep
  <2>4. frame[f] \in FrameStates
    BY <2>1
  <2> QED BY <1>1, <1>3, <2>1, <2>2, <2>3, <2>4
          DEF Follows, ConsentFor, FrameConsent, Consent!Moves, FrameStates
<1> QED BY <1>2, <1>3

LEMMA CallFollows ==
    ASSUME IInv, NEW c \in Calls, CallStep(c), NEW r \in Requests
    PROVE  Follows(r)
<1> USE FramesCallsAssumption
<1>1. /\ verdict' = verdict /\ frame' = frame
      /\ \E s \in CallStates : call' = [call EXCEPT ![c] = s]
      /\ entries' \ {c} = entries \ {c}
  <2>1. CASE \E subject \in Subjects : CallAuthorize(c, subject)
    BY <2>1 DEF CallAuthorize, Register, SetCall, CallStates, authVars
  <2>2. CASE CallPolicy(c)
    BY <2>2 DEF CallPolicy, SetCall, CallStates, authVars, IInv, CaptureInv, CaptureTypeOK, Policies, Asking
  <2>3. CASE CallVerdict(c) \/ CallScreenshot(c)
    BY <2>3 DEF CallVerdict, CallScreenshot, SetCall, CallStates, authVars
  <2> QED BY <2>1, <2>2, <2>3 DEF CallStep
<1>2. CASE r # c
  <2>1. r \in Calls => call'[r] = call[r]
    BY <1>1, <1>2 DEF IInv, CaptureInv, CaptureTypeOK
  <2>2. r \in entries' <=> r \in entries
    BY <1>1, <1>2
  <2> QED BY <1>1, <2>1, <2>2, StandsStill
<1>3. CASE r = c
  <2>1. verdict[c] \in {"allow", "deny", "none"} /\ call \in [Calls -> CallStates] /\ call[c] \in CallStates
    BY <1>3 DEF IInv, AuthInv, AuthTypeOK, CaptureInv, CaptureTypeOK, Verdicts
  <2>2. call[c] \in {"idle"} \cup Asking => verdict[c] = "none"
    BY <1>3 DEF IInv, CaptureInv, Untried, AuthInv, NeverAsked
  <2>3. \/ call[c] = "idle" /\ call'[c] \in {"refused", "granted"} \cup Asking
        \/ call[c] \in Asking /\ call'[c] = "waiting" /\ c \in entries'
        \/ call[c] \in Asking /\ call'[c] \in {"refused", "granted"}
        \/ /\ call[c] = "waiting" /\ c \notin entries
           /\ call'[c] = IF verdict[c] = "allow" THEN "granted" ELSE "refused"
        \/ call[c] = "granted" /\ call'[c] \in {"captured", "refused"}
    <3>1. CASE \E subject \in Subjects : CallAuthorize(c, subject)
      BY <3>1, <2>1 DEF CallAuthorize, SetCall, Register
    <3>2. CASE CallPolicy(c)
      BY <3>2, <2>1 DEF CallPolicy, SetCall, IInv, CaptureInv, CaptureTypeOK, Policies, Asking
    <3>3. CASE CallVerdict(c)
      BY <3>3, <2>1 DEF CallVerdict, SetCall
    <3>4. CASE CallScreenshot(c)
      BY <3>4, <2>1 DEF CallScreenshot, SetCall
    <3> QED BY <3>1, <3>2, <3>3, <3>4 DEF CallStep
  <2> QED BY <1>1, <1>3, <2>1, <2>2, <2>3 DEF Follows, ConsentFor, CallConsent, Consent!Moves, Asking
<1> QED BY <1>2, <1>3

\* A vanished bus name withdraws its undecided requests.
LEMMA DisconnectFollows ==
    ASSUME IInv, NEW o \in Owners, Disconnect(o), NEW r \in Requests
    PROVE  Follows(r)
<1>1. entries' \subseteq entries /\ verdict' = verdict /\ call' = call /\ frame' = frame
  BY DEF Disconnect, captureVars
<1>2. CASE r \in Calls
  <2>1. r \in entries => verdict[r] = "none"
    BY <1>2 DEF IInv, AuthInv, CallsUndecided
  <2> QED BY <1>1, <1>2, <2>1 DEF Follows, ConsentFor, CallConsent, Consent!Moves
<1>3. CASE r \notin Calls
  BY <1>1, <1>3, StandsStill
<1> QED BY <1>2, <1>3

LEMMA StepFollows ==
    ASSUME IInv, IInv', [Next]_vars, NEW r \in Requests
    PROVE  Follows(r)
<1>1. CASE UNCHANGED vars
  BY <1>1, StandsStill DEF vars, authVars, captureVars
<1>2. CASE AuthNext /\ UNCHANGED captureVars
  BY <1>2, AuthStep, AuthFollows DEF IInv
<1>3. CASE Drain
  BY <1>3, DrainFollows
<1>4. CASE \E f \in Frames : FrameStep(f)
  BY <1>4, FrameFollows
<1>5. CASE \E c \in Calls : CallStep(c)
  BY <1>5, CallFollows
<1>6. CASE \E p \in Policies : SetPolicy(p)
  BY <1>6, StandsStill DEF SetPolicy, authVars
<1>7. CASE \E o \in Owners : Disconnect(o)
  BY <1>7, DisconnectFollows
<1> QED BY <1>1, <1>2, <1>3, <1>4, <1>5, <1>6, <1>7 DEF Next

LEMMA StepRefines == IInv /\ IInv' /\ [Next]_vars => [Consent!Next]_ConsentOf
<1> SUFFICES ASSUME IInv, IInv', [Next]_vars PROVE Consent!Next
  OBVIOUS
<1>1. ConsentOf = [r \in Requests |-> ConsentFor(r)]
  BY DEF ConsentOf, ConsentFor
<1>2. ConsentOf' = [r \in Requests |-> ConsentFor(r)']
  BY DEF ConsentOf, ConsentFor
<1>3. \A r \in Requests : ConsentFor(r)' \in Consent!States
  <2> TAKE r \in Requests
  <2>1. (ConsentFor(r) \in Consent!States)'
    BY ConsentType, PTL DEF IInv, CaptureInv
  <2> QED BY <2>1 DEF Consent!States
<1>4. \A r \in Requests : \/ ConsentFor(r)' = ConsentFor(r)
                          \/ <<ConsentFor(r), ConsentFor(r)'>> \in Consent!Moves
  BY StepFollows DEF Follows
<1> QED BY <1>1, <1>2, <1>3, <1>4 DEF Consent!Next

-----------------------------------------------------------------------------
(* Theorems. *)

\* Screen capture implements the consent protocol: asked once, answered once,
\* granted only after it was allowed, never granted once denied or withdrawn.
THEOREM CaptureImplementsConsent == Spec => ImplementsConsent
<1>1. Init => Consent!Init
  BY InitConsent
<1>2. IInv /\ IInv' /\ [Next]_vars => [Consent!Next]_ConsentOf
  BY StepRefines
<1> QED BY <1>1, <1>2, Invariance, PTL DEF Spec, ImplementsConsent, Consent!Spec

\* While the policy is "deny" no frame is announced or queued for rendering
\* and no screenshot is taken, whatever was decided before.
LEMMA StepDenies ==
    ASSUME IInv, [Next]_vars, policy = "deny"
    PROVE  /\ \A f \in Frames : frame'[f] \in {"ready", "copied"} => frame'[f] = frame[f]
           /\ \A c \in Calls : call'[c] = "captured" => call[c] = "captured"
<1> USE DEF IInv, CaptureInv, CaptureTypeOK
<1>1. CASE UNCHANGED <<frame, call>>
  BY <1>1
<1>2. CASE Drain
  <2>1. call' = call /\ frame' = [f \in Frames |->
          IF f \in {r \in entries : verdict[r] # "none"} \cap parked /\ frame[f] = "parked"
          THEN Resumed(f) ELSE frame[f]]
    BY <1>2 DEF Drain
  <2>2. \A f \in Frames : Resumed(f) = "failed"
    BY DEF Resumed
  <2> QED BY <2>1, <2>2
<1>3. ASSUME NEW g \in Frames, FrameStep(g)
      PROVE  /\ \A f \in Frames : frame'[f] \in {"ready", "copied"} => frame'[f] = frame[f]
             /\ call' = call
  <2>1. CASE \E subject \in Subjects : CaptureAsk(g, subject)
    BY <2>1 DEF CaptureAsk, Asking
  <2>2. CASE CancelFrame(g)
    BY <2>2 DEF CancelFrame, SetFrame
  <2>3. CASE CaptureByPolicy(g) \/ Copy(g)
    BY <2>3 DEF CaptureByPolicy, Copy, SetFrame
  <2>4. CASE CaptureRejected(g) \/ CopyUnannounced(g) \/ CompleteCapture(g)
    BY <2>4 DEF CaptureRejected, CopyUnannounced, CompleteCapture, SetFrame
  <2> QED BY <1>3, <2>1, <2>2, <2>3, <2>4 DEF FrameStep
<1>4. ASSUME NEW d \in Calls, CallStep(d)
      PROVE  /\ frame' = frame
             /\ \A c \in Calls : call'[c] = "captured" => call[c] = "captured"
  <2>1. CASE CallPolicy(d)
    BY <2>1 DEF CallPolicy, SetCall
  <2>2. CASE CallVerdict(d) \/ CallScreenshot(d)
    BY <2>2 DEF CallVerdict, CallScreenshot, SetCall
  <2>3. CASE \E subject \in Subjects : CallAuthorize(d, subject)
    BY <2>3 DEF CallAuthorize, SetCall
  <2> QED BY <1>4, <2>1, <2>2, <2>3 DEF CallStep
<1>5. CASE AuthNext /\ UNCHANGED captureVars
  BY <1>1, <1>5 DEF captureVars
<1>6. CASE \E p \in Policies : SetPolicy(p)
  BY <1>1, <1>6 DEF SetPolicy
<1>7. CASE \E o \in Owners : Disconnect(o)
  BY <1>1, <1>7 DEF Disconnect, captureVars
<1>8. CASE UNCHANGED vars
  BY <1>1, <1>8 DEF vars, captureVars
<1> QED BY <1>2, <1>3, <1>4, <1>5, <1>6, <1>7, <1>8 DEF Next

\* The policy "deny" holds from the step after it was set.
THEOREM CaptureDenyHolds == Spec => DenyHolds
<1>1. IInv /\ [Next]_vars =>
        [policy = "deny" =>
            /\ \A f \in Frames : frame'[f] \in {"ready", "copied"} => frame'[f] = frame[f]
            /\ \A c \in Calls : call'[c] = "captured" => call[c] = "captured"]_vars
  BY StepDenies
<1> QED BY <1>1, Invariance, PTL DEF Spec, DenyHolds
=============================================================================
