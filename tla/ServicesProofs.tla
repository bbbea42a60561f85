---------------------------- MODULE ServicesProofs ----------------------------
(***************************************************************************)
(* Proofs about Housekeeping, CommandQueue, EventDelivery,                 *)
(* Screenshots and FrameCallbacks, for any number of surfaces, commands,   *)
(* requests and clients and any limits, and about the run that moves them. *)
(***************************************************************************)
EXTENDS MCServices, SequenceFacts, WellFoundedInduction

------------------------------------------------------------------------------
(* The backlight.                                                          *)

Light == [level : Nat, original : Nat \cup {Nothing}, dimmed : BOOLEAN, failed : BOOLEAN]

\* The level the user chose is on the screen or in original.
Remembers(l) ==
  IF l.dimmed THEN l.original = chosen ELSE l.level = chosen /\ l.original = Nothing

\* The strengthening of LevelKept and DimmedRightly: dimming goes with idling,
\* except where a write has failed.
LightInv ==
  /\ light \in Light /\ chosen \in Levels
  /\ inhibiting \in [held : SUBSET Inhibitors, alive : SUBSET Inhibitors]
  /\ idle \in BOOLEAN /\ power \in BOOLEAN /\ refreshed \in BOOLEAN
  /\ Remembers(light)
  /\ light.dimmed /\ ~light.failed => idle
  /\ refreshed /\ light.dimmed /\ ~light.failed => MayDim

LEMMA RestoreKeeps ==
  ASSUME NEW l \in Light, chosen \in Levels, Remembers(l), NEW written \in BOOLEAN
  PROVE  LET r == RestoreLight(l, written) IN
         r \in Light /\ Remembers(r) /\ (r.dimmed => r.failed)
<1>1. chosen \in Nat /\ chosen # Nothing
  BY LevelsAssumption DEF Nothing
<1> QED BY <1>1 DEF RestoreLight, Remembers, Light

LEMMA TickKeeps ==
  ASSUME NEW l \in Light, chosen \in Levels, Remembers(l), l.dimmed /\ ~l.failed => idle,
         NEW inhibited \in BOOLEAN, NEW written \in BOOLEAN
  PROVE  LET r == Tick(l, inhibited, written) IN
         r \in Light /\ Remembers(r) /\ (r.dimmed /\ ~r.failed => idle /\ power /\ ~inhibited)
<1>1. chosen \in Nat
  BY LevelsAssumption
<1>2. CASE ~power \/ inhibited
  BY <1>2, RestoreKeeps DEF Tick
<1>3. CASE ~(~power \/ inhibited) /\ (l.dimmed \/ l.failed \/ ~idle)
  BY <1>3 DEF Tick
<1>4. CASE ~(~power \/ inhibited) /\ ~(l.dimmed \/ l.failed \/ ~idle)
  <2>1. DimmedLevel(l.level) \in Nat
    BY DEF DimmedLevel, Light
  <2> QED BY <1>1, <1>4, <2>1 DEF Tick, Remembers, Light
<1> QED BY <1>2, <1>3, <1>4

LEMMA LightInitial == HousekeepingInit => LightInv
<1> SUFFICES ASSUME HousekeepingInit
             PROVE  LightInv
  OBVIOUS
<1>1. chosen \in Levels /\ chosen \in Nat
  BY LevelsAssumption DEF HousekeepingInit
<1>2. light \in Light /\ Remembers(light) /\ ~light.dimmed
  BY <1>1 DEF HousekeepingInit, Light, Remembers
<1> QED BY <1>1, <1>2 DEF HousekeepingInit, LightInv

LEMMA LightStep == LightInv /\ [HousekeepingNext]_houseVars => LightInv'
<1> SUFFICES ASSUME LightInv, [HousekeepingNext]_houseVars
             PROVE  LightInv'
  OBVIOUS
<1>0. /\ light \in Light /\ chosen \in Levels /\ Remembers(light)
      /\ light.dimmed /\ ~light.failed => idle
      /\ idle \in BOOLEAN /\ power \in BOOLEAN
      /\ inhibiting \in [held : SUBSET Inhibitors, alive : SUBSET Inhibitors]
  BY DEF LightInv
\* Any input forgets that a write has failed and restores the level.
<1>1. ASSUME NEW written \in BOOLEAN, light' = RestoreLight([light EXCEPT !.failed = FALSE], written)
      PROVE  light' \in Light /\ Remembers(light') /\ (light'.dimmed => light'.failed)
  <2>1. [light EXCEPT !.failed = FALSE] \in Light /\ Remembers([light EXCEPT !.failed = FALSE])
    BY <1>0 DEF Light, Remembers
  <2> QED BY <1>0, <1>1, <2>1, RestoreKeeps
<1>2. CASE NoteInputActivity
  BY <1>0, <1>1, <1>2 DEF NoteInputActivity, Activity, LightInv, Remembers
<1>3. CASE ReloadPower
  <2>1. power' \in BOOLEAN
    BY <1>3 DEF ReloadPower
  <2> QED BY <1>0, <1>1, <1>3, <2>1 DEF ReloadPower, Activity, LightInv, Remembers
<1>4. CASE TimeoutPasses
  BY <1>0, <1>4 DEF TimeoutPasses, LightInv, Remembers
<1>5. CASE TimerFires
  <2>1. PICK written \in BOOLEAN : light' = Tick(light, inhibiting.held # {}, written)
    BY <1>5 DEF TimerFires
  <2>2. (inhibiting.held # {}) \in BOOLEAN
    OBVIOUS
  <2>3. light' \in Light /\ Remembers(light') /\ (light'.dimmed /\ ~light'.failed => idle)
    BY <1>0, <2>1, <2>2, TickKeeps
  <2> QED BY <1>0, <1>5, <2>3 DEF TimerFires, LightInv, Remembers
<1>6. CASE SetBrightness
  <2>1. chosen' \in Levels /\ chosen' \in Nat /\ ~light.dimmed
    BY <1>6, LevelsAssumption DEF SetBrightness
  <2>2. light' \in Light /\ light'.level = chosen' /\ ~light'.dimmed /\ light'.original = light.original
    BY <1>0, <1>6, <2>1 DEF SetBrightness, Light
  <2> QED BY <1>0, <1>6, <2>1, <2>2 DEF SetBrightness, LightInv, Remembers
<1>7. ASSUME NEW s \in Inhibitors, InhibitIdle(s) \/ InhibitorDies(s)
      PROVE  LightInv'
  <2>1. inhibiting' \in [held : SUBSET Inhibitors, alive : SUBSET Inhibitors] /\ refreshed' = FALSE
    BY <1>0, <1>7 DEF InhibitIdle, InhibitorDies
  <2>2. UNCHANGED <<chosen, light, idle, power>>
    BY <1>7 DEF InhibitIdle, InhibitorDies
  <2> QED BY <1>0, <2>1, <2>2 DEF LightInv, Remembers
<1>8. CASE Refresh
  <2> DEFINE held == inhibiting.held \cap inhibiting.alive
  <2>1. inhibiting'.held = held /\ inhibiting'.alive = inhibiting.alive
        /\ inhibiting' \in [held : SUBSET Inhibitors, alive : SUBSET Inhibitors]
    BY <1>0, <1>8 DEF Refresh
  <2>2. PICK written \in BOOLEAN : light' = Tick(light, held # {}, written)
    BY <1>8, <2>1 DEF Refresh
  <2>3. (held # {}) \in BOOLEAN
    OBVIOUS
  <2>4. /\ light' \in Light /\ Remembers(light')
        /\ light'.dimmed /\ ~light'.failed => idle /\ power /\ held = {}
    BY <1>0, <2>2, <2>3, TickKeeps
  <2>5. UNCHANGED <<chosen, idle, power>> /\ refreshed' = TRUE
    BY <1>8 DEF Refresh
  <2> QED BY <1>0, <2>1, <2>4, <2>5 DEF LightInv, Remembers, MayDim
<1>9. ASSUME SuperviseChildren \/ UNCHANGED lightVars
      PROVE  LightInv'
  <2>1. CASE SuperviseChildren
    BY <1>0, <2>1 DEF SuperviseChildren, LightInv, Remembers
  <2>2. CASE UNCHANGED lightVars
    BY <2>2 DEF lightVars, LightInv, Remembers, MayDim
  <2> QED BY <1>9, <2>1, <2>2
<1>10. ASSUME NEW c \in Commands, ChildExits(c) \/ SecondPasses(c)
       PROVE  UNCHANGED lightVars
  BY <1>10 DEF ChildExits, SecondPasses
<1>11. CASE UNCHANGED houseVars
  BY <1>9, <1>11 DEF houseVars
<1> QED BY <1>2, <1>3, <1>4, <1>5, <1>6, <1>7, <1>8, <1>9, <1>10, <1>11 DEF HousekeepingNext

LEMMA LightSound == LightInv => LevelKept /\ DimmedRightly
BY DEF LightInv, LevelKept, Remembers, DimmedRightly

\* The user's brightness is shown or remembered whichever writes fail, and only
\* an idle, uninhibited session is left dimmed (idle_dim.rs, state.rs), for any
\* levels and any surfaces.
THEOREM LightIsKept == HousekeepingSpec => [](LevelKept /\ DimmedRightly)
BY LightInitial, LightStep, LightSound, PTL DEF HousekeepingSpec

------------------------------------------------------------------------------
(* The command queue.                                                      *)

LEMMA WakeupInitial == Init => NoLostWakeup
BY DEF Init, NoLostWakeup

LEMMA WakeupStep == NoLostWakeup /\ [Next]_vars => NoLostWakeup'
<1> SUFFICES ASSUME NoLostWakeup, [Next]_vars
             PROVE  NoLostWakeup'
  OBVIOUS
<1>1. ASSUME NEW c \in Clients, Receive(c) \/ Leave(c) \/ Finish(c) \/ Answer(c)
      PROVE  UNCHANGED <<queue, draining, woken, waking>>
  BY <1>1 DEF Receive, Leave, Finish, Answer, service, loop
<1>2. ASSUME NEW c \in Clients, Handle(c)
      PROVE  UNCHANGED <<queue, draining, woken, waking>> \/ waking'
  BY <1>2 DEF Handle, Push, loop
<1>3. CASE Wake
  BY <1>3 DEF Wake, NoLostWakeup
<1>4. ASSUME MonitorTakes \/ MonitorReserves \/ Disconnect \/ ServiceEnds
      PROVE  UNCHANGED <<queue, draining, woken, waking>>
  BY <1>4 DEF MonitorTakes, MonitorReserves, Disconnect, ServiceEnds, service, loop
<1>5. CASE MonitorPushes
  BY <1>5 DEF MonitorPushes, Push, NoLostWakeup
<1>6. CASE Dispatch
  BY <1>6 DEF Dispatch, NoLostWakeup
<1>7. CASE Take
  BY <1>7 DEF Take, NoLostWakeup
<1>8. CASE BatchEnds
  BY <1>8 DEF BatchEnds, NoLostWakeup
<1>9. CASE Stop
  BY <1>9 DEF Stop, NoLostWakeup
<1>10. CASE UNCHANGED vars
  BY <1>10 DEF vars, NoLostWakeup
<1> QED BY <1>1, <1>2, <1>3, <1>4, <1>5, <1>6, <1>7, <1>8, <1>9, <1>10
        DEF Next, Monitor, Compositor, NoLostWakeup

\* The compositor never sleeps on a command (command.rs), for any clients,
\* requests and capacities.
THEOREM CommandsWake == Spec => []NoLostWakeup
BY WakeupInitial, WakeupStep, PTL DEF Spec

Phases == {"none", "received", "sent", "deferred", "done", "dropped"}
Calls == [phase : Phases, kind : {"ask", "bind", "unbind", "wait"}, bytes : Nat]
Entries == [kind : {"ask", "bind", "unbind", "wait", "gone"}, who : Clients, bytes : Nat]

\* The commands whose sender awaits a reply.
Replying(q) == {i \in 1..Len(q) : q[i].kind \in {"ask", "bind", "wait"}}

\* The strengthening of PlacesConserved and PermitsConserved: a command in the
\* queue that awaits a reply is the only one of a call that was sent, until the
\* service ends and nobody awaits it.
Awaited(q, f) ==
  /\ \A i \in Replying(q) : f[q[i].who].phase = "sent"
  /\ \A i, j \in Replying(q) : q[i].who = q[j].who => i = j

PermitsInv ==
  /\ call \in [Clients -> Calls] /\ queue \in Seq(Entries)
  /\ slots \in Int /\ pending \in Int
  /\ monitor = [phase |-> monitor.phase, who |-> monitor.who, need |-> monitor.need]
  /\ monitor.phase \in {"idle", "memory", "slot", "push", "stopped"}
  /\ monitor.phase \in {"memory", "slot", "push"} => monitor.who \in Clients
  /\ notices \in Seq(Clients)
  /\ closed => queue = <<>>
  /\ serving => Awaited(queue, call)
  /\ PlacesConserved /\ PermitsConserved

\* Permits follow the calls that are under way.
LEMMA PermitsFollow ==
  ASSUME PermitsConserved, pending \in Int, IsFiniteSet(Clients), NEW c \in Clients,
         \/ Busy' = Busy /\ pending' = pending
         \/ c \notin Busy /\ Busy' = Busy \cup {c} /\ pending' = pending - 1
         \/ c \in Busy /\ Busy' = Busy \ {c} /\ pending' = pending + 1
  PROVE  PermitsConserved'
<1>1. IsFiniteSet(Busy) /\ Cardinality(Busy) \in Nat
  BY FS_Subset, FS_CardinalityType DEF Busy
<1>2. CASE Busy' = Busy /\ pending' = pending
  BY <1>2 DEF PermitsConserved
<1>3. CASE c \notin Busy /\ Busy' = Busy \cup {c} /\ pending' = pending - 1
  <2>1. Cardinality(Busy') = Cardinality(Busy) + 1
    BY <1>1, <1>3, FS_AddElement
  <2> QED BY <1>1, <1>3, <2>1 DEF PermitsConserved
<1>4. CASE c \in Busy /\ Busy' = Busy \ {c} /\ pending' = pending + 1
  <2>1. Cardinality(Busy') = Cardinality(Busy) - 1
    BY <1>1, <1>4, FS_RemoveElement
  <2> QED BY <1>1, <1>4, <2>1 DEF PermitsConserved
<1> QED BY <1>2, <1>3, <1>4

LEMMA QueuedAt ==
  ASSUME NEW q \in Seq(Entries), NEW i \in 1..Len(q)
  PROVE  q[i] \in Entries /\ q[i].who \in Clients
<1>1. q[i] \in Entries
  OBVIOUS
<1> QED BY <1>1 DEF Entries

\* No command in the queue belongs to a call that was not sent.
LEMMA OtherCalls ==
  ASSUME NEW q \in Seq(Entries), NEW f, NEW g, NEW c, Awaited(q, f), f[c].phase # "sent",
         \A d \in Clients : d # c => g[d] = f[d]
  PROVE  Awaited(q, g) /\ \A i \in Replying(q) : q[i].who # c
<1>1. \A i \in Replying(q) : q[i].who \in Clients /\ q[i].who # c
  BY QueuedAt DEF Replying, Awaited
<1> QED BY <1>1 DEF Awaited

LEMMA SendAwaited ==
  ASSUME NEW q \in Seq(Entries), NEW g, NEW e \in Entries, Awaited(q, g),
         e.kind \in {"ask", "bind", "wait"} =>
           g[e.who].phase = "sent" /\ \A i \in Replying(q) : q[i].who # e.who
  PROVE  Append(q, e) \in Seq(Entries) /\ Awaited(Append(q, e), g)
<1> DEFINE r == Append(q, e)
<1>1. /\ r \in Seq(Entries) /\ Len(r) = Len(q) + 1 /\ Len(q) \in Nat
      /\ r[Len(r)] = e /\ \A i \in 1..Len(q) : r[i] = q[i]
  OBVIOUS
<1>2. \A i \in Replying(r) : i = Len(r) \/ i \in Replying(q)
  BY <1>1 DEF Replying
<1>3. \A i \in Replying(q) : r[i] = q[i]
  BY <1>1 DEF Replying
<1>4. Len(r) \in Replying(r) => e.kind \in {"ask", "bind", "wait"}
  BY <1>1 DEF Replying
<1> HIDE DEF r
<1> QED BY <1>1, <1>2, <1>3, <1>4 DEF Awaited, r

LEMMA TakeQueued ==
  ASSUME NEW q \in Seq(Entries), q # <<>>
  PROVE  Tail(q) \in Seq(Entries) /\ Len(Tail(q)) = Len(q) - 1 /\ Head(q) \in Entries
OBVIOUS

LEMMA TakeAwaited ==
  ASSUME NEW q \in Seq(Entries), q # <<>>, NEW f, Awaited(q, f)
  PROVE  /\ Tail(q) \in Seq(Entries) /\ Len(Tail(q)) = Len(q) - 1 /\ Head(q) \in Entries
         /\ Awaited(Tail(q), f)
         /\ Head(q).kind \in {"ask", "bind", "wait"} =>
              /\ f[Head(q).who].phase = "sent"
              /\ \A i \in Replying(Tail(q)) : Tail(q)[i].who # Head(q).who
<1> DEFINE r == Tail(q)
<1>1. /\ r \in Seq(Entries) /\ Len(r) = Len(q) - 1 /\ Len(q) \in Nat \ {0}
      /\ Head(q) = q[1] /\ Head(q) \in Entries /\ \A i \in 1..Len(r) : r[i] = q[i + 1]
  OBVIOUS
<1>2. \A i \in Replying(r) : i \in Nat \ {0} /\ i + 1 \in Replying(q) /\ r[i] = q[i + 1]
  BY <1>1 DEF Replying
<1>3. Head(q).kind \in {"ask", "bind", "wait"} => 1 \in Replying(q)
  BY <1>1 DEF Replying
<1> HIDE DEF r
<1>4. Awaited(r, f)
  <2>1. \A i \in Replying(r) : f[r[i].who].phase = "sent"
    BY <1>2 DEF Awaited
  <2>2. ASSUME NEW i \in Replying(r), NEW j \in Replying(r), r[i].who = r[j].who
        PROVE  i = j
    <3>1. i + 1 = j + 1
      BY <1>2, <2>2 DEF Awaited
    <3> QED BY <1>2, <3>1
  <2> QED BY <2>1, <2>2 DEF Awaited
<1>5. ASSUME Head(q).kind \in {"ask", "bind", "wait"}
      PROVE  f[Head(q).who].phase = "sent" /\ \A i \in Replying(r) : r[i].who # Head(q).who
  <2>1. f[Head(q).who].phase = "sent"
    BY <1>1, <1>3, <1>5 DEF Awaited
  <2>2. ASSUME NEW i \in Replying(r), r[i].who = Head(q).who
        PROVE  FALSE
    <3>1. i + 1 = 1
      BY <1>1, <1>2, <1>3, <1>5, <2>2 DEF Awaited
    <3> QED BY <1>2, <3>1
  <2> QED BY <2>1, <2>2
<1> QED BY <1>1, <1>4, <1>5 DEF r

\* A place and some bytes come free: a monitor that waits takes the place.
LEMMA FreedPlaces ==
  ASSUME PermitsInv, NEW bytes, NEW places \in {0, 1}, Freed(bytes, places)
  PROVE  /\ slots' \in Int
         /\ monitor' = [phase |-> monitor'.phase, who |-> monitor'.who, need |-> monitor'.need]
         /\ monitor'.phase \in {"idle", "memory", "slot", "push", "stopped"}
         /\ monitor'.phase \in {"memory", "slot", "push"} => monitor'.who \in Clients
         /\ slots' + HeldSlots' = slots + HeldSlots + places
<1> DEFINE got == IF monitor.phase = "memory" THEN Min({bytes, monitor.need}) ELSE 0
           granted == monitor.phase = "slot" /\ places > 0
           need == monitor.need - got
<1>1. slots' = IF granted THEN slots + places - 1 ELSE slots + places
  BY DEF Freed
<1>2. monitor' = [phase |-> IF granted THEN "push" ELSE monitor.phase, who |-> monitor.who, need |-> need]
  <2>1. monitor' = [monitor EXCEPT !.need = need, !.phase = IF granted THEN "push" ELSE @]
    BY DEF Freed
  <2> HIDE DEF need, granted
  <2>2. monitor = [phase |-> monitor.phase, who |-> monitor.who, need |-> monitor.need]
    BY DEF PermitsInv
  <2> QED BY <2>1, <2>2
<1> HIDE DEF need
<1> QED BY <1>1, <1>2 DEF PermitsInv, HeldSlots

LEMMA PermitsInitial == Init => PermitsInv
<1> SUFFICES ASSUME Init
             PROVE  PermitsInv
  OBVIOUS
<1>1. Busy = {} /\ Cardinality({}) = 0
  BY FS_EmptySet DEF Init, Busy, None
<1>2. Capacity \in Nat /\ MaxPending \in Nat
  BY QueueAssumption
<1>3. Len(queue) = 0 /\ HeldSlots = 0
  BY DEF Init, HeldSlots, Idle
<1>4. queue \in Seq(Entries) /\ notices \in Seq(Clients) /\ Replying(queue) = {}
  BY <1>3 DEF Init, Replying
<1>5. call \in [Clients -> Calls]
  BY DEF Init, None, Calls, Phases
<1> QED BY <1>1, <1>2, <1>3, <1>4, <1>5
        DEF Init, PermitsInv, Idle, Awaited, PlacesConserved, PermitsConserved

LEMMA PermitsStep == PermitsInv /\ [Next]_vars => PermitsInv'
<1> SUFFICES ASSUME PermitsInv, [Next]_vars
             PROVE  PermitsInv'
  OBVIOUS
<1>0. /\ call \in [Clients -> Calls] /\ queue \in Seq(Entries) /\ notices \in Seq(Clients)
      /\ slots \in Int /\ pending \in Int /\ Len(queue) \in Nat
      /\ monitor = [phase |-> monitor.phase, who |-> monitor.who, need |-> monitor.need]
      /\ (serving => Awaited(queue, call)) /\ IsFiniteSet(Clients) /\ Capacity \in Nat /\ MaxPending \in Nat
      /\ HeldSlots \in Int /\ HeldSlots' \in Int
  BY QueueAssumption DEF PermitsInv, HeldSlots
<1>1. ASSUME NEW c \in Clients, Receive(c)
      PROVE  PermitsInv'
  <2>1. PICK r \in Requests :
          call' = [call EXCEPT ![c] = [phase |-> "received", kind |-> r.kind, bytes |-> r.bytes]]
    BY <1>1 DEF Receive
  <2>2. call' \in [Clients -> Calls]
    BY <1>0, <2>1, QueueAssumption DEF Calls, Phases
  <2>3. Awaited(queue, call')
    BY <1>0, <1>1, <2>1, OtherCalls DEF Receive
  <2>4. Busy' = Busy
    BY <1>0, <1>1, <2>1 DEF Receive, Busy
  <2>5. PermitsConserved'
    BY <1>0, <1>1, <2>4, PermitsFollow DEF Receive, service, PermitsInv
  <2> QED BY <1>1, <2>2, <2>3, <2>5 DEF Receive, service, loop, PermitsInv, PlacesConserved, HeldSlots
<1>2. ASSUME NEW c \in Clients, Leave(c)
      PROVE  PermitsInv'
  <2>1. notices' \in Seq(Clients)
    BY <1>0, <1>2 DEF Leave
  <2> QED BY <1>2, <2>1 DEF Leave, service, loop, PermitsInv, PlacesConserved, PermitsConserved, Busy, HeldSlots
<1>3. ASSUME NEW c \in Clients, Handle(c)
      PROVE  PermitsInv'
  <2>0. serving /\ call[c].phase = "received" /\ call[c] \in Calls /\ c \notin Busy
    BY <1>0, <1>3 DEF Handle, Busy
  <2>1. CASE ~Admitted(c)
    <3>1. call' = [call EXCEPT ![c] = None] /\ UNCHANGED <<queue, slots, pending, monitor, notices, closed>>
      BY <1>3, <2>1 DEF Handle, loop
    <3>2. call' \in [Clients -> Calls]
      BY <1>0, <3>1 DEF Calls, Phases, None
    <3>3. Awaited(queue, call')
      BY <1>0, <2>0, <3>1, OtherCalls
    <3>4. Busy' = Busy
      BY <1>0, <2>0, <3>1 DEF Busy, None
    <3>5. PermitsConserved'
      BY <1>0, <3>1, <3>4, PermitsFollow DEF PermitsInv
    <3> QED BY <3>1, <3>2, <3>3, <3>5 DEF PermitsInv, PlacesConserved, HeldSlots
  <2>2. CASE Admitted(c)
    <3> DEFINE e == Command(call[c].kind, c, call[c].bytes)
               g == IF Replies(c) THEN [None EXCEPT !.phase = "sent"] ELSE None
    <3>1. /\ queue' = Append(queue, e) /\ slots' = slots - 1 /\ call' = [call EXCEPT ![c] = g]
          /\ pending' = IF Replies(c) THEN pending - 1 ELSE pending
          /\ ~closed /\ UNCHANGED <<monitor, notices, closed>>
      BY <1>3, <2>2 DEF Handle, Push, Admitted, loop
    <3>2. e \in Entries /\ e.who = c /\ e.kind = call[c].kind
      BY <2>0 DEF Command, Entries, Calls
    <3>3. g \in Calls /\ g.phase = (IF Replies(c) THEN "sent" ELSE "none")
      BY DEF None, Calls, Phases
    <3> HIDE DEF g, e
    <3>4. call' \in [Clients -> Calls] /\ call'[c] = g /\ \A d \in Clients : d # c => call'[d] = call[d]
      BY <1>0, <3>1, <3>3
    <3>5. Awaited(queue, call') /\ \A i \in Replying(queue) : queue[i].who # c
      BY <1>0, <2>0, <3>4, OtherCalls
    <3>6. e.kind \in {"ask", "bind", "wait"} => Replies(c)
      BY <3>2 DEF Replies
    <3>7. queue' \in Seq(Entries) /\ Awaited(queue', call')
      BY <1>0, <3>1, <3>2, <3>3, <3>4, <3>5, <3>6, SendAwaited
    <3>8. Busy' = IF Replies(c) THEN Busy \cup {c} ELSE Busy
      BY <2>0, <3>3, <3>4 DEF Busy
    <3>9. PermitsConserved'
      BY <1>0, <2>0, <3>1, <3>8, PermitsFollow DEF PermitsInv
    <3>10. Len(queue') = Len(queue) + 1
      BY <1>0, <3>1
    <3>11. PlacesConserved'
      BY <1>0, <3>1, <3>10 DEF PermitsInv, PlacesConserved, HeldSlots
    <3> QED BY <1>0, <3>1, <3>4, <3>7, <3>9, <3>11 DEF PermitsInv
  <2> QED BY <2>1, <2>2
<1>4. ASSUME NEW c \in Clients, Finish(c)
      PROVE  PermitsInv'
  <2>1. call' \in [Clients -> Calls]
    BY <1>0, <1>4 DEF Finish, Calls, Phases, None
  <2>2. Awaited(queue, call')
    BY <1>0, <1>4, OtherCalls DEF Finish
  <2>3. c \in Busy /\ Busy' = Busy \ {c}
    BY <1>0, <1>4 DEF Finish, Busy, None
  <2>4. PermitsConserved'
    BY <1>0, <1>4, <2>3, PermitsFollow DEF Finish, PermitsInv
  <2> QED BY <1>0, <1>4, <2>1, <2>2, <2>4 DEF Finish, loop, PermitsInv, PlacesConserved, HeldSlots
<1>5. ASSUME NEW c \in Clients, Answer(c)
      PROVE  PermitsInv'
  <2>1. call' \in [Clients -> Calls]
    BY <1>0, <1>5 DEF Answer, Calls, Phases
  <2>2. serving => Awaited(queue, call')
    BY <1>0, <1>5, OtherCalls DEF Answer
  <2>3. Busy' = Busy
    BY <1>0, <1>5, <2>1 DEF Answer, Busy, Calls
  <2>4. PermitsConserved'
    BY <1>0, <1>5, <2>3, PermitsFollow DEF Answer, service, PermitsInv
  <2> QED BY <1>5, <2>1, <2>2, <2>4 DEF Answer, service, loop, PermitsInv, PlacesConserved, HeldSlots
<1>6. CASE Wake
  BY <1>6 DEF Wake, PermitsInv, PlacesConserved, PermitsConserved, Busy, HeldSlots
<1>7. CASE MonitorTakes
  <2>1. Head(notices) \in Clients /\ notices' \in Seq(Clients)
    BY <1>0, <1>7 DEF MonitorTakes
  <2>2. monitor'.who = Head(notices) /\ monitor'.phase = "memory"
        /\ monitor' = [phase |-> monitor'.phase, who |-> monitor'.who, need |-> monitor'.need]
    BY <1>7 DEF MonitorTakes
  <2>3. HeldSlots' = HeldSlots
    BY <1>7, <2>2 DEF MonitorTakes, HeldSlots
  <2> QED BY <1>7, <2>1, <2>2, <2>3
          DEF MonitorTakes, service, loop, PermitsInv, PlacesConserved, PermitsConserved, Busy
<1>8. CASE MonitorReserves
  <2>1. monitor' = [phase |-> IF slots > 0 THEN "push" ELSE "slot", who |-> monitor.who, need |-> monitor.need]
    BY <1>0, <1>8 DEF MonitorReserves
  <2>2. monitor.phase = "memory" /\ monitor.who \in Clients
    BY <1>8 DEF MonitorReserves, PermitsInv
  <2>3. slots' \in Int /\ slots' + HeldSlots' = slots + HeldSlots
    BY <1>0, <1>8, <2>1, <2>2 DEF MonitorReserves, HeldSlots
  <2>4. UNCHANGED <<notices, call, queue, pending, closed>>
    BY <1>8 DEF MonitorReserves, service, loop
  <2>5. PlacesConserved'
    BY <1>0, <2>3, <2>4 DEF PermitsInv, PlacesConserved
  <2>6. /\ monitor' = [phase |-> monitor'.phase, who |-> monitor'.who, need |-> monitor'.need]
        /\ monitor'.phase \in {"push", "slot"} /\ monitor'.who \in Clients
    BY <2>1, <2>2
  <2>7. Awaited(queue', call') /\ PermitsConserved'
    BY <1>8, <2>4 DEF MonitorReserves, PermitsInv, PermitsConserved, Busy, Awaited, Replying
  <2> QED BY <1>0, <2>3, <2>4, <2>5, <2>6, <2>7 DEF PermitsInv
<1>9. CASE MonitorPushes
  <2> DEFINE e == Command("gone", monitor.who, Notice)
  <2>1. /\ queue' = Append(queue, e) /\ monitor' = Idle /\ monitor.phase = "push"
        /\ serving /\ ~closed /\ UNCHANGED <<notices, call, slots, pending, closed>>
    BY <1>9 DEF MonitorPushes, Push, loop
  <2>2. e \in Entries /\ e.kind = "gone"
    BY <2>1, QueueAssumption DEF PermitsInv, Command, Entries
  <2> HIDE DEF e
  <2>3. queue' \in Seq(Entries) /\ Awaited(queue', call')
    BY <1>0, <2>1, <2>2, SendAwaited
  <2>4. Len(queue') = Len(queue) + 1
    BY <1>0, <2>1
  <2>5. PlacesConserved'
    BY <1>0, <2>1, <2>4 DEF PermitsInv, PlacesConserved, HeldSlots, Idle
  <2> QED BY <2>1, <2>3, <2>5 DEF PermitsInv, PermitsConserved, Busy, Idle
<1>10. CASE Disconnect \/ ServiceEnds
  <2>1. /\ monitor' = Stopped /\ slots' = slots + HeldSlots
        /\ UNCHANGED <<notices, queue, closed>>
    BY <1>10 DEF Disconnect, ServiceEnds, MonitorDropped, loop
  <2>2. HeldSlots' = 0 /\ monitor' = [phase |-> "stopped", who |-> "nobody", need |-> 0]
    BY <2>1 DEF HeldSlots, Stopped, Idle
  <2>3. slots' \in Int /\ PlacesConserved'
    BY <1>0, <2>1, <2>2 DEF PermitsInv, PlacesConserved
  <2>4. CASE Disconnect
    <3>1. UNCHANGED <<call, pending, serving>>
      BY <2>4 DEF Disconnect, service
    <3> QED BY <2>1, <2>2, <2>3, <3>1 DEF PermitsInv, PermitsConserved, Busy
  <2>5. CASE ServiceEnds
    <3>1. call' = [c \in Clients |-> None] /\ pending' = MaxPending /\ serving' = FALSE
      BY <2>5 DEF ServiceEnds
    <3>2. Busy' = {} /\ Cardinality({}) = 0
      BY <3>1, FS_EmptySet DEF Busy, None
    <3>3. call' \in [Clients -> Calls]
      BY <3>1 DEF None, Calls, Phases
    <3> QED BY <1>0, <2>1, <2>2, <2>3, <3>1, <3>2, <3>3 DEF PermitsInv, PermitsConserved
  <2> QED BY <1>10, <2>4, <2>5
<1>11. CASE Dispatch \/ BatchEnds
  <2>1. UNCHANGED <<notices, call, queue, slots, pending, monitor, closed, serving>>
    BY <1>11 DEF Dispatch, BatchEnds, service
  <2> QED BY <2>1 DEF PermitsInv, PlacesConserved, PermitsConserved, Busy, HeldSlots
<1>12. CASE Take
  <2> DEFINE e == Head(queue)
  <2>1. /\ Freed(e.bytes, 1) /\ queue' = Tail(queue) /\ Execute(e) /\ queue # <<>>
        /\ ~closed /\ UNCHANGED <<notices, pending, closed, serving>>
    BY <1>12 DEF Take, service
  <2>2. /\ queue' \in Seq(Entries) /\ Len(queue') = Len(queue) - 1 /\ e \in Entries
    BY <1>0, <2>1, TakeQueued
  <2>3. serving => /\ Awaited(queue', call)
                   /\ e.kind \in {"ask", "bind", "wait"} =>
                        /\ call[e.who].phase = "sent"
                        /\ \A i \in Replying(queue') : queue'[i].who # e.who
    BY <1>0, <2>1, TakeAwaited
  <2> HIDE DEF e
  <2>4. call' \in [Clients -> Calls] /\ Busy' = Busy /\ (serving => Awaited(queue', call'))
    <3>0. \/ call' = call
          \/ /\ serving /\ e.kind \in {"ask", "bind", "wait"}
             /\ \/ call' = [call EXCEPT ![e.who].phase = "done"]
                \/ call' = [call EXCEPT ![e.who].phase = "deferred"]
      BY <2>1 DEF Execute
    <3>1. CASE call' = call
      BY <1>0, <2>3, <3>1 DEF Busy
    <3>2. CASE call' # call
      <4>1. serving /\ e.who \in Clients /\ call[e.who].phase = "sent"
            /\ \A i \in Replying(queue') : queue'[i].who # e.who
        BY <2>2, <2>3, <3>0, <3>2 DEF Entries
      <4>2. call' \in [Clients -> Calls] /\ call'[e.who].phase \in {"done", "deferred"}
            /\ \A d \in Clients : d # e.who => call'[d] = call[d]
        <5>1. ASSUME NEW p \in {"done", "deferred"}, call' = [call EXCEPT ![e.who].phase = p]
              PROVE  /\ call' \in [Clients -> Calls] /\ call'[e.who].phase = p
                     /\ \A d \in Clients : d # e.who => call'[d] = call[d]
          BY <1>0, <4>1, <5>1 DEF Calls, Phases
        <5> QED BY <3>0, <3>2, <5>1
      <4>3. Busy' = Busy
        BY <4>1, <4>2 DEF Busy
      <4>4. \A i \in Replying(queue') : queue'[i].who \in Clients
        BY <2>2, QueuedAt DEF Replying
      <4>5. Awaited(queue', call')
        BY <2>3, <4>1, <4>2, <4>4 DEF Awaited
      <4> QED BY <4>2, <4>3, <4>5
    <3> QED BY <3>1, <3>2
  <2>5. /\ slots' \in Int
        /\ monitor' = [phase |-> monitor'.phase, who |-> monitor'.who, need |-> monitor'.need]
        /\ monitor'.phase \in {"idle", "memory", "slot", "push", "stopped"}
        /\ monitor'.phase \in {"memory", "slot", "push"} => monitor'.who \in Clients
        /\ slots' + HeldSlots' = slots + HeldSlots + 1
    BY <2>1, FreedPlaces
  <2>6. PlacesConserved'
    <3>1. slots + Len(queue) + HeldSlots = Capacity
      BY <2>1 DEF PermitsInv, PlacesConserved
    <3>2. Len(queue') = Len(queue) - 1
      BY <2>2
    <3>3. slots' \in Int /\ slots' + HeldSlots' = slots + HeldSlots + 1
      BY <2>5
    <3>4. {slots, Len(queue), HeldSlots, HeldSlots'} \subseteq Int
      BY <1>0
    <3>5. slots' + Len(queue') + HeldSlots' = Capacity
      BY <3>1, <3>2, <3>3, <3>4 DEF HeldSlots
    <3> QED BY <3>5 DEF PlacesConserved
  <2> QED BY <1>0, <2>1, <2>2, <2>4, <2>5, <2>6 DEF PermitsInv, PermitsConserved
<1>13. CASE Stop
  <2>1. /\ Freed(QueuedBytes, 0) /\ queue' = <<>> /\ closed' = TRUE /\ UNCHANGED <<notices, pending>>
        /\ call' = [c \in Clients |-> IF call[c].phase \in {"sent", "deferred"}
                                      THEN [call[c] EXCEPT !.phase = "dropped"] ELSE call[c]]
    BY <1>13 DEF Stop, service
  <2>2. call' \in [Clients -> Calls] /\ Busy' = Busy
    BY <1>0, <2>1 DEF Calls, Phases, Busy
  <2>3. Awaited(queue', call') /\ queue' \in Seq(Entries)
    BY <2>1 DEF Awaited, Replying
  <2>4. /\ slots' \in Int
        /\ monitor' = [phase |-> monitor'.phase, who |-> monitor'.who, need |-> monitor'.need]
        /\ monitor'.phase \in {"idle", "memory", "slot", "push", "stopped"}
        /\ monitor'.phase \in {"memory", "slot", "push"} => monitor'.who \in Clients
    BY <2>1, FreedPlaces
  <2> QED BY <1>0, <2>1, <2>2, <2>3, <2>4 DEF PermitsInv, PlacesConserved, PermitsConserved
<1>14. CASE UNCHANGED vars
  BY <1>14 DEF vars, PermitsInv, PlacesConserved, PermitsConserved, Busy, HeldSlots
<1> QED BY <1>1, <1>2, <1>3, <1>4, <1>5, <1>6, <1>7, <1>8, <1>9, <1>10, <1>11, <1>12, <1>13, <1>14
        DEF Next, Monitor, Compositor

\* Places of the queue and permits of the interface are never lost or made up
\* (command.rs, interface.rs), for any clients, requests and capacities.
THEOREM PermitsReturn == Spec => [](PlacesConserved /\ PermitsConserved)
<1>1. PermitsInv => PlacesConserved /\ PermitsConserved
  BY DEF PermitsInv
<1> QED BY <1>1, PermitsInitial, PermitsStep, PTL DEF Spec

------------------------------------------------------------------------------
(* The bytes of the command queue.                                         *)

\* g has the running totals of the bytes of q.
Adds(g, q) ==
  /\ g \in [0..Len(q) -> Nat]
  /\ g[0] = 0
  /\ \A i \in 1..Len(q) : g[i] = g[i - 1] + q[i].bytes

LEMMA BytesSteps ==
  ASSUME NEW q \in Seq(Entries)
  PROVE  \E g : Adds(g, q) /\ BytesOf(q) = g[Len(q)]
<1> DEFINE n == Len(q)
           A == Nat
           step == [x \in (1..n) \X A |-> x[2] + q[x[1]].bytes]
           Equation(f) == f = [s \in SUBSET DOMAIN q |->
                                 IF s = {} THEN 0 ELSE f[s \ {Max(s)}] + q[Max(s)].bytes]
           c == CHOOSE f : Equation(f)
<1>1. n \in Nat /\ DOMAIN q = 1..n
  OBVIOUS
<1>2. \A i \in 1..n : q[i].bytes \in A
  BY QueuedAt DEF Entries
<1>3. /\ step \in Steps(n, A)
      /\ \A i \in 1..n, a \in A : step[<<i, a>>] = a + q[i].bytes
  BY <1>1, <1>2 DEF Steps
<1>4. 0 \in A
  OBVIOUS
<1>5. \A s \in SUBSET (1..n) : s # {} => Max(s) \in 1..n /\ s \ {Max(s)} \in SUBSET (1..n)
  <2> SUFFICES ASSUME NEW s \in SUBSET (1..n), s # {} PROVE Max(s) \in s
    OBVIOUS
  <2>1. s \in SUBSET (0..n)
    OBVIOUS
  <2> QED BY <1>1, <2>1, GreatestUpTo
<1> HIDE DEF n, step, A
<1>6. PICK f : FoldsSets(f, n, A, 0, step)
  BY <1>1, <1>3, <1>4, FoldExists
<1>7. Equation(f)
  BY <1>1, <1>3, <1>5, <1>6 DEF FoldsSets
<1>8. Equation(c)
  <2> HIDE DEF Equation
  <2> QED BY <1>7
<1>9. BytesOf(q) = c[1..n]
  BY <1>1 DEF BytesOf, FoldLeft, MapThenFoldSet
<1> HIDE DEF c
<1>10. Follows(c, n, A, 0, step)
  BY <1>1, <1>3, <1>5, <1>8 DEF Follows
<1>11. PICK g : Computed(g, n, A, 0, step) /\ c[1..n] = g[n]
  BY <1>1, <1>3, <1>4, <1>10, FoldValue
<1>12. g \in [0..n -> A] /\ g[0] = 0 /\ \A i \in 1..n : g[i] = step[<<i, g[i - 1]>>]
  BY <1>11 DEF Computed
<1>13. \A i \in 1..n : g[i - 1] \in A
  BY <1>1, <1>12
<1>14. Adds(g, q)
  BY <1>3, <1>12, <1>13 DEF A, Adds, n
<1> QED BY <1>9, <1>11, <1>14 DEF n

\* Sequences that agree up to a distance have totals at that distance.
LEMMA AddsAlong ==
  ASSUME NEW q \in Seq(Entries), NEW r \in Seq(Entries), NEW g, NEW h, Adds(g, q), Adds(h, r),
         NEW d \in 0..Len(r), NEW k \in Nat, k <= Len(q), d + k <= Len(r),
         \A i \in 1..k : r[d + i] = q[i]
  PROVE  h[d + k] = h[d] + g[k]
<1> DEFINE Same == {i \in 0..k : h[d + i] = h[d] + g[i]}
<1>1. /\ g[0] = 0 /\ \A i \in 1..k : g[i] \in Nat /\ g[i - 1] \in Nat /\ g[i] = g[i - 1] + q[i].bytes
  <2>1. Len(q) \in Nat /\ \A i \in 1..k : i \in 1..Len(q) /\ i \in 0..Len(q) /\ i - 1 \in 0..Len(q)
    OBVIOUS
  <2> QED BY <2>1 DEF Adds
<1>2. /\ h[d] \in Nat
      /\ \A i \in 1..k : h[d + i] = h[d + i - 1] + q[i].bytes
  <2>1. h[d] \in Nat
    BY DEF Adds
  <2> SUFFICES ASSUME NEW i \in 1..k PROVE h[d + i] = h[d + i - 1] + q[i].bytes
    BY <2>1
  <2>2. Len(r) \in Nat /\ d \in Nat /\ i \in Nat /\ 1 <= i /\ i <= k
    OBVIOUS
  <2>3. d + i <= Len(r) /\ d + i >= 1
    BY <2>2
  <2>4. r[d + i] = q[i]
    OBVIOUS
  <2>5. d + i \in 1..Len(r) /\ (d + i) - 1 = d + i - 1
    BY <2>2, <2>3
  <2>6. h[d + i] = h[(d + i) - 1] + r[d + i].bytes
    BY <2>5 DEF Adds
  <2> QED BY <2>4, <2>5, <2>6
<1>3. \A i \in 1..k : q[i].bytes \in Nat
  <2> SUFFICES ASSUME NEW i \in 1..k PROVE q[i].bytes \in Nat
    OBVIOUS
  <2>1. i \in 1..Len(q)
    OBVIOUS
  <2> QED BY <2>1, QueuedAt DEF Entries
<1>4. 0 \in Same
  BY <1>1, <1>2
<1>5. \A i \in 0..k : i # k /\ i \in Same => i + 1 \in Same
  <2> SUFFICES ASSUME NEW i \in 0..k, i # k, h[d + i] = h[d] + g[i]
               PROVE  i + 1 \in 0..k /\ h[d + (i + 1)] = h[d] + g[i + 1]
    OBVIOUS
  <2>1. i + 1 \in 1..k /\ (i + 1) - 1 = i /\ d + (i + 1) - 1 = d + i
    OBVIOUS
  <2>2. h[d + (i + 1)] = h[d + i] + q[i + 1].bytes /\ g[i + 1] = g[i] + q[i + 1].bytes
    BY <1>1, <1>2, <2>1
  <2>3. g[i] \in Nat /\ q[i + 1].bytes \in Nat
    BY <1>1, <1>3, <2>1
  <2>4. h[d] \in Nat
    BY <1>2
  <2>5. h[d + (i + 1)] = (h[d] + g[i]) + q[i + 1].bytes
    BY <2>2, Zenon
  <2>6. (h[d] + g[i]) + q[i + 1].bytes = h[d] + (g[i] + q[i + 1].bytes)
    BY <2>3, <2>4
  <2> QED BY <2>1, <2>2, <2>5, <2>6
<1> HIDE DEF Same
<1>6. 0..k \subseteq Same
  BY <1>4, <1>5, InductionUpTo
<1> QED BY <1>6 DEF Same

LEMMA NoBytes == BytesOf(<<>>) = 0
<1>1. <<>> \in Seq(Entries) /\ Len(<<>>) = 0
  OBVIOUS
<1>2. PICK g : Adds(g, <<>>) /\ BytesOf(<<>>) = g[Len(<<>>)]
  BY <1>1, BytesSteps, Zenon
<1> QED BY <1>1, <1>2 DEF Adds

LEMMA BytesAppended ==
  ASSUME NEW q \in Seq(Entries), NEW e \in Entries
  PROVE  BytesOf(q) \in Nat /\ BytesOf(Append(q, e)) = BytesOf(q) + e.bytes
<1> DEFINE r == Append(q, e)
           n == Len(q)
<1>1. /\ r \in Seq(Entries) /\ n \in Nat /\ Len(r) = n + 1 /\ r[n + 1] = e
      /\ \A i \in 1..n : r[0 + i] = q[i]
  OBVIOUS
<1>2. PICK g : Adds(g, q) /\ BytesOf(q) = g[n]
  BY BytesSteps
<1> HIDE DEF r
<1>3. PICK h : Adds(h, r) /\ BytesOf(r) = h[Len(r)]
  BY <1>1, BytesSteps
<1>4. h[0 + n] = h[0] + g[n]
  BY <1>1, <1>2, <1>3, AddsAlong
<1>5. h[n + 1] = h[n] + e.bytes /\ h[0] = 0 /\ g[n] \in Nat
  BY <1>1, <1>2, <1>3 DEF Adds
<1> QED BY <1>1, <1>2, <1>3, <1>4, <1>5 DEF r

LEMMA BytesTaken ==
  ASSUME NEW q \in Seq(Entries), q # <<>>
  PROVE  /\ Head(q).bytes \in Nat /\ BytesOf(Tail(q)) \in Nat
         /\ BytesOf(q) = Head(q).bytes + BytesOf(Tail(q))
<1> DEFINE r == Tail(q)
           n == Len(r)
<1>1. /\ r \in Seq(Entries) /\ n \in Nat /\ Len(q) = n + 1 /\ Head(q) = q[1]
      /\ \A i \in 1..n : q[1 + i] = r[i]
  OBVIOUS
<1>2. 1 \in 1..Len(q) /\ 1 - 1 = 0
  BY <1>1
<1>7. Head(q).bytes \in Nat
  BY <1>1, <1>2, QueuedAt DEF Entries
<1> HIDE DEF r
<1>3. PICK g : Adds(g, r) /\ BytesOf(r) = g[n]
  BY <1>1, BytesSteps
<1>4. PICK h : Adds(h, q) /\ BytesOf(q) = h[Len(q)]
  BY <1>1, BytesSteps
<1>5. h[1 + n] = h[1] + g[n]
  BY <1>1, <1>3, <1>4, AddsAlong
<1>6. h[1] = h[0] + q[1].bytes /\ h[0] = 0 /\ g[n] \in Nat
  BY <1>1, <1>2, <1>3, <1>4 DEF Adds
<1> QED BY <1>1, <1>3, <1>4, <1>5, <1>6, <1>7 DEF r

LEMMA BytesCounted ==
  ASSUME NEW q \in Seq(Entries)
  PROVE  BytesOf(q) \in Nat
<1>1. PICK g : Adds(g, q) /\ BytesOf(q) = g[Len(q)]
  BY BytesSteps
<1>2. Len(q) \in 0..Len(q)
  OBVIOUS
<1> QED BY <1>1, <1>2 DEF Adds

\* The strengthening of BytesConserved: neither the free bytes nor what the
\* monitor waits for go below zero.
BytesInv ==
  /\ memory \in Nat /\ monitor.need \in 0..Notice
  /\ BytesConserved

LEMMA LesserOf ==
  ASSUME NEW a \in Nat, NEW b \in Nat
  PROVE  Min({a, b}) \in Nat /\ Min({a, b}) <= a /\ Min({a, b}) <= b
<1>1. a + b \in Nat /\ {a, b} \in SUBSET (0..(a + b)) /\ {a, b} # {}
  OBVIOUS
<1>2. Min({a, b}) \in {a, b} /\ \A x \in {a, b} : Min({a, b}) <= x
  BY <1>1, LeastIsMin
<1> QED BY <1>2

\* What a monitor that waits gets of the bytes that come free, it holds.
LEMMA FreedBytes ==
  ASSUME PermitsInv, BytesInv, NEW bytes \in Nat, NEW places \in {0, 1}, Freed(bytes, places),
         BytesOf(queue') \in Nat, BytesOf(queue) = bytes + BytesOf(queue')
  PROVE  BytesInv'
<1> DEFINE got == IF monitor.phase = "memory" THEN Min({bytes, monitor.need}) ELSE 0
           granted == monitor.phase = "slot" /\ places > 0
           need == monitor.need - got
<1>1. Notice \in Nat /\ monitor.need \in Nat /\ memory \in Nat
  BY QueueAssumption DEF BytesInv
<1>2. got \in Nat /\ got <= bytes /\ got <= monitor.need
  BY <1>1, LesserOf
<1>3. memory' = memory + bytes - got
  BY DEF Freed
<1>4. monitor' = [phase |-> IF granted THEN "push" ELSE monitor.phase, who |-> monitor.who, need |-> need]
  <2>1. monitor' = [monitor EXCEPT !.need = need, !.phase = IF granted THEN "push" ELSE @]
    BY DEF Freed
  <2> HIDE DEF need, granted
  <2>2. monitor = [phase |-> monitor.phase, who |-> monitor.who, need |-> monitor.need]
    BY DEF PermitsInv
  <2> QED BY <2>1, <2>2
<1>5. monitor.phase # "memory" => got = 0
  OBVIOUS
<1>6. monitor'.phase = (IF granted THEN "push" ELSE monitor.phase) /\ monitor'.need = monitor.need - got
  BY <1>4
<1> HIDE DEF got
<1>7. HeldBytes' = HeldBytes + got /\ HeldBytes \in Nat
  <2>1. CASE monitor.phase = "memory"
    <3>1. HeldBytes = Notice - monitor.need /\ monitor'.phase = "memory"
      BY <1>6, <2>1 DEF HeldBytes
    <3>2. HeldBytes' = Notice - monitor'.need
      BY <3>1 DEF HeldBytes
    <3> QED BY <1>1, <1>2, <1>6, <3>1, <3>2 DEF BytesInv
  <2>2. CASE monitor.phase \in {"slot", "push"}
    <3>1. HeldBytes = Notice
      BY <2>2 DEF HeldBytes
    <3>2. HeldBytes' = Notice
      BY <1>6, <2>2 DEF HeldBytes
    <3> QED BY <1>1, <1>5, <2>2, <3>1, <3>2
  <2>3. CASE monitor.phase \in {"idle", "stopped"}
    <3>1. HeldBytes = 0
      BY <2>3 DEF HeldBytes
    <3>2. HeldBytes' = 0
      BY <1>6, <2>3 DEF HeldBytes
    <3> QED BY <1>5, <2>3, <3>1, <3>2
  <2> QED BY <2>1, <2>2, <2>3 DEF PermitsInv
<1>8. memory' \in Nat /\ monitor'.need \in 0..Notice
  BY <1>1, <1>2, <1>3, <1>6 DEF BytesInv
<1>9. memory + BytesOf(queue) + HeldBytes = Memory
  BY DEF BytesInv, BytesConserved, QueuedBytes
<1>10. memory' + BytesOf(queue') + HeldBytes' = Memory
  BY <1>1, <1>2, <1>3, <1>7, <1>9
<1> QED BY <1>8, <1>10 DEF BytesInv, BytesConserved, QueuedBytes

LEMMA BytesInitial == Init => BytesInv
<1> SUFFICES ASSUME Init
             PROVE  BytesInv
  OBVIOUS
<1>1. Memory \in Nat /\ Notice \in Nat
  BY QueueAssumption
<1>2. HeldBytes = 0
  BY DEF Init, Idle, HeldBytes
<1>3. QueuedBytes = 0
  BY NoBytes DEF Init, QueuedBytes
<1> QED BY <1>1, <1>2, <1>3 DEF Init, Idle, BytesInv, BytesConserved

LEMMA BytesStep == PermitsInv /\ BytesInv /\ [Next]_vars => BytesInv'
<1> SUFFICES ASSUME PermitsInv, BytesInv, [Next]_vars
             PROVE  BytesInv'
  OBVIOUS
<1>0. /\ queue \in Seq(Entries) /\ call \in [Clients -> Calls] /\ notices \in Seq(Clients)
      /\ memory \in Nat /\ monitor.need \in 0..Notice
      /\ BytesOf(queue) \in Nat /\ Notice \in Nat /\ Memory \in Nat
      /\ memory + BytesOf(queue) + HeldBytes = Memory
      /\ monitor = [phase |-> monitor.phase, who |-> monitor.who, need |-> monitor.need]
  <2>1. BytesOf(queue) \in Nat
    BY BytesCounted DEF PermitsInv
  <2> QED BY <2>1, QueueAssumption DEF PermitsInv, BytesInv, BytesConserved, QueuedBytes
\* Most steps leave the bytes where they are.
<1>1. ASSUME UNCHANGED <<queue, memory, monitor>>
      PROVE  BytesInv'
  BY <1>1 DEF BytesInv, BytesConserved, QueuedBytes, HeldBytes
<1>2. ASSUME NEW c \in Clients, Receive(c) \/ Leave(c) \/ Finish(c) \/ Answer(c)
      PROVE  BytesInv'
  BY <1>1, <1>2 DEF Receive, Leave, Finish, Answer
<1>3. ASSUME NEW c \in Clients, Handle(c)
      PROVE  BytesInv'
  <2>1. CASE ~Admitted(c)
    BY <1>1, <1>3, <2>1 DEF Handle
  <2>2. CASE Admitted(c)
    <3> DEFINE e == Command(call[c].kind, c, call[c].bytes)
    <3>1. /\ queue' = Append(queue, e) /\ memory' = memory - call[c].bytes /\ call[c].bytes <= memory
          /\ monitor' = monitor
      BY <1>3, <2>2 DEF Handle, Push, Admitted
    <3>2. e \in Entries /\ e.bytes = call[c].bytes /\ e.bytes \in Nat
      BY <1>0 DEF Command, Entries, Calls
    <3> HIDE DEF e
    <3>3. BytesOf(queue') = BytesOf(queue) + e.bytes
      BY <1>0, <3>1, <3>2, BytesAppended
    <3>4. HeldBytes' = HeldBytes /\ HeldBytes \in Int
      BY <1>0, <3>1 DEF HeldBytes
    <3>5. memory' \in Nat /\ memory' + BytesOf(queue') + HeldBytes' = Memory
      BY <1>0, <3>1, <3>2, <3>3, <3>4
    <3> QED BY <1>0, <3>1, <3>5 DEF BytesInv, BytesConserved, QueuedBytes
  <2> QED BY <2>1, <2>2
<1>4. CASE Wake \/ Dispatch \/ BatchEnds \/ UNCHANGED vars
  BY <1>1, <1>4 DEF Wake, Dispatch, BatchEnds, vars
<1>5. CASE MonitorTakes
  <2> DEFINE got == Min({memory, Notice})
  <2>1. /\ monitor.phase = "idle" /\ queue' = queue /\ memory' = memory - got
        /\ monitor' = [phase |-> "memory", who |-> Head(notices), need |-> Notice - got]
    BY <1>5 DEF MonitorTakes
  <2>2. got \in Nat /\ got <= memory /\ got <= Notice
    BY <1>0, LesserOf
  <2> HIDE DEF got
  <2>3. HeldBytes = 0
    BY <2>1 DEF HeldBytes
  <2>4. monitor'.phase = "memory" /\ monitor'.need = Notice - got
    BY <2>1
  <2>5. HeldBytes' = Notice - monitor'.need
    BY <2>4 DEF HeldBytes
  <2>6. monitor'.need \in 0..Notice /\ memory' \in Nat
        /\ memory' + BytesOf(queue') + HeldBytes' = Memory
    BY <1>0, <2>1, <2>2, <2>3, <2>4, <2>5
  <2> QED BY <2>6 DEF BytesInv, BytesConserved, QueuedBytes
<1>6. CASE MonitorReserves
  <2>1. /\ monitor.phase = "memory" /\ monitor.need = 0 /\ queue' = queue /\ memory' = memory
        /\ monitor' = [monitor EXCEPT !.phase = IF slots > 0 THEN "push" ELSE "slot"]
    BY <1>6 DEF MonitorReserves
  <2>2. monitor'.phase \in {"push", "slot"} /\ monitor'.need = monitor.need
    BY <1>0, <2>1
  <2>3. HeldBytes = Notice
    BY <1>0, <2>1 DEF HeldBytes
  <2>4. HeldBytes' = Notice
    BY <2>2 DEF HeldBytes
  <2> QED BY <1>0, <2>1, <2>2, <2>3, <2>4 DEF BytesInv, BytesConserved, QueuedBytes
<1>7. CASE MonitorPushes
  <2> DEFINE e == Command("gone", monitor.who, Notice)
  <2>1. /\ queue' = Append(queue, e) /\ monitor' = Idle /\ monitor.phase = "push" /\ memory' = memory
    BY <1>7 DEF MonitorPushes, Push
  <2>2. e \in Entries /\ e.bytes = Notice
    BY <1>0, <2>1 DEF PermitsInv, Command, Entries
  <2> HIDE DEF e
  <2>3. BytesOf(queue') = BytesOf(queue) + Notice
    BY <1>0, <2>1, <2>2, BytesAppended
  <2>4. HeldBytes = Notice
    BY <2>1 DEF HeldBytes
  <2>5. HeldBytes' = 0 /\ monitor'.need = 0
    BY <2>1 DEF HeldBytes, Idle
  <2>6. memory' \in Nat /\ monitor'.need \in 0..Notice
        /\ memory' + BytesOf(queue') + HeldBytes' = Memory
    BY <1>0, <2>1, <2>3, <2>4, <2>5
  <2> QED BY <2>6 DEF BytesInv, BytesConserved, QueuedBytes
<1>8. CASE Disconnect \/ ServiceEnds
  <2>1. queue' = queue /\ monitor' = Stopped /\ memory' = memory + HeldBytes
    BY <1>8 DEF Disconnect, ServiceEnds, MonitorDropped
  <2>2. monitor'.phase = "stopped" /\ monitor'.need = 0
    BY <2>1 DEF Stopped, Idle
  <2>3. HeldBytes' = 0
    BY <2>2 DEF HeldBytes
  <2>4. HeldBytes \in Nat
    BY <1>0 DEF HeldBytes
  <2> QED BY <1>0, <2>1, <2>2, <2>3, <2>4 DEF BytesInv, BytesConserved, QueuedBytes
<1>9. CASE Take
  <2>1. queue # <<>> /\ Freed(Head(queue).bytes, 1) /\ queue' = Tail(queue)
    BY <1>9 DEF Take
  <2>2. /\ Head(queue).bytes \in Nat /\ BytesOf(queue') \in Nat
        /\ BytesOf(queue) = Head(queue).bytes + BytesOf(queue')
    BY <1>0, <2>1, BytesTaken
  <2> QED BY <2>1, <2>2, FreedBytes
<1>10. CASE Stop
  <2>1. Freed(QueuedBytes, 0) /\ queue' = <<>>
    BY <1>10 DEF Stop
  <2>2. BytesOf(queue') = 0 /\ QueuedBytes = BytesOf(queue)
    BY <2>1, NoBytes DEF QueuedBytes
  <2>3. QueuedBytes \in Nat /\ BytesOf(queue') \in Nat /\ BytesOf(queue) = QueuedBytes + BytesOf(queue')
    BY <1>0, <2>2
  <2> QED BY <2>1, <2>3, FreedBytes
<1> QED BY <1>2, <1>3, <1>4, <1>5, <1>6, <1>7, <1>8, <1>9, <1>10 DEF Next, Monitor, Compositor

\* Bytes, places and permits are never lost or made up (command.rs,
\* interface.rs), for any clients, requests and capacities.
THEOREM CallsAreConserved == Spec => []Conserved
<1>1. PermitsInv /\ BytesInv => Conserved
  BY DEF PermitsInv, BytesInv, Conserved
<1> QED BY <1>1, PermitsInitial, PermitsStep, BytesInitial, BytesStep, PTL DEF Spec

------------------------------------------------------------------------------
(* The end of a subscription.                                              *)

\* The strengthening of ReasonReported: the task leaves its loop with nothing
\* told yet, and what the consumer may be told before the error is set is the
\* reason itself.
StreamInv ==
  /\ subReset \in BOOLEAN /\ subProducerClosed \in BOOLEAN
  /\ task = "running" => reason = "none" /\ error = "none" /\ ~subReset /\ ~subProducerClosed
  /\ task = "set" => /\ reason # "none" /\ ~subProducerClosed
                     /\ subReset => reason = "Overflow"
                     /\ error \in {"none", reason}
  /\ task \notin {"running", "set"} /\ reason # "none" => error = reason
  /\ reported \in {"none", error}

LEMMA StreamInitial == DeliveryInit => StreamInv
BY DEF DeliveryInit, Client!Init, StreamInv

LEMMA StreamStep == StreamInv /\ [DeliveryNext]_deliveryVars => StreamInv'
<1> SUFFICES ASSUME StreamInv, [DeliveryNext]_deliveryVars
             PROVE  StreamInv'
  OBVIOUS
<1> USE DEF StreamInv, subVars, taskVars, consumerVars
<1>1. ASSUME NEW key \in Keys \cup {Lifecycle}, Publish(key)
      PROVE  StreamInv'
  BY <1>1 DEF Publish
<1>2. CASE Forward \/ ServiceLost
  BY <1>2 DEF Forward, ForwardEvent, ForwardReset, ForwardIdle, ServiceLost
<1>3. CASE TaskAbandoned \/ TaskOwnerLost
  BY <1>3 DEF TaskAbandoned, TaskOwnerLost, LeaveTask
<1>4. CASE TaskSignal
  <2>1. CASE Head(signals) = EventsReset
    BY <1>4, <2>1 DEF TaskSignal, LeaveTask
  <2>2. CASE Head(signals) # EventsReset
    <3>1. subReset' \in BOOLEAN /\ UNCHANGED <<subProducerClosed, error, reported>>
      BY <1>4, <2>2 DEF TaskSignal, Client!Send, Client!SendQueued, Client!SendReset, Client!SendDropped,
         Client!queueVars, Client!buffer
    <3>2. \/ task' = "drop" /\ reason' = reason
          \/ subReset' /\ task' = "set" /\ reason' = "Overflow"
          \/ ~subReset' /\ UNCHANGED <<task, reason>>
      BY <1>4, <2>2 DEF TaskSignal, LeaveTask
    <3> QED BY <1>4, <3>1, <3>2 DEF TaskSignal
  <2> QED BY <2>1, <2>2
<1>5. CASE TaskSetError
  BY <1>5 DEF TaskSetError
<1>6. CASE TaskReset
  <2>1. subReset' \in BOOLEAN /\ UNCHANGED subProducerClosed
    BY <1>6 DEF TaskReset, Client!Reset, Client!queueVars, Client!buffer
  <2> QED BY <1>6, <2>1 DEF TaskReset
<1>7. CASE TaskDrop \/ TaskAborted
  BY <1>7 DEF TaskDrop, TaskAborted, Client!CloseProducer
<1>8. CASE NextEvent \/ NextIdle
  <2>1. UNCHANGED <<subReset, subProducerClosed>>
    BY <1>8 DEF NextEvent, NextIdle, Client!RecvEvent, Client!RecvNothing, Client!Await, Client!buffer
  <2> QED BY <1>8, <2>1 DEF NextEvent, NextIdle
<1>9. CASE NextReset
  BY <1>9 DEF NextReset, End, Client!RecvReset
<1>10. CASE NextEnd
  BY <1>10 DEF NextEnd, End, Client!RecvNothing, Client!buffer
<1>11. CASE Unsubscribe
  BY <1>11 DEF Unsubscribe, Client!CloseReceiver
<1>12. CASE UNCHANGED deliveryVars
  BY <1>12 DEF deliveryVars
<1> QED BY <1>1, <1>2, <1>3, <1>4, <1>5, <1>6, <1>7, <1>8, <1>9, <1>10, <1>11, <1>12
        DEF DeliveryNext, Task, Consume

\* A subscriber is told the reason of the task, never the fallback for another
\* one (crates/client/src/events.rs), for any keys and capacities.
THEOREM ReasonsAreReported == DeliverySpec => []ReasonReported
<1>1. StreamInv => ReasonReported
  BY DEF StreamInv, ReasonReported
<1> QED BY <1>1, StreamInitial, StreamStep, PTL DEF DeliverySpec

------------------------------------------------------------------------------
(* What a subscriber knows.  An update that a later one of its key         *)
(* supersedes, with no lifecycle event between them, is missed by nobody,   *)
(* and what lies behind a reset is excused: so much is kept by each of the  *)
(* steps in which an event is published, forwarded, queued and seen.        *)

\* What a consumer may know of the keys, and what the two queues and the bus hold.
Knowledge == [Keys -> Nat]
Item == [key : Keys \cup {Lifecycle}, id : Nat \ {0}, size : {0}]
Signal == Item \cup {EventsReset}

\* The first n events of q take a consumer from w to l.
Tells(q, w, n, l) == \A k \in Keys : Says(q, w, n, k, l[k])

\* No reset is among them.
Quiet(q, n) == \A j \in 1..n : q[j] # EventsReset

\* Until a reset, a consumer that starts with w knows at each lifecycle event
\* what was published before it.
Whole(q, w, p) ==
  \A i \in 1..Len(q) :
     q[i].key = Lifecycle /\ Quiet(q, i) => q[i].id \in 1..(Len(p) - 1) /\ Tells(q, w, i - 1, p[q[i].id])

\* A first part of it is whole.
LEMMA WholePrefix ==
  ASSUME NEW q, NEW r, NEW w, NEW p, Len(q) \in Nat, Len(r) \in Nat, Len(r) <= Len(q),
         \A i \in 1..Len(r) : r[i] = q[i], Whole(q, w, p)
  PROVE  Whole(r, w, p)
<1> SUFFICES ASSUME NEW i \in 1..Len(r), r[i].key = Lifecycle, Quiet(r, i)
             PROVE  r[i].id \in 1..(Len(p) - 1) /\ Tells(r, w, i - 1, p[r[i].id])
  BY DEF Whole
<1>1. i \in 1..Len(q) /\ r[i] = q[i] /\ \A j \in 1..i : r[j] = q[j]
  OBVIOUS
<1>2. q[i].id \in 1..(Len(p) - 1) /\ Tells(q, w, i - 1, p[q[i].id])
  BY <1>1 DEF Whole, Quiet
<1>3. \A j \in 1..(i - 1) : r[j] = q[j]
  BY <1>1
<1> QED BY <1>1, <1>2, <1>3, SaysAlike DEF Tells

\* What comes with or after a reset leaves it whole.
LEMMA WholeExcused ==
  ASSUME NEW q \in Seq(Signal), NEW w, NEW p, NEW x \in Signal, Whole(q, w, p),
         ~Quiet(Append(q, x), Len(q) + 1)
  PROVE  Whole(Append(q, x), w, p)
<1> DEFINE r == Append(q, x)
           n == Len(q)
<1>1. n \in Nat /\ Len(r) = n + 1 /\ \A i \in 1..n : r[i] = q[i]
  OBVIOUS
<1> HIDE DEF r
<1> SUFFICES ASSUME NEW i \in 1..(n + 1), r[i].key = Lifecycle, Quiet(r, i)
             PROVE  r[i].id \in 1..(Len(p) - 1) /\ Tells(r, w, i - 1, p[r[i].id])
  BY <1>1 DEF Whole, r
<1>2. ~Quiet(r, n + 1)
  BY DEF r
<1> HIDE DEF n
<1>3. i \in 1..n /\ i - 1 <= n /\ \A j \in 1..i : r[j] = q[j]
  <2>1. i # n + 1
    BY <1>2
  <2> QED BY <1>1, <2>1
<1>4. q[i].id \in 1..(Len(p) - 1) /\ Tells(q, w, i - 1, p[q[i].id])
  BY <1>1, <1>3 DEF Whole, Quiet, n
<1>5. \A j \in 1..(i - 1) : r[j] = q[j]
  BY <1>1, <1>3
<1> QED BY <1>3, <1>4, <1>5, SaysAlike DEF Tells

\* It is whole whatever is published after.
LEMMA WholeGrows ==
  ASSUME NEW q, NEW w, NEW p \in Seq(Knowledge), NEW x \in Knowledge, Whole(q, w, p)
  PROVE  Whole(q, w, Append(p, x))
<1> DEFINE pp == Append(p, x)
<1>1. Len(p) \in Nat /\ Len(pp) = Len(p) + 1 /\ \A i \in 1..(Len(p) - 1) : pp[i] = p[i] /\ i \in 1..(Len(pp) - 1)
  OBVIOUS
<1> HIDE DEF pp
<1>2. Whole(q, w, pp)
  BY <1>1 DEF Whole
<1> QED BY <1>2 DEF pp

\* The next publication, behind all that were published.
LEMMA WholePublished ==
  ASSUME NEW q \in Seq(Signal), NEW w, NEW p \in Seq(Knowledge), NEW l \in Knowledge, Len(p) >= 1, p[Len(p)] = l,
         NEW e \in Item, e.id = Len(p), Whole(q, w, p), Tells(q, w, Len(q), l)
  PROVE  LET now == IF e.key = Lifecycle THEN l ELSE [l EXCEPT ![e.key] = e.id]
         IN  /\ now \in Knowledge
             /\ Whole(Append(q, e), w, Append(p, now))
             /\ Tells(Append(q, e), w, Len(q) + 1, now)
<1> DEFINE now == IF e.key = Lifecycle THEN l ELSE [l EXCEPT ![e.key] = e.id]
           n == Len(q)
           r == Append(q, e)
           pp == Append(p, now)
<1>1. n \in Nat /\ Len(r) = n + 1 /\ r[n + 1] = e /\ \A i \in 1..n : r[i] = q[i]
  OBVIOUS
<1>2. e.id \in Nat /\ e.key \in Keys \cup {Lifecycle}
  BY DEF Item
<1>3. now \in Knowledge /\ \A k \in Keys : now[k] = IF e.key = k THEN e.id ELSE l[k]
  BY <1>2, DeliveryAssumption DEF Knowledge
<1> HIDE DEF now
<1>4. /\ Len(p) \in Nat /\ Len(pp) = Len(p) + 1 /\ pp[Len(p)] = l
      /\ Whole(q, w, pp)
  <2>1. Len(p) \in Nat /\ Len(pp) = Len(p) + 1 /\ pp[Len(p)] = l
    BY <1>3
  <2> QED BY <1>3, <2>1, WholeGrows
<1> HIDE DEF r, pp
<1>5. Tells(r, w, n, l)
  BY <1>1, SaysAlike DEF Tells
<1>6. Tells(r, w, n + 1, now)
  <2> SUFFICES ASSUME NEW k \in Keys PROVE Says(r, w, n + 1, k, now[k])
    BY DEF Tells
  <2>1. Says(r, w, n, k, l[k])
    BY <1>5 DEF Tells
  <2>2. Says(r, w, n + 1, k, IF r[n + 1].key = k THEN r[n + 1].id ELSE l[k])
    BY <1>1, <2>1, SaysMore
  <2> QED BY <1>1, <1>3, <2>2
<1>7. Whole(r, w, pp)
  <2> SUFFICES ASSUME NEW i \in 1..(n + 1), r[i].key = Lifecycle, Quiet(r, i)
               PROVE  r[i].id \in 1..(Len(pp) - 1) /\ Tells(r, w, i - 1, pp[r[i].id])
    BY <1>1 DEF Whole
  <2>1. CASE i = n + 1
    <3>1. r[i].id = Len(p) /\ i - 1 = n /\ Len(p) \in 1..(Len(pp) - 1)
      BY <1>1, <1>4, <2>1
    <3> QED BY <1>4, <1>5, <3>1
  <2>2. CASE i # n + 1
    <3>1. i \in 1..n /\ \A j \in 1..i : r[j] = q[j]
      BY <1>1, <2>2
    <3>2. q[i].id \in 1..(Len(pp) - 1) /\ Tells(q, w, i - 1, pp[q[i].id])
      BY <1>1, <1>4, <3>1 DEF Whole, Quiet
    <3>3. \A j \in 1..(i - 1) : r[j] = q[j]
      BY <1>1, <3>1
    <3> QED BY <3>1, <3>2, <3>3, SaysAlike DEF Tells
  <2> QED BY <2>1, <2>2
<1> QED BY <1>3, <1>6, <1>7 DEF r, pp, now

\* It is whole without an update that a later one supersedes.
LEMMA WholeWithout ==
  ASSUME NEW q \in Seq(Signal), NEW r \in Seq(Signal), NEW w, NEW p, NEW l, NEW c \in Nat, NEW m \in Nat,
         Lacks(r, q, c), c < m, m <= Len(q), q[m].key = q[c].key, q[c] # EventsReset,
         \A j \in c..m : q[j].key # Lifecycle, Whole(q, w, p)
  PROVE  /\ Whole(r, w, p)
         /\ Tells(q, w, Len(q), l) => Tells(r, w, Len(r), l)
<1> DEFINE n == Len(q)
<1>1. n \in Nat /\ Len(r) = n - 1 /\ c \in 1..n /\ \A i \in 1..(n - 1) : r[i] = IF i < c THEN q[i] ELSE q[i + 1]
  BY DEF Lacks
<1>2. m <= n
  OBVIOUS
<1> HIDE DEF n
<1>3. Tells(q, w, n, l) => Tells(r, w, n - 1, l)
  BY <1>1, <1>2, SaysWithout DEF Tells
<1>4. Whole(r, w, p)
  <2> SUFFICES ASSUME NEW i \in 1..(n - 1), r[i].key = Lifecycle, Quiet(r, i)
               PROVE  r[i].id \in 1..(Len(p) - 1) /\ Tells(r, w, i - 1, p[r[i].id])
    BY <1>1 DEF Whole
  <2>1. CASE i < c
    <3>1. i \in 1..n /\ \A j \in 1..i : r[j] = q[j]
      BY <1>1, <2>1
    <3>2. q[i].id \in 1..(Len(p) - 1) /\ Tells(q, w, i - 1, p[q[i].id])
      BY <1>1, <3>1 DEF Whole, Quiet, n
    <3>3. \A j \in 1..(i - 1) : r[j] = q[j]
      BY <1>1, <3>1
    <3> QED BY <3>1, <3>2, <3>3, SaysAlike DEF Tells
  <2>2. CASE ~(i < c)
    <3>0. r[i] = q[i + 1]
      BY <1>1, <2>2
    <3>1. i + 1 \in 1..n /\ r[i] = q[i + 1] /\ i \in Nat /\ i + 1 > c /\ (i + 1) - 1 = i
      <4>1. n \in Nat
        BY <1>1
      <4> QED BY <2>2, <3>0, <4>1
    <3>2. i + 1 > m
      BY <1>1, <3>1
    <3>3. Quiet(q, i + 1)
      <4> SUFFICES ASSUME NEW j \in 1..(i + 1) PROVE q[j] # EventsReset
        BY DEF Quiet
      <4>1. CASE j < c
        <5>1. j \in 1..i /\ j \in 1..(n - 1)
          BY <1>1, <2>2, <4>1
        <5> QED BY <1>1, <4>1, <5>1 DEF Quiet
      <4>2. CASE j = c
        BY <4>2
      <4>3. CASE j > c
        <5>1. j - 1 \in 1..i /\ j - 1 \in 1..(n - 1) /\ ~(j - 1 < c) /\ (j - 1) + 1 = j
          BY <1>1, <2>2, <4>3
        <5>2. r[j - 1] = q[j]
          BY <1>1, <5>1
        <5> QED BY <5>1, <5>2 DEF Quiet
      <4> QED BY <1>1, <4>1, <4>2, <4>3
    <3>4. q[i + 1].id \in 1..(Len(p) - 1) /\ Tells(q, w, i, p[q[i + 1].id])
      BY <1>1, <3>1, <3>3 DEF Whole, n
    <3>5. m <= i /\ 1 <= c /\ \A j \in 1..(i - 1) : r[j] = IF j < c THEN q[j] ELSE q[j + 1]
      BY <1>1, <3>1, <3>2
    <3>6. Tells(r, w, i - 1, p[q[i + 1].id])
      BY <3>1, <3>4, <3>5, SaysWithout DEF Tells
    <3> QED BY <3>1, <3>4, <3>6
  <2> QED BY <2>1, <2>2
<1> QED BY <1>1, <1>3, <1>4 DEF n

\* It is whole when the consumer has seen the first of it.
LEMMA WholeTaken ==
  ASSUME NEW q \in Seq(Signal), q # <<>>, q[1] \in Item, NEW w \in Knowledge, NEW p, NEW l, Whole(q, w, p)
  PROVE  LET taken == IF q[1].key = Lifecycle THEN w ELSE [w EXCEPT ![q[1].key] = q[1].id]
         IN  /\ taken \in Knowledge
             /\ Whole(Tail(q), taken, p)
             /\ Tells(q, w, Len(q), l) => Tells(Tail(q), taken, Len(Tail(q)), l)
<1> DEFINE taken == IF q[1].key = Lifecycle THEN w ELSE [w EXCEPT ![q[1].key] = q[1].id]
           t == Tail(q)
           n == Len(t)
<1>1. n \in Nat /\ Len(q) = n + 1 /\ \A i \in 1..n : t[i] = q[i + 1]
  OBVIOUS
<1>2. /\ q[1].key \in Keys \cup {Lifecycle} /\ q[1].id \in Nat
      /\ q[1] # EventsReset
  BY DEF Item, EventsReset
<1>3. taken \in Knowledge /\ \A k \in Keys : taken[k] = IF q[1].key = k THEN q[1].id ELSE w[k]
  BY <1>2, DeliveryAssumption DEF Knowledge
<1> HIDE DEF taken, t, n
<1>4. ASSUME NEW x, NEW i \in Nat, i <= n, Tells(q, w, i + 1, x)
      PROVE  Tells(t, taken, i, x)
  <2>1. \A j \in 1..i : t[j] = q[j + 1]
    BY <1>1, <1>4
  <2> QED BY <1>3, <1>4, <2>1, SaysTaken DEF Tells
<1>5. Whole(t, taken, p)
  <2> SUFFICES ASSUME NEW i \in 1..n, t[i].key = Lifecycle, Quiet(t, i)
               PROVE  t[i].id \in 1..(Len(p) - 1) /\ Tells(t, taken, i - 1, p[t[i].id])
    BY DEF Whole, n
  <2>1. /\ i + 1 \in 1..(n + 1) /\ t[i] = q[i + 1] /\ (i + 1) - 1 = (i - 1) + 1
        /\ i - 1 \in Nat /\ i - 1 <= n
    BY <1>1
  <2>2. Quiet(q, i + 1)
    <3> SUFFICES ASSUME NEW j \in 1..(i + 1) PROVE q[j] # EventsReset
      BY DEF Quiet
    <3>1. CASE j = 1
      BY <1>2, <3>1
    <3>2. CASE j # 1
      <4>1. j - 1 \in 1..i /\ j - 1 \in 1..n /\ (j - 1) + 1 = j
        BY <1>1, <3>2
      <4>2. t[j - 1] = q[j]
        BY <1>1, <4>1
      <4> QED BY <4>1, <4>2 DEF Quiet
    <3> QED BY <3>1, <3>2
  <2>3. q[i + 1].id \in 1..(Len(p) - 1) /\ Tells(q, w, (i - 1) + 1, p[q[i + 1].id])
    BY <1>1, <2>1, <2>2 DEF Whole
  <2> QED BY <1>4, <2>1, <2>3
<1>6. Tells(q, w, Len(q), l) => Tells(t, taken, n, l)
  <2>1. n \in Nat /\ n <= n /\ Len(q) = n + 1
    BY <1>1
  <2> QED BY <1>4, <2>1
<1> QED BY <1>3, <1>5, <1>6 DEF taken, t, n

\* The queue q of either side when send supersedes an update of it with e.
SupersededIn(q, e) ==
  {i \in DOMAIN q : e.key # Lifecycle /\ q[i].key = e.key /\ \A j \in i..Len(q) : q[j].key # Lifecycle}
KeptIn(q, e) == IF SupersededIn(q, e) = {} THEN q ELSE RemoveAt(q, Max(SupersededIn(q, e)))

\* At most the superseded update is missing.
LEMMA KeptLacks ==
  ASSUME NEW q \in Seq(Item), NEW e \in Item
  PROVE  /\ KeptIn(q, e) \in Seq(Item)
         /\ \/ KeptIn(q, e) = q
            \/ \E c \in 1..Len(q) : /\ Lacks(KeptIn(q, e), q, c) /\ q[c].key = e.key
                                    /\ \A j \in c..Len(q) : q[j].key # Lifecycle
<1> DEFINE S == SupersededIn(q, e)
           c == Max(S)
<1>1. Len(q) \in Nat /\ S \in SUBSET (1..Len(q))
  BY DEF SupersededIn
<1>2. CASE S = {}
  BY <1>2 DEF KeptIn
<1>3. CASE S # {}
  <2>1. c \in S
    <3> HIDE DEF S
    <3> QED BY <1>1, <1>3, MaxPosition
  <2>2. KeptIn(q, e) = RemoveAt(q, c)
    BY <1>3 DEF KeptIn
  <2>3. c \in 1..Len(q) /\ q[c].key = e.key /\ \A j \in c..Len(q) : q[j].key # Lifecycle
    BY <2>1 DEF SupersededIn
  <2> HIDE DEF c
  <2>4. /\ RemoveAt(q, c) \in Seq(Item) /\ Len(RemoveAt(q, c)) = Len(q) - 1
        /\ \A i \in 1..Len(q) - 1 : RemoveAt(q, c)[i] = IF i < c THEN q[i] ELSE q[i + 1]
    BY <2>3, RemoveAtProperties
  <2>5. Lacks(RemoveAt(q, c), q, c)
    BY <2>3, <2>4 DEF Lacks
  <2> QED BY <2>2, <2>3, <2>4, <2>5
<1> QED BY <1>2, <1>3

\* Superseding leaves it whole, with x ahead and y behind.
LEMMA Coalesced ==
  ASSUME NEW x \in Seq(Signal), NEW q \in Seq(Item), NEW e \in Item, NEW y \in Seq(Signal), NEW w, NEW p, NEW l,
         Whole((x \o Append(q, e)) \o y, w, p)
  PROVE  LET old == (x \o Append(q, e)) \o y
             new == (x \o Append(KeptIn(q, e), e)) \o y
         IN  Whole(new, w, p) /\ (Tells(old, w, Len(old), l) => Tells(new, w, Len(new), l))
<1> DEFINE k == KeptIn(q, e)
           old == (x \o Append(q, e)) \o y
           new == (x \o Append(k, e)) \o y
<1>1. /\ k \in Seq(Item)
      /\ \/ k = q
         \/ \E c \in 1..Len(q) : /\ Lacks(k, q, c) /\ q[c].key = e.key
                                 /\ \A j \in c..Len(q) : q[j].key # Lifecycle
  BY KeptLacks
<1> HIDE DEF k
<1>2. CASE k = q
  BY <1>2 DEF k
<1>3. ASSUME NEW c \in 1..Len(q), Lacks(k, q, c), q[c].key = e.key, \A j \in c..Len(q) : q[j].key # Lifecycle
      PROVE  Whole(new, w, p) /\ (Tells(old, w, Len(old), l) => Tells(new, w, Len(new), l))
  <2> DEFINE qe == q \o <<e>>
             ke == k \o <<e>>
             xq == x \o qe
             xk == x \o ke
             n == Len(q)
             m == Len(x)
  <2>1. Append(q, e) = qe /\ Append(k, e) = ke /\ <<e>> \in Seq(Item)
    BY <1>1, AppendIsConcat
  <2>2. /\ q \in Seq(Signal) /\ k \in Seq(Signal) /\ <<e>> \in Seq(Signal) /\ Item \subseteq Signal
    BY <1>1, <2>1, SeqMonotonic DEF Signal
  <2>3. qe \in Seq(Signal) /\ ke \in Seq(Signal) /\ Lacks(ke, qe, c)
    BY <1>3, <2>2, LacksBehind, ConcatAt
  <2>4. /\ n \in Nat /\ Len(qe) = n + 1 /\ qe[n + 1] = e /\ \A i \in 1..n : qe[i] = q[i]
    OBVIOUS
  <2> HIDE DEF qe, ke, n
  <2>5. xq \in Seq(Signal) /\ xk \in Seq(Signal) /\ Lacks(xk, xq, m + c)
    BY <2>3, LacksAhead, ConcatAt
  <2>6. /\ m \in Nat /\ Len(xq) = m + (n + 1) /\ \A i \in 1..(n + 1) : xq[m + i] = qe[i]
    <3>1. m \in Nat /\ Len(xq) = m + Len(qe) /\ \A i \in 1..Len(qe) : xq[m + i] = qe[i]
      BY <2>3, ConcatAt
    <3> HIDE DEF xq, m
    <3> QED BY <2>4, <3>1
  <2> HIDE DEF xq, xk, m
  <2> DEFINE u == xq \o y
             v == xk \o y
  <2>7. u \in Seq(Signal) /\ v \in Seq(Signal) /\ Lacks(v, u, m + c)
    BY <2>5, LacksBehind, ConcatAt
  <2>8. Len(y) \in Nat /\ Len(u) = Len(xq) + Len(y) /\ \A i \in 1..Len(xq) : u[i] = xq[i]
    BY <2>5, ConcatAt
  <2> HIDE DEF u, v
  <2>9. /\ m + c \in Nat /\ m + (n + 1) \in Nat /\ m + c < m + (n + 1) /\ m + (n + 1) <= Len(u)
        /\ c \in Nat /\ c \in 1..n /\ c \in 1..(n + 1) /\ n + 1 \in 1..(n + 1)
    BY <2>4, <2>6, <2>8 DEF n
  <2>10. ASSUME NEW i \in 1..(n + 1) PROVE u[m + i] = qe[i]
    <3>1. m + i \in 1..Len(xq)
      BY <2>4, <2>6
    <3> QED BY <2>6, <2>8, <3>1
  <2>11. u[m + (n + 1)] = e /\ u[m + c] = q[c]
    BY <2>4, <2>9, <2>10
  <2>12. q[c] \in Item /\ e \in Item /\ q[c] # EventsReset
    <3>1. q[c] \in Item
      BY ElementOfSeq
    <3> QED BY <3>1 DEF Item, EventsReset
  <2>13. ASSUME NEW j \in (m + c)..(m + (n + 1)) PROVE u[j].key # Lifecycle
    <3> DEFINE i == j - m
    <3>1. i \in c..(n + 1) /\ i \in 1..(n + 1) /\ m + i = j
      BY <2>4, <2>6, <2>9
    <3> HIDE DEF i
    <3>2. u[j] = qe[i]
      BY <2>10, <3>1
    <3>3. CASE i = n + 1
      <4>1. e.key # Lifecycle
        <5>1. c \in c..Len(q)
          BY <2>9 DEF n
        <5> QED BY <1>3, <5>1
      <4> QED BY <2>4, <3>2, <3>3, <4>1
    <3>4. CASE i # n + 1
      <4>0. n \in Nat /\ i \in 1..(n + 1) /\ i \in c..(n + 1)
        BY <2>4, <3>1
      <4>1. i \in 1..n /\ i \in c..n
        BY <3>4, <4>0
      <4>2. qe[i] = q[i]
        BY <2>4, <4>1
      <4> QED BY <1>3, <3>2, <4>1, <4>2 DEF n
    <3> QED BY <3>3, <3>4
  <2>14. old = u /\ new = v
    BY <2>1 DEF u, v, xq, xk
  <2>15. Whole(u, w, p)
    BY <2>14
  <2> HIDE DEF old, new
  <2> DEFINE d == m + c
             z == m + (n + 1)
  <2>16. /\ d \in Nat /\ z \in Nat /\ Lacks(v, u, d) /\ d < z /\ z <= Len(u) /\ u[z].key = u[d].key
         /\ u[d] # EventsReset /\ \A j \in d..z : u[j].key # Lifecycle
    BY <1>3, <2>7, <2>9, <2>11, <2>12, <2>13
  <2> HIDE DEF d, z
  <2>17. Whole(v, w, p) /\ (Tells(u, w, Len(u), l) => Tells(v, w, Len(v), l))
    BY <2>7, <2>15, <2>16, WholeWithout
  <2> QED BY <2>14, <2>17
<1> QED BY <1>1, <1>2, <1>3 DEF k

\* The signals of two parts may be put together first.
LEMMA SignalsRegrouped == \A s, t, u \in Seq(Signal) : (s \o t) \o u = s \o (t \o u)
BY ConcatRegrouped

\* A reset is not lost among more signals ahead.
LEMMA QuietConcat ==
  ASSUME NEW a \in Seq(Signal), NEW b \in Seq(Signal), ~Quiet(b, Len(b))
  PROVE  ~Quiet(a \o b, Len(a \o b))
<1> DEFINE u == a \o b
           n == Len(a)
           m == Len(b)
<1>1. n \in Nat /\ m \in Nat /\ Len(u) = n + m /\ \A i \in 1..m : u[n + i] = b[i]
  BY ConcatAt
<1>2. PICK j \in 1..m : b[j] = EventsReset
  BY DEF Quiet
<1> HIDE DEF u, n, m
<1>3. n + j \in 1..Len(u) /\ u[n + j] = EventsReset
  BY <1>1, <1>2
<1>4. ~Quiet(u, Len(u))
  BY <1>3 DEF Quiet
<1> QED BY <1>4 DEF u

\* One more signal behind.
LEMMA QuietAppend ==
  ASSUME NEW b \in Seq(Signal), NEW x \in Signal
  PROVE  Quiet(Append(b, x), Len(b) + 1) <=> Quiet(b, Len(b)) /\ x # EventsReset
<1> DEFINE u == Append(b, x)
           n == Len(b)
<1>1. n \in Nat /\ u[n + 1] = x /\ \A i \in 1..n : u[i] = b[i]
  OBVIOUS
<1> HIDE DEF u, n
<1>2. n + 1 \in 1..(n + 1) /\ \A i \in 1..n : i \in 1..(n + 1)
  BY <1>1
<1>3. \A i \in 1..(n + 1) : i = n + 1 \/ i \in 1..n
  BY <1>1
<1>4. Quiet(u, n + 1) <=> Quiet(b, n) /\ x # EventsReset
  BY <1>1, <1>2, <1>3 DEF Quiet
<1> QED BY <1>4 DEF u, n

\* The first signal is no reset.
LEMMA QuietTail ==
  ASSUME NEW b \in Seq(Signal), b # <<>>, Head(b) # EventsReset, Quiet(Tail(b), Len(Tail(b)))
  PROVE  Quiet(b, Len(b))
<1> DEFINE t == Tail(b)
           n == Len(t)
<1>1. n \in Nat /\ Len(b) = n + 1 /\ b[1] = Head(b) /\ \A i \in 1..n : b[i + 1] = t[i]
  OBVIOUS
<1>0. Quiet(t, n)
  OBVIOUS
<1> HIDE DEF t, n
<1>2. ASSUME NEW j \in 1..(n + 1) PROVE b[j] # EventsReset
  <2>1. CASE j = 1
    BY <1>1, <2>1
  <2>2. CASE j # 1
    <3>1. j - 1 \in 1..n /\ (j - 1) + 1 = j
      BY <1>1, <2>2
    <3> QED BY <1>0, <1>1, <3>1 DEF Quiet
  <2> QED BY <2>1, <2>2
<1> QED BY <1>1, <1>2 DEF Quiet

\* The part ahead of a whole line is whole.
LEMMA WholeAhead ==
  ASSUME NEW a \in Seq(Signal), NEW b \in Seq(Signal), NEW w, NEW p, Whole(a \o b, w, p)
  PROVE  Whole(a, w, p)
<1> DEFINE u == a \o b
<1>1. Len(u) \in Nat /\ Len(a) \in Nat /\ Len(a) <= Len(u) /\ \A i \in 1..Len(a) : a[i] = u[i]
  <2>1. Len(a) \in Nat /\ Len(b) \in Nat /\ Len(u) = Len(a) + Len(b) /\ \A i \in 1..Len(a) : u[i] = a[i]
    BY ConcatAt
  <2> HIDE DEF u
  <2> QED BY <2>1
<1>2. Whole(u, w, p)
  OBVIOUS
<1> HIDE DEF u
<1> QED BY <1>1, <1>2, WholePrefix

\* All that is on its way: a waits in the subscription, b on the bus, c in the
\* service, and r says that the service has a reset to tell before c.
Line(a, b, c, w, p, l, r) ==
  /\ Whole(a \o b, w, p)
  /\ Quiet(b, Len(b)) /\ ~r => Whole((a \o b) \o c, w, p) /\ Tells((a \o b) \o c, w, Len((a \o b) \o c), l)

\* The service forwards an event.
LEMMA LineForwarded ==
  ASSUME NEW a \in Seq(Signal), NEW b \in Seq(Signal), NEW c \in Seq(Signal), NEW w, NEW p, NEW l,
         c # <<>>, Head(c) # EventsReset, Line(a, b, c, w, p, l, FALSE)
  PROVE  Line(a, Append(b, Head(c)), Tail(c), w, p, l, FALSE)
<1> DEFINE h == Head(c)
           t == Tail(c)
           x == a \o b
           bb == Append(b, h)
           xx == a \o bb
<1>1. h \in Signal /\ t \in Seq(Signal) /\ h # EventsReset
  OBVIOUS
<1>2. x \in Seq(Signal) /\ xx = Append(x, h) /\ xx \in Seq(Signal) /\ xx \o t = x \o c
  <2>1. x \in Seq(Signal)
    OBVIOUS
  <2>2. xx = Append(x, h)
    BY <1>1, ConcatAppend
  <2> HIDE DEF x, xx, h, t
  <2>3. Append(x, h) \o t = x \o c
    BY <2>1, ConcatMoved DEF h, t
  <2> QED BY <1>1, <2>1, <2>2, <2>3
<1>3. Len(bb) = Len(b) + 1 /\ (Quiet(bb, Len(b) + 1) <=> Quiet(b, Len(b)))
  BY <1>1, QuietAppend
<1>4. Whole(x, w, p)
  BY DEF Line
<1>5. Quiet(b, Len(b)) => Whole(x \o c, w, p) /\ Tells(x \o c, w, Len(x \o c), l)
  BY DEF Line
<1>6. ~Quiet(b, Len(b)) => ~Quiet(x, Len(x))
  BY QuietConcat
<1> HIDE DEF x, xx, bb, t, h
<1>7. Whole(xx, w, p)
  <2>1. CASE Quiet(b, Len(b))
    BY <1>1, <1>2, <1>5, <2>1, WholeAhead
  <2>2. CASE ~Quiet(b, Len(b))
    <3>1. ~Quiet(Append(x, h), Len(x) + 1)
      BY <1>1, <1>2, <1>6, <2>2, QuietAppend
    <3> QED BY <1>1, <1>2, <1>4, <3>1, WholeExcused
  <2> QED BY <2>1, <2>2
<1>8. Quiet(bb, Len(bb)) => Whole(xx \o t, w, p) /\ Tells(xx \o t, w, Len(xx \o t), l)
  BY <1>2, <1>3, <1>5
<1> QED BY <1>7, <1>8 DEF Line, xx, bb, h, t

\* The service tells the reset.
LEMMA LineReset ==
  ASSUME NEW a \in Seq(Signal), NEW b \in Seq(Signal), NEW c, NEW w, NEW p, NEW l, NEW r, Line(a, b, c, w, p, l, r)
  PROVE  Line(a, Append(b, EventsReset), c, w, p, l, FALSE)
<1> DEFINE x == a \o b
           bb == Append(b, EventsReset)
<1>1. EventsReset \in Signal
  BY DEF Signal
<1>2. x \in Seq(Signal) /\ a \o bb = Append(x, EventsReset) /\ Len(bb) = Len(b) + 1
  BY <1>1, ConcatAppend
<1>3. ~Quiet(bb, Len(b) + 1)
  BY <1>1, QuietAppend
<1>4. Whole(x, w, p)
  BY DEF Line
<1> HIDE DEF x
<1>5. ~Quiet(Append(x, EventsReset), Len(x) + 1)
  BY <1>1, <1>2, QuietAppend
<1>6. Whole(a \o bb, w, p)
  BY <1>1, <1>2, <1>4, <1>5, WholeExcused
<1> QED BY <1>2, <1>3, <1>6 DEF Line

\* A publication the service queues.
LEMMA LineQueued ==
  ASSUME NEW a \in Seq(Signal), NEW b \in Seq(Signal), NEW c \in Seq(Item), NEW w, NEW p \in Seq(Knowledge),
         NEW l \in Knowledge, Len(p) >= 1, p[Len(p)] = l, NEW e \in Item, e.id = Len(p), Line(a, b, c, w, p, l, FALSE)
  PROVE  LET now == IF e.key = Lifecycle THEN l ELSE [l EXCEPT ![e.key] = e.id]
         IN  Line(a, b, Append(KeptIn(c, e), e), w, Append(p, now), now, FALSE)
<1> DEFINE now == IF e.key = Lifecycle THEN l ELSE [l EXCEPT ![e.key] = e.id]
           x == a \o b
           pp == Append(p, now)
           k == Append(KeptIn(c, e), e)
<1>1. now \in Knowledge
  <2>1. e.id \in Nat
    BY DEF Item
  <2> QED BY <2>1 DEF Knowledge
<1>2. x \in Seq(Signal) /\ c \in Seq(Signal) /\ e \in Signal /\ k \in Seq(Signal)
  <2>1. Item \subseteq Signal
    BY DEF Signal
  <2>2. k \in Seq(Item)
    BY KeptLacks
  <2> HIDE DEF k
  <2> QED BY <2>1, <2>2, SeqMonotonic
<1> HIDE DEF k
<1>3. Whole(x, w, pp)
  <2>1. Whole(x, w, p)
    BY DEF Line
  <2> HIDE DEF x, now
  <2> QED BY <1>1, <2>1, WholeGrows
<1>4. ASSUME Quiet(b, Len(b))
      PROVE  Whole(x \o k, w, pp) /\ Tells(x \o k, w, Len(x \o k), now)
  <2> DEFINE q == x \o c
             old == x \o Append(c, e)
             new == x \o k
  <2>1. Whole(q, w, p) /\ Tells(q, w, Len(q), l)
    BY <1>4 DEF Line
  <2> HIDE DEF x
  <2>2. q \in Seq(Signal) /\ Len(q) \in Nat /\ old = Append(q, e) /\ old \in Seq(Signal) /\ new \in Seq(Signal)
    BY <1>2, ConcatAppend
  <2> HIDE DEF q, old, new
  <2>3. /\ Whole(Append(q, e), w, pp) /\ Tells(Append(q, e), w, Len(q) + 1, now)
        /\ Len(Append(q, e)) = Len(q) + 1
    <3>1. Len(Append(q, e)) = Len(q) + 1
      BY <1>2, <2>2
    <3>2. Whole(Append(q, e), w, pp) /\ Tells(Append(q, e), w, Len(q) + 1, now)
      BY <2>1, <2>2, WholePublished
    <3> QED BY <3>1, <3>2
  <2>4. Whole(old, w, pp) /\ Tells(old, w, Len(old), now)
    BY <2>2, <2>3
  <2> HIDE DEF now, pp
  <2>5. (x \o Append(c, e)) \o <<>> = old /\ (x \o k) \o <<>> = new /\ <<>> \in Seq(Signal)
    BY <2>2, ConcatEmptySeq DEF old, new
  <2>6. (x \o Append(KeptIn(c, e), e)) \o <<>> = new
    BY <2>5 DEF k
  <2>7. Whole(new, w, pp) /\ (Tells(old, w, Len(old), now) => Tells(new, w, Len(new), now))
    <3>1. Whole((x \o Append(c, e)) \o <<>>, w, pp)
      BY <2>4, <2>5
    <3> QED BY <1>2, <2>5, <2>6, <3>1, Coalesced
  <2>8. Whole(new, w, pp) /\ Tells(new, w, Len(new), now)
    BY <2>4, <2>7
  <2> QED BY <2>8 DEF new
<1> HIDE DEF now
<1> QED BY <1>3, <1>4 DEF Line, k, pp, now

\* A publication the service drops, or the overflow that drops its queue.
LEMMA LineDropped ==
  ASSUME NEW a, NEW b, NEW c, NEW d, NEW w, NEW p \in Seq(Knowledge),
         NEW l, NEW now \in Knowledge, NEW r, Line(a, b, c, w, p, l, r)
  PROVE  Line(a, b, d, w, Append(p, now), now, TRUE)
BY WholeGrows DEF Line

\* The subscription queues the event at the head of the bus.
LEMMA LineTaken ==
  ASSUME NEW a \in Seq(Item), NEW b \in Seq(Signal), NEW c \in Seq(Signal), NEW w, NEW p, NEW l, NEW r,
         b # <<>>, Head(b) \in Item, Line(a, b, c, w, p, l, r)
  PROVE  Line(Append(KeptIn(a, Head(b)), Head(b)), Tail(b), c, w, p, l, r)
<1> DEFINE e == Head(b)
           t == Tail(b)
           k == Append(KeptIn(a, e), e)
           x == a \o b
<1>0. Item \subseteq Signal
  BY DEF Signal
<1>1. /\ e \in Item /\ e \in Signal /\ e # EventsReset /\ t \in Seq(Signal) /\ k \in Seq(Signal)
      /\ a \in Seq(Signal) /\ x \in Seq(Signal)
  <2>1. e \in Item /\ e # EventsReset /\ t \in Seq(Signal)
    BY DEF Item, EventsReset
  <2>2. k \in Seq(Item)
    <3> HIDE DEF e
    <3> QED BY <2>1, KeptLacks
  <2> HIDE DEF k, e, t
  <2>3. k \in Seq(Signal) /\ a \in Seq(Signal) /\ e \in Signal
    BY <1>0, <2>1, <2>2, SeqMonotonic
  <2> QED BY <2>1, <2>3
<1>2. Append(a, e) \in Seq(Signal) /\ Append(a, e) \o t = x
  <2>1. Append(a, e) \o t = x
    BY <1>1, ConcatMoved
  <2> HIDE DEF e
  <2> QED BY <1>1, <2>1
<1>3. Whole(x, w, p)
  BY DEF Line
<1>4. Quiet(b, Len(b)) /\ ~r => Whole(x \o c, w, p) /\ Tells(x \o c, w, Len(x \o c), l)
  BY DEF Line
<1>5. Quiet(t, Len(t)) => Quiet(b, Len(b))
  BY <1>1, QuietTail
<1> HIDE DEF e, t, x
\* What is behind the event may be anything.
<1>6. ASSUME NEW y \in Seq(Signal), Whole(Append(a, e) \o y, w, p)
      PROVE  /\ Whole(k \o y, w, p)
             /\ Tells(Append(a, e) \o y, w, Len(Append(a, e) \o y), l) => Tells(k \o y, w, Len(k \o y), l)
  <2>1. <<>> \in Seq(Signal)
    OBVIOUS
  <2>2. <<>> \o Append(a, e) = Append(a, e) /\ <<>> \o k = k
    <3> HIDE DEF k
    <3> QED BY <1>1, <1>2, ConcatEmptySeq
  <2>3. <<>> \o Append(KeptIn(a, e), e) = k
    BY <2>2 DEF k
  <2>4. Whole((<<>> \o Append(a, e)) \o y, w, p)
    BY <1>6, <2>2
  <2>5. LET old == (<<>> \o Append(a, e)) \o y
            new == (<<>> \o Append(KeptIn(a, e), e)) \o y
        IN  Whole(new, w, p) /\ (Tells(old, w, Len(old), l) => Tells(new, w, Len(new), l))
    BY <1>1, <2>1, <2>4, Coalesced
  <2> HIDE DEF k
  <2> QED BY <2>2, <2>3, <2>5
<1> HIDE DEF k
<1>7. Whole(k \o t, w, p)
  BY <1>1, <1>2, <1>3, <1>6
<1>8. ASSUME Quiet(t, Len(t)), ~r
      PROVE  Whole((k \o t) \o c, w, p) /\ Tells((k \o t) \o c, w, Len((k \o t) \o c), l)
  <2> DEFINE y == t \o c
  <2>1. y \in Seq(Signal)
    BY <1>1
  <2>2. (k \o t) \o c = k \o y
    <3>1. k \in Seq(Signal) /\ t \in Seq(Signal)
      BY <1>1
    <3> QED BY <3>1, SignalsRegrouped, Zenon
  <2>3. x \o c = Append(a, e) \o y
    BY <1>1, <1>2, SignalsRegrouped, Zenon
  <2>4. Whole(x \o c, w, p) /\ Tells(x \o c, w, Len(x \o c), l)
    BY <1>4, <1>5, <1>8
  <2> HIDE DEF y
  <2>5. Whole(k \o y, w, p) /\ Tells(k \o y, w, Len(k \o y), l)
    BY <1>6, <2>1, <2>3, <2>4
  <2> QED BY <2>2, <2>5
<1> QED BY <1>7, <1>8 DEF Line, k, e, t

\* The consumer takes the event at the head of the subscription.
LEMMA LineSeen ==
  ASSUME NEW a \in Seq(Item), NEW b \in Seq(Signal), NEW c \in Seq(Signal), NEW w \in Knowledge, NEW p, NEW l, NEW r,
         a # <<>>, Line(a, b, c, w, p, l, r)
  PROVE  LET taken == IF Head(a).key = Lifecycle THEN w ELSE [w EXCEPT ![Head(a).key] = Head(a).id]
         IN  Line(Tail(a), b, c, taken, p, l, r)
<1> DEFINE h == Head(a)
           t == Tail(a)
           taken == IF h.key = Lifecycle THEN w ELSE [w EXCEPT ![h.key] = h.id]
           x == a \o b
           xx == t \o b
           z == x \o c
           zz == xx \o c
<1>1. /\ a \in Seq(Signal) /\ h \in Item
  BY SeqMonotonic DEF Signal
<1>2. x \in Seq(Signal) /\ x # <<>> /\ Head(x) = h /\ Tail(x) = xx
  BY <1>1, ConcatTail
<1> HIDE DEF h, t
<1>3. z \in Seq(Signal) /\ z # <<>> /\ Head(z) = h /\ Tail(z) = zz
  <2>1. /\ x \o c # <<>> /\ Head(x \o c) = Head(x) /\ Tail(x \o c) = Tail(x) \o c
        /\ x \o c \in Seq(Signal)
    <3> HIDE DEF x, xx
    <3>1. x \in Seq(Signal) /\ x # <<>>
      BY <1>2
    <3>2. x \o c # <<>> /\ Head(x \o c) = Head(x) /\ Tail(x \o c) = Tail(x) \o c
      BY <3>1, ConcatTail, Zenon
    <3>3. x \o c \in Seq(Signal)
      BY <3>1
    <3> QED BY <3>2, <3>3
  <2> QED BY <1>2, <2>1
<1>4. Whole(x, w, p) /\ (Quiet(b, Len(b)) /\ ~r => Whole(z, w, p) /\ Tells(z, w, Len(z), l))
  BY DEF Line
<1> HIDE DEF x, xx, z, zz
<1>5. x[1] = h /\ z[1] = h
  BY <1>2, <1>3
<1>6. Whole(xx, taken, p)
  BY <1>1, <1>2, <1>4, <1>5, WholeTaken
<1>7. ASSUME Quiet(b, Len(b)), ~r
      PROVE  Whole(zz, taken, p) /\ Tells(zz, taken, Len(zz), l)
  BY <1>1, <1>3, <1>4, <1>5, <1>7, WholeTaken
<1> HIDE DEF taken
<1> QED BY <1>6, <1>7 DEF Line, h, t, xx, zz, taken

\* The subscription still shows what it is given.
Following == Live /\ ~subReset /\ ~subReceiverClosed

\* From the subscription q of a consumer that knows w to the latest publication.
Linked(q, w) == Line(q, signals, svcEvents, w, published, latest, svcReset)

\* The strengthening of DeliveryExact.
DeliveryInv ==
  /\ svcEvents \in Seq(Item) /\ subEvents \in Seq(Item) /\ signals \in Seq(Signal)
  /\ svcReset \in BOOLEAN /\ ~svcReceiverClosed
  /\ subReceiverClosed \in BOOLEAN /\ (subReceiverClosed => subEvents = <<>>)
  /\ view \in Knowledge /\ latest \in Knowledge
  /\ published \in Seq(Knowledge) /\ Len(published) >= 1 /\ published[Len(published)] = latest
  /\ Following => Whole(subEvents, view, published)
  /\ Following /\ task = "running" => Linked(subEvents, view)

\* At first everything is known.
LEMMA DeliveryInitial == DeliveryInit => DeliveryInv
<1> SUFFICES ASSUME DeliveryInit PROVE DeliveryInv
  OBVIOUS
<1>1. /\ svcEvents = <<>> /\ subEvents = <<>> /\ signals = <<>> /\ svcReset = FALSE /\ svcReceiverClosed = FALSE
      /\ subReceiverClosed = FALSE
      /\ view = [k \in Keys |-> 0] /\ latest = [k \in Keys |-> 0] /\ published = <<latest>>
  BY DEF DeliveryInit, Service!Init, Client!Init
<1>2. /\ view \in Knowledge /\ latest \in Knowledge /\ view = latest
      /\ published \in Seq(Knowledge) /\ Len(published) = 1 /\ published[1] = latest
  BY <1>1 DEF Knowledge
<1> DEFINE none == <<>>
<1>3. Len(none) = 0 /\ none \in Seq(Signal) /\ none \in Seq(Item) /\ (none \o none) \o none = none /\ none \o none = none
  OBVIOUS
<1> HIDE DEF none
<1>4. Whole(none, view, published)
  BY <1>3 DEF Whole
<1>5. Tells(none, view, 0, latest)
  BY <1>2 DEF Tells, Says
<1>6. Linked(none, view)
  <2>1. signals = none /\ svcEvents = none
    BY <1>1 DEF none
  <2> QED BY <1>3, <1>4, <1>5, <2>1 DEF Linked, Line
<1>7. subEvents = none /\ signals = none /\ svcEvents = none
  BY <1>1 DEF none
<1>8. svcEvents \in Seq(Item) /\ subEvents \in Seq(Item) /\ signals \in Seq(Signal)
  BY <1>3, <1>7
<1>9. Whole(subEvents, view, published) /\ Linked(subEvents, view)
  BY <1>4, <1>6, <1>7
<1>10. Len(published) >= 1 /\ published[Len(published)] = latest
  BY <1>2
<1> QED BY <1>1, <1>2, <1>8, <1>9, <1>10 DEF DeliveryInv

\* The compositor publishes an event: it is queued, or dropped with the others.
LEMMA PublishKeeps ==
  ASSUME DeliveryInv, StreamInv, NEW key \in Keys \cup {Lifecycle}, Publish(key)
  PROVE  DeliveryInv'
<1> DEFINE e == [key |-> key, id |-> Len(published), size |-> 0]
           now == IF key = Lifecycle THEN latest ELSE [latest EXCEPT ![key] = Len(published)]
<1>1. /\ svcEvents \in Seq(Item) /\ subEvents \in Seq(Item) /\ subEvents \in Seq(Signal) /\ signals \in Seq(Signal)
      /\ latest \in Knowledge /\ published \in Seq(Knowledge) /\ Len(published) \in Nat /\ Len(published) >= 1
      /\ published[Len(published)] = latest
  BY SeqMonotonic DEF DeliveryInv, Signal
<1>2. e \in Item /\ e.id = Len(published) /\ e.key = key
  BY <1>1 DEF Item
<1>3. now \in Knowledge
  BY <1>1 DEF Knowledge
<1>4. /\ latest' = now /\ published' = Append(published, now) /\ Service!Send(e)
      /\ UNCHANGED <<subEvents, subReset, subReceiverClosed, signals, task, view, reported>>
  BY DEF Publish, subVars, linkVars, taskVars, consumerVars
<1>5. \/ ~svcReset /\ svcReset' = svcReset /\ svcReceiverClosed' = svcReceiverClosed /\ svcEvents' = Append(KeptIn(svcEvents, e), e)
      \/ svcReset' = TRUE /\ svcReceiverClosed' = svcReceiverClosed /\ svcEvents' = <<>>
      \/ svcReset /\ UNCHANGED <<svcReset, svcReceiverClosed, svcEvents>>
  <2> HIDE DEF e, now
  <2>1. Service!Kept(e) = KeptIn(svcEvents, e)
    BY DEF Service!Kept, Service!Superseded, KeptIn, SupersededIn, Service!Max, Max, Service!RemoveAt, RemoveAt
  <2>2. CASE Service!SendQueued(e)
    BY <2>1, <2>2 DEF Service!SendQueued
  <2>3. CASE Service!SendReset(e)
    BY <2>3 DEF Service!SendReset
  <2>4. CASE Service!SendDropped
    BY <2>4 DEF Service!SendDropped, Service!queueVars, Service!buffer, DeliveryInv
  <2> QED BY <1>4, <2>2, <2>3, <2>4 DEF Service!Send
<1> HIDE DEF e, now
<1>6. svcEvents' \in Seq(Item) /\ svcReset' \in BOOLEAN /\ ~svcReceiverClosed'
  <2>0. KeptIn(svcEvents, e) \in Seq(Item)
    BY <1>1, <1>2, KeptLacks
  <2>1. Append(KeptIn(svcEvents, e), e) \in Seq(Item) /\ <<>> \in Seq(Item)
    BY <1>2, <2>0
  <2> DEFINE q == Append(KeptIn(svcEvents, e), e)
  <2>2. q \in Seq(Item) /\ <<>> \in Seq(Item)
    BY <2>1
  <2>3. svcEvents' \in {q, <<>>, svcEvents} /\ svcReset' \in {TRUE, svcReset} /\ svcReceiverClosed' = svcReceiverClosed
    <3> HIDE DEF q
    <3> QED BY <1>5 DEF q
  <2> HIDE DEF q
  <2> QED BY <1>1, <2>2, <2>3 DEF DeliveryInv
<1>7. published' \in Seq(Knowledge) /\ Len(published') = Len(published) + 1 /\ published'[Len(published')] = now
  BY <1>1, <1>3, <1>4
<1>8. Following' => Whole(subEvents', view', published')
  BY <1>1, <1>3, <1>4, WholeGrows DEF DeliveryInv, Following, Live
<1>9. ASSUME Linked(subEvents, view)
      PROVE  Linked(subEvents, view)'
  <2>1. CASE ~svcReset /\ svcReset' = svcReset /\ svcEvents' = Append(KeptIn(svcEvents, e), e)
    <3>1. Line(subEvents, signals, svcEvents, view, published, latest, FALSE)
      BY <1>9, <2>1 DEF Linked, Line
    <3>2. now = IF e.key = Lifecycle THEN latest ELSE [latest EXCEPT ![e.key] = e.id]
      BY <1>2 DEF now
    <3>3. Line(subEvents, signals, Append(KeptIn(svcEvents, e), e), view, Append(published, now), now, FALSE)
      BY <1>1, <1>2, <3>1, <3>2, LineQueued
    <3> QED BY <1>4, <2>1, <3>3 DEF Linked, Line
  <2>2. CASE svcReset' = TRUE
    <3>1. Line(subEvents, signals, svcEvents', view, Append(published, now), now, TRUE)
      BY <1>1, <1>3, <1>9, LineDropped DEF Linked
    <3> QED BY <1>4, <2>2, <3>1 DEF Linked
  <2> QED BY <1>5, <2>1, <2>2 DEF DeliveryInv
<1>10. Following' /\ task' = "running" => Linked(subEvents, view)'
  BY <1>4, <1>9 DEF DeliveryInv, Following, Live
<1> QED BY <1>1, <1>3, <1>4, <1>6, <1>7, <1>8, <1>10 DEF DeliveryInv

\* The service forwards an event or the reset, or has none.
LEMMA ForwardKeeps == DeliveryInv /\ Forward => DeliveryInv'
<1> SUFFICES ASSUME DeliveryInv, Forward PROVE DeliveryInv'
  OBVIOUS
<1>0. UNCHANGED <<subEvents, subReset, subReceiverClosed, task, view, reported, latest, published>>
  BY DEF Forward, ForwardEvent, ForwardReset, ForwardIdle, subVars, linkVars, taskVars, consumerVars, snapshotVars
<1>1. /\ svcEvents \in Seq(Item) /\ svcEvents \in Seq(Signal)
      /\ subEvents \in Seq(Item) /\ subEvents \in Seq(Signal) /\ signals \in Seq(Signal)
  BY SeqMonotonic DEF DeliveryInv, Signal
<1>2. CASE ForwardEvent
  <2>1. /\ ~svcReset /\ svcReset' = svcReset /\ svcReceiverClosed' = svcReceiverClosed /\ svcEvents # <<>>
        /\ svcEvents' = Tail(svcEvents) /\ signals' = Append(signals, Head(svcEvents))
    BY <1>2 DEF ForwardEvent, Service!RecvEvent
  <2>2. Head(svcEvents) \in Item /\ Head(svcEvents) # EventsReset /\ Head(svcEvents) \in Signal
    <3>1. Head(svcEvents) \in Item
      BY <1>1, <2>1
    <3> QED BY <3>1 DEF Item, EventsReset, Signal
  <2>3. svcEvents' \in Seq(Item) /\ signals' \in Seq(Signal)
    BY <1>1, <2>1, <2>2
  <2>4. Linked(subEvents, view) => Linked(subEvents, view)'
    <3>1. svcReset = FALSE
      BY <2>1 DEF DeliveryInv
    <3> QED BY <1>0, <1>1, <2>1, <2>2, <3>1, LineForwarded DEF Linked
  <2> QED BY <1>0, <2>1, <2>3, <2>4 DEF DeliveryInv, Following, Live
<1>3. CASE ForwardReset
  <2>1. /\ svcReset' = FALSE /\ UNCHANGED <<svcReceiverClosed, svcEvents>> /\ signals' = Append(signals, EventsReset)
    BY <1>3 DEF ForwardReset, Service!RecvReset
  <2>2. signals' \in Seq(Signal)
    BY <1>1, <2>1 DEF Signal
  <2>3. Linked(subEvents, view) => Linked(subEvents, view)'
    BY <1>0, <1>1, <2>1, LineReset DEF Linked
  <2> QED BY <1>0, <2>1, <2>2, <2>3 DEF DeliveryInv, Following, Live
<1>4. CASE ForwardIdle
  <2>1. UNCHANGED <<svcEvents, svcReset, svcReceiverClosed, signals>>
    BY <1>4 DEF ForwardIdle, Service!RecvNothing, Service!Await, Service!buffer, linkVars
  <2> QED BY <1>0, <2>1 DEF DeliveryInv, Following, Live, Linked
<1> QED BY <1>2, <1>3, <1>4 DEF Forward

\* The task takes a signal: it queues the event, or leaves its loop.
LEMMA SignalKeeps == DeliveryInv /\ StreamInv /\ TaskSignal => DeliveryInv'
<1> SUFFICES ASSUME DeliveryInv, StreamInv, TaskSignal PROVE DeliveryInv'
  OBVIOUS
<1>0. /\ UNCHANGED <<svcEvents, svcReset, svcReceiverClosed, view, reported, latest, published>>
      /\ task = "running" /\ signals # <<>> /\ signals' = Tail(signals) /\ ~subReset
  BY DEF TaskSignal, StreamInv, svcVars, consumerVars, snapshotVars
<1>1. /\ svcEvents \in Seq(Item) /\ svcEvents \in Seq(Signal)
      /\ subEvents \in Seq(Item) /\ subEvents \in Seq(Signal) /\ signals \in Seq(Signal)
  BY SeqMonotonic DEF DeliveryInv, Signal
<1>2. signals' \in Seq(Signal) /\ Head(signals) \in Signal
  BY <1>0, <1>1
<1>3. CASE Head(signals) = EventsReset
  <2>1. task' = "set" /\ UNCHANGED <<subEvents, subReset, subReceiverClosed>>
    BY <1>3 DEF TaskSignal, LeaveTask, subVars
  <2> QED BY <1>0, <1>2, <2>1 DEF DeliveryInv, Following, Live
<1>4. CASE Head(signals) # EventsReset
  <2>1. Head(signals) \in Item
    BY <1>2, <1>4 DEF Signal
  <2> DEFINE q == Append(KeptIn(subEvents, Head(signals)), Head(signals))
  <2>2. \/ ~subReceiverClosed /\ subEvents' = q /\ UNCHANGED <<subReset, subReceiverClosed, task>>
        \/ subEvents' = <<>> /\ subReset' = TRUE /\ UNCHANGED subReceiverClosed
        \/ subReceiverClosed /\ UNCHANGED <<subEvents, subReset, subReceiverClosed>>
    <3>1. Client!Send(Head(signals))
      BY <1>4 DEF TaskSignal
    <3>2. \/ ~subReceiverClosed /\ subEvents' = q /\ UNCHANGED <<subReset, subReceiverClosed>>
          \/ subEvents' = <<>> /\ subReset' = TRUE /\ UNCHANGED subReceiverClosed
          \/ subReceiverClosed /\ UNCHANGED <<subEvents, subReset, subReceiverClosed>>
      <4> DEFINE e == Head(signals)
      <4> HIDE DEF e
      <4>0. q = Append(KeptIn(subEvents, e), e) /\ Client!Send(e)
        BY <3>1 DEF e
      <4>1. Client!Kept(e) = KeptIn(subEvents, e)
        BY DEF Client!Kept, Client!Superseded, KeptIn, SupersededIn, Client!Max, Max, Client!RemoveAt, RemoveAt
      <4> HIDE DEF q
      <4>2. CASE Client!SendQueued(e)
        BY <4>0, <4>1, <4>2 DEF Client!SendQueued
      <4>3. CASE Client!SendReset(e)
        BY <4>3 DEF Client!SendReset
      <4>4. CASE Client!SendDropped
        BY <1>0, <4>4 DEF Client!SendDropped, Client!queueVars, Client!buffer
      <4> QED BY <4>0, <4>2, <4>3, <4>4 DEF Client!Send
    <3>3. ~subReceiverClosed /\ ~subReset' => UNCHANGED task
      BY <1>4 DEF TaskSignal, taskVars
    <3> QED BY <1>0, <3>2, <3>3
  <2>3. q \in Seq(Item)
    <3>1. KeptIn(subEvents, Head(signals)) \in Seq(Item)
      BY <1>1, <2>1, KeptLacks
    <3> QED BY <2>1, <3>1
  <2> DEFINE Passed == Line(q, signals', svcEvents', view', published', latest', svcReset')
  <2>4. Linked(subEvents, view) => Passed
    <3>1. Linked(subEvents, view) => Line(q, Tail(signals), svcEvents, view, published, latest, svcReset)
      BY <1>0, <1>1, <2>1, LineTaken DEF Linked
    <3> HIDE DEF q
    <3> QED BY <1>0, <3>1
  <2>5. Passed => Whole(q, view', published')
    <3>1. Passed => Whole(q \o signals', view', published')
      <4> HIDE DEF q
      <4> QED BY DEF Line
    <3>2. q \in Seq(Signal)
      <4> HIDE DEF q
      <4> QED BY <2>3, SeqMonotonic DEF Signal
    <3> HIDE DEF q
    <3> QED BY <1>2, <3>1, <3>2, WholeAhead
  <2> HIDE DEF q
  <2>6. CASE ~subReceiverClosed /\ subEvents' = q /\ UNCHANGED <<subReset, subReceiverClosed, task>>
    <3>1. Following' => Linked(subEvents, view)
      BY <1>0, <2>6 DEF DeliveryInv, Following, Live
    <3>2. Following' => Linked(subEvents, view)' /\ Whole(subEvents', view', published')
      <4>1. Passed => Linked(subEvents, view)'
        BY <2>6 DEF Linked
      <4> HIDE DEF Passed
      <4> QED BY <2>4, <2>5, <2>6, <3>1, <4>1
    <3> HIDE DEF Passed
    <3> QED BY <1>0, <1>2, <2>3, <2>6, <3>2 DEF DeliveryInv
  <2>7. CASE subEvents' = <<>> /\ subReset' = TRUE /\ UNCHANGED subReceiverClosed
    <3>1. subEvents' \in Seq(Item)
      BY <2>7
    <3> QED BY <1>0, <1>2, <2>7, <3>1 DEF DeliveryInv, Following
  <2>8. CASE subReceiverClosed /\ UNCHANGED <<subEvents, subReset, subReceiverClosed>>
    BY <1>0, <1>2, <2>8 DEF DeliveryInv, Following
  <2> QED BY <2>2, <2>6, <2>7, <2>8
<1> QED BY <1>3, <1>4

\* The consumer sees an event.
LEMMA NextEventKeeps == DeliveryInv /\ NextEvent => DeliveryInv'
<1> SUFFICES ASSUME DeliveryInv, NextEvent PROVE DeliveryInv'
  OBVIOUS
<1> DEFINE h == Head(subEvents)
           taken == IF h.key = Lifecycle THEN view ELSE [view EXCEPT ![h.key] = h.id]
<1>0. /\ UNCHANGED <<svcEvents, svcReset, svcReceiverClosed, subReset, subReceiverClosed, task, reported, latest,
                     published, signals>>
      /\ ~subReceiverClosed /\ subEvents # <<>> /\ subEvents' = Tail(subEvents) /\ view' = taken
  BY DEF NextEvent, Client!RecvEvent, svcVars, linkVars, taskVars, snapshotVars
<1>1. /\ svcEvents \in Seq(Item) /\ svcEvents \in Seq(Signal) /\ view \in Knowledge
      /\ subEvents \in Seq(Item) /\ subEvents \in Seq(Signal) /\ signals \in Seq(Signal)
  BY SeqMonotonic DEF DeliveryInv, Signal
<1>2. subEvents' \in Seq(Item) /\ h \in Item /\ subEvents[1] = h
  BY <1>0, <1>1
<1>3. taken \in Knowledge /\ (Whole(subEvents, view, published) => Whole(Tail(subEvents), taken, published))
  <2>1. taken \in Knowledge
    BY <1>1, <1>2 DEF Item, Knowledge
  <2> HIDE DEF h
  <2>2. Whole(subEvents, view, published) => Whole(Tail(subEvents), taken, published)
    BY <1>0, <1>1, <1>2, WholeTaken
  <2> QED BY <2>1, <2>2
<1>4. Linked(subEvents, view) => Linked(Tail(subEvents), taken)
  BY <1>0, <1>1, LineSeen DEF Linked
<1> HIDE DEF taken, h
<1>5. Following' => Following
  BY <1>0 DEF Following, Live
<1> QED BY <1>0, <1>2, <1>3, <1>4, <1>5 DEF DeliveryInv, Linked

\* Every step keeps it.
LEMMA DeliveryStep == DeliveryInv /\ StreamInv /\ [DeliveryNext]_deliveryVars => DeliveryInv'
<1> SUFFICES ASSUME DeliveryInv, StreamInv, [DeliveryNext]_deliveryVars PROVE DeliveryInv'
  OBVIOUS
<1>1. ASSUME NEW key \in Keys \cup {Lifecycle}, Publish(key) PROVE DeliveryInv'
  BY <1>1, PublishKeeps
<1>2. CASE Forward
  BY <1>2, ForwardKeeps
<1>3. CASE TaskSignal
  BY <1>3, SignalKeeps
<1>4. CASE NextEvent
  BY <1>4, NextEventKeeps
<1>5. CASE \/ ServiceLost \/ TaskAbandoned \/ TaskOwnerLost \/ TaskSetError \/ TaskDrop \/ TaskAborted \/ NextIdle
           \/ UNCHANGED deliveryVars
  <2>1. /\ UNCHANGED <<svcEvents, svcReset, svcReceiverClosed, subEvents, subReset, subReceiverClosed, reported, latest,
                       published, signals, view>>
        /\ task' = "running" => task = "running"
    <3>1. CASE ServiceLost \/ TaskAbandoned \/ TaskOwnerLost \/ TaskSetError \/ UNCHANGED deliveryVars
      BY <3>1 DEF ServiceLost, TaskAbandoned, TaskOwnerLost, LeaveTask, TaskSetError, svcVars, subVars, linkVars,
         taskVars, consumerVars, snapshotVars, deliveryVars
    <3>2. CASE TaskDrop \/ TaskAborted
      BY <3>2 DEF TaskDrop, TaskAborted, Client!CloseProducer, svcVars, linkVars, consumerVars, snapshotVars
    <3>3. CASE NextIdle
      BY <3>3 DEF NextIdle, Client!RecvNothing, Client!Await, Client!buffer, svcVars, linkVars, taskVars,
         consumerVars, snapshotVars
    <3> QED BY <1>5, <3>1, <3>2, <3>3
  <2> QED BY <2>1 DEF DeliveryInv, Following, Live, Linked
<1>6. CASE TaskReset
  <2>1. /\ UNCHANGED <<svcEvents, svcReset, svcReceiverClosed, subReceiverClosed, latest, published, signals, view>>
        /\ \/ subReceiverClosed /\ UNCHANGED subEvents
           \/ subEvents' = <<>> /\ subReset' = TRUE
    BY <1>6 DEF TaskReset, Client!Reset, Client!queueVars, Client!buffer, svcVars, linkVars, consumerVars, snapshotVars
  <2>2. subEvents' \in Seq(Item)
    <3>1. <<>> \in Seq(Item) /\ subEvents \in Seq(Item)
      BY DEF DeliveryInv
    <3> QED BY <2>1, <3>1
  <2> QED BY <2>1, <2>2 DEF DeliveryInv, Following
<1>7. CASE NextReset \/ NextEnd
  <2>1. /\ UNCHANGED <<svcEvents, svcReset, svcReceiverClosed, subEvents, subReceiverClosed, latest, published, signals, view>>
        /\ reported' # "none"
    BY <1>7 DEF NextReset, NextEnd, End, Client!RecvReset, Client!RecvNothing, Client!buffer, svcVars, linkVars, taskVars,
       snapshotVars
  <2> QED BY <2>1 DEF DeliveryInv, Following, Live
<1>8. CASE Unsubscribe
  <2>1. /\ UNCHANGED <<svcEvents, svcReset, svcReceiverClosed, latest, published, signals, view>>
        /\ subEvents' = <<>> /\ subReceiverClosed' = TRUE
    BY <1>8 DEF Unsubscribe, Client!CloseReceiver, svcVars, linkVars, consumerVars, snapshotVars
  <2>2. subEvents' \in Seq(Item)
    BY <2>1
  <2> QED BY <2>1, <2>2 DEF DeliveryInv, Following
<1> QED BY <1>1, <1>2, <1>3, <1>4, <1>5, <1>6, <1>7, <1>8 DEF DeliveryNext, Task, Consume

\* What the consumer will know after the first n events is what they tell it.
LEMMA ToldReplays ==
  ASSUME NEW n \in Nat, NEW l \in Knowledge, Tells(subEvents, view, n, l)
  PROVE  Replay(n) = l
<1>1. ASSUME NEW k \in Keys PROVE Replay(n)[k] = l[k]
  <2> DEFINE updates == {i \in 1..n : subEvents[i].key = k}
             m == Max(updates)
  <2>1. Replay(n)[k] = IF updates = {} THEN view[k] ELSE subEvents[m].id
    BY DEF Replay
  <2>2. Says(subEvents, view, n, k, l[k])
    BY DEF Tells
  <2>3. CASE updates = {}
    <3>1. Says(subEvents, view, n, k, Replay(n)[k])
      BY <2>1, <2>3 DEF Says
    <3> QED BY <2>2, <3>1, SaysOne
  <2>4. CASE updates # {}
    <3>1. updates \in SUBSET (1..n)
      OBVIOUS
    <3>2. m \in updates /\ \A j \in updates : m >= j
      <4> HIDE DEF updates
      <4> QED BY <2>4, <3>1, MaxPosition
    <3> HIDE DEF m
    <3>3. m \in 1..n /\ subEvents[m].key = k /\ \A j \in 1..n : j > m => subEvents[j].key # k
      BY <3>2
    <3>4. Says(subEvents, view, n, k, Replay(n)[k])
      BY <2>1, <2>4, <3>3 DEF Says
    <3> QED BY <2>2, <3>4, SaysOne
  <2> QED BY <2>3, <2>4
<1>2. Replay(n) = [k \in Keys |-> Replay(n)[k]]
  BY DEF Replay
<1>3. l = [k \in Keys |-> l[k]]
  BY DEF Knowledge
<1> QED BY <1>1, <1>2, <1>3

\* So each lifecycle event is exact.
LEMMA DeliverySound == DeliveryInv => DeliveryExact
<1> SUFFICES ASSUME DeliveryInv, Live, ~subReset, NEW i \in DOMAIN subEvents, subEvents[i].key = Lifecycle
             PROVE  Replay(i - 1) = published[subEvents[i].id]
  BY DEF DeliveryExact
<1>1. subEvents \in Seq(Item) /\ published \in Seq(Knowledge) /\ i \in 1..Len(subEvents) /\ i - 1 \in Nat
  BY DEF DeliveryInv
<1>2. subEvents # <<>>
  BY <1>1
<1>3. Whole(subEvents, view, published)
  BY <1>2 DEF DeliveryInv, Following
<1>4. Quiet(subEvents, i)
  <2> SUFFICES ASSUME NEW j \in 1..i PROVE subEvents[j] # EventsReset
    BY DEF Quiet
  <2>1. j \in 1..Len(subEvents)
    BY <1>1
  <2>2. subEvents[j] \in Item
    BY <1>1, <2>1
  <2> QED BY <2>2 DEF Item, EventsReset
<1>5. subEvents[i].id \in 1..(Len(published) - 1) /\ Tells(subEvents, view, i - 1, published[subEvents[i].id])
  BY <1>1, <1>3, <1>4 DEF Whole
<1>6. published[subEvents[i].id] \in Knowledge
  BY <1>1, <1>5
<1> QED BY <1>1, <1>5, <1>6, ToldReplays

------------------------------------------------------------------------------
(* Frame callbacks.                                                        *)

\* A nonempty set of times up to a limit has a least one.
LEMMA MinTime ==
  ASSUME NEW n \in Nat, NEW T \in SUBSET (0..n), T # {}
  PROVE  Min(T) \in T /\ \A y \in T : Min(T) <= y
<1> DEFINE Below(x) == 1..x
           TT == {Below(x) : x \in T}
<1>1. IsWellFoundedOn(StrictSubsetOrdering(1..n), FiniteSubsetsOf(1..n))
  BY FS_StrictSubsetOrderingWellFounded
<1>2. IsFiniteSet(1..n)
  BY FS_Interval
<1>3. TT \subseteq FiniteSubsetsOf(1..n)
  <2> SUFFICES ASSUME NEW x \in T PROVE Below(x) \in FiniteSubsetsOf(1..n)
    OBVIOUS
  <2>1. Below(x) \in SUBSET (1..n)
    OBVIOUS
  <2> QED BY <2>1, <1>2, FS_Subset DEF FiniteSubsetsOf
<1>4. TT # {}
  OBVIOUS
<1> HIDE DEF TT
<1>5. PICK A \in TT : \A B \in TT : ~ (<<B, A>> \in StrictSubsetOrdering(1..n))
  BY <1>1, <1>3, <1>4, WFMin, Zenon
<1>6. PICK x \in T : A = Below(x)
  BY <1>5 DEF TT
<1>7. \A y \in T : x <= y
  <2> SUFFICES ASSUME NEW y \in T, ~ (x <= y) PROVE FALSE
    OBVIOUS
  <2>1. Below(y) \in TT
    BY DEF TT
  <2>2. Below(y) \subseteq Below(x) /\ x \in Below(x) /\ x \notin Below(y)
    OBVIOUS
  <2>3. Below(y) \in SUBSET (1..n) /\ Below(x) \in SUBSET (1..n)
    OBVIOUS
  <2>4. <<Below(y), A>> \in StrictSubsetOrdering(1..n)
    BY <1>6, <2>2, <2>3 DEF StrictSubsetOrdering
  <2> QED BY <1>5, <2>1, <2>4
<1> QED BY <1>7 DEF Min

\* One time or none.
Times == {{}} \cup {{t} : t \in 0..Interval}

\* The timer is early enough for a set of surfaces.
Early(timer, times, ss) == \A s \in ss : times[s] # {} /\ \E t \in timer : \A d \in times[s] : t <= d

\* The strengthening of TimerCovers and HiddenThrottled: what is left of the
\* deadline of a surface and the time since it was told make up an interval.
ThrottleInv ==
  /\ hiddenTimer \in Times
  /\ deadline \in [Views -> Times]
  /\ since \in [Views -> 0..Interval]
  /\ \A s \in Views : \A t \in deadline[s] : since[s] + t >= Interval
  /\ passed \in BOOLEAN
  /\ asked \subseteq Views
  /\ passed => Early(hiddenTimer, deadline, HiddenViews(asked, shownOn, plugged))

LEMMA ArmedInTime ==
  ASSUME NEW times \in [Views -> Times], NEW hidden \in SUBSET Views,
         NEW timer \in Times
  PROVE  /\ Known(times, hidden) \in [Views -> Times]
         /\ \A s \in hidden : Known(times, hidden)[s] # {}
         /\ \A s \in Views : Known(times, hidden)[s] \in {times[s], {Interval}}
         /\ (\A s \in hidden : times[s] # {}) =>
              /\ Earliest(times, hidden) \in Times
              /\ Early(Earliest(times, hidden), times, hidden)
              /\ Armed(timer, Earliest(times, hidden)) \in Times
              /\ Early(Armed(timer, Earliest(times, hidden)), times, hidden)
<1>1. {Interval} \in Times
  BY IntervalAssumption DEF Times
<1>2. /\ Known(times, hidden) \in [Views -> Times]
      /\ \A s \in hidden : Known(times, hidden)[s] # {}
      /\ \A s \in Views : Known(times, hidden)[s] \in {times[s], {Interval}}
  BY <1>1 DEF Known
<1>3. ASSUME \A s \in hidden : times[s] # {}
      PROVE  /\ Earliest(times, hidden) \in Times
             /\ Early(Earliest(times, hidden), times, hidden)
             /\ Armed(timer, Earliest(times, hidden)) \in Times
             /\ Early(Armed(timer, Earliest(times, hidden)), times, hidden)
  <2>1. CASE hidden = {}
    BY <2>1 DEF Earliest, Early, Armed, Times
  <2>2. CASE hidden # {}
    <3> DEFINE all == UNION {times[s] : s \in hidden}
    <3>1. all \in SUBSET (0..Interval) /\ all # {}
      BY <1>3, <2>2 DEF Times
    <3>2. Min(all) \in all /\ \A d \in all : Min(all) <= d
      BY <3>1, MinTime, IntervalAssumption
    <3>3. Earliest(times, hidden) = {Min(all)}
      BY <2>2 DEF Earliest
    <3>4. Min(all) \in 0..Interval /\ \A s \in hidden : \A d \in times[s] : d \in Nat /\ Min(all) <= d
      BY <3>1, <3>2
    <3> DEFINE least == Min(all)
    <3> HIDE DEF all, least
    <3>5. Earliest(times, hidden) = {least} /\ least \in 0..Interval
          /\ \A s \in hidden : \A d \in times[s] : d \in Nat /\ least <= d
      BY <3>3, <3>4 DEF least
    <3>6. Early({least}, times, hidden) /\ {least} \in Times
      BY <1>3, <3>5 DEF Early, Times
    <3>7. CASE \E t \in timer : t <= least
      <4>1. PICK t \in timer : t <= least
        BY <3>7
      <4>2. t \in Nat
        BY DEF Times
      <4>3. Early(timer, times, hidden)
        BY <1>3, <3>5, <4>1, <4>2 DEF Early
      <4>4. Armed(timer, {least}) = timer
        BY <4>1 DEF Armed
      <4> QED BY <3>5, <3>6, <4>3, <4>4
    <3>8. CASE ~ \E t \in timer : t <= least
      <4>1. Armed(timer, {least}) = {least}
        BY <3>8 DEF Armed
      <4> QED BY <3>5, <3>6, <4>1
    <3> QED BY <3>7, <3>8
  <2> QED BY <2>1, <2>2
<1> QED BY <1>2, <1>3

LEMMA ThrottleInitial == FrameCallbacksInit => ThrottleInv
BY IntervalAssumption DEF FrameCallbacksInit, ThrottleInv, Times, Early, HiddenViews

\* A step that may tell a surface early.
ThrottledStep ==
  \A s \in HiddenViews(asked, shownOn, plugged) \ asked' :
    since[s] = Interval \/ shownOn'[s] # {}

\* Scheduling after surfaces were told.
LEMMA Scheduled ==
  ASSUME ThrottleInv, NEW asking \in SUBSET Views, NEW shown, NEW told \in SUBSET Views,
         Schedule(asking, shown, Pushed(deadline, told)),
         since' = [s \in Views |-> IF s \in told THEN 0 ELSE since[s]],
         asked' = asking, shownOn' = shown, UNCHANGED plugged, passed' \in BOOLEAN
  PROVE  ThrottleInv'
<1> DEFINE times == Pushed(deadline, told)
           hidden == HiddenViews(asking, shown, plugged)
<1>1. times \in [Views -> Times] /\ \A s \in Views : times[s] = IF s \in told THEN {Interval} ELSE deadline[s]
  BY IntervalAssumption DEF Pushed, ThrottleInv, Times
<1>2. hidden \in SUBSET Views
  BY DEF HiddenViews
<1>3. deadline' = Known(times, hidden) /\ hiddenTimer' = Armed(hiddenTimer, Earliest(deadline', hidden))
  BY DEF Schedule
<1>0. hiddenTimer \in Times
  BY DEF ThrottleInv
<1> HIDE DEF times, hidden
<1>4. /\ deadline' \in [Views -> Times]
      /\ \A s \in hidden : deadline'[s] # {}
      /\ \A s \in Views : deadline'[s] \in {times[s], {Interval}}
  BY <1>0, <1>1, <1>2, <1>3, ArmedInTime
<1>5. hiddenTimer' \in Times /\ Early(hiddenTimer', deadline', hidden)
  <2>1. Known(times, hidden) = deadline' /\ hidden = HiddenViews(asking, shown, plugged)
    BY <1>3 DEF hidden
  <2> QED BY <1>0, <1>2, <1>3, <1>4, <2>1, ArmedInTime
<1>6. since' \in [Views -> 0..Interval]
  BY IntervalAssumption DEF ThrottleInv
<1>7. ASSUME NEW s \in Views, NEW t \in deadline'[s]
      PROVE  since'[s] + t >= Interval
  <2>1. since'[s] \in Nat
    BY <1>6
  <2>2. CASE t = Interval
    BY <2>1, <2>2, IntervalAssumption
  <2>3. CASE t # Interval
    <3>1. s \notin told /\ t \in deadline[s]
      BY <1>1, <1>4, <2>3
    <3> QED BY <3>1 DEF ThrottleInv
  <2> QED BY <2>2, <2>3
<1> QED BY <1>4, <1>5, <1>6, <1>7 DEF ThrottleInv, hidden

LEMMA ThrottleStep ==
  ASSUME ThrottleInv, FrameCallbacksNext \/ UNCHANGED frameVars
  PROVE  ThrottleInv' /\ (ThrottledStep \/ UNCHANGED frameVars)
<1>1. ASSUME NEW s \in Views, AskFrame(s)
      PROVE  ThrottleInv' /\ ThrottledStep
  BY <1>1 DEF AskFrame, ThrottleInv, ThrottledStep, HiddenViews
<1>2. ASSUME NEW o \in Outputs, Render(o)
      PROVE  ThrottleInv' /\ ThrottledStep
  <2>1. PICK visible \in SUBSET Views :
       LET shown == [s \in Views |-> IF s \in visible THEN {o} ELSE shownOn[s] \ {o}]
           told == {s \in asked : shown[s] = {o}}
       IN  /\ shownOn' = shown
           /\ Tell(told)
           /\ Schedule(asked \ told, shown, Pushed(deadline, told))
    BY <1>2 DEF Render
  <2> DEFINE shown == [s \in Views |-> IF s \in visible THEN {o} ELSE shownOn[s] \ {o}]
             told == {s \in asked : shown[s] = {o}}
  <2>2. /\ shownOn' = shown /\ asked' = asked \ told
        /\ since' = [s \in Views |-> IF s \in told THEN 0 ELSE since[s]]
        /\ Schedule(asked \ told, shown, Pushed(deadline, told))
    BY <2>1 DEF Tell
  <2>3. told \in SUBSET Views /\ asked \ told \in SUBSET Views
    BY DEF ThrottleInv
  <2>4. ASSUME NEW s \in asked \ asked'
        PROVE  shownOn'[s] # {}
    BY <2>2, <2>4
  <2>5. UNCHANGED <<plugged, passed>>
    BY <1>2 DEF Render
  <2> HIDE DEF told, shown
  <2>6. ThrottleInv'
    <3>1. passed' \in BOOLEAN
      BY <2>5 DEF ThrottleInv
    <3> QED BY <2>2, <2>3, <2>5, <3>1, Scheduled
  <2>7. ThrottledStep
    BY <2>4 DEF ThrottledStep, HiddenViews
  <2> QED BY <2>6, <2>7
<1>3. ASSUME NEW o \in Outputs, Plug(o)
      PROVE  ThrottleInv' /\ ThrottledStep
  BY <1>3 DEF Plug, ThrottleInv, ThrottledStep, HiddenViews
<1>4. CASE Rearrange
  BY <1>4 DEF Rearrange, ThrottleInv, ThrottledStep, HiddenViews
<1>5. CASE HiddenTimer
  <2> DEFINE hidden == HiddenViews(asked, shownOn, plugged)
             known == Known(deadline, hidden)
             due == {s \in hidden : known[s] = {0}}
  <2>1. /\ asked' = asked \ due /\ since' = [s \in Views |-> IF s \in due THEN 0 ELSE since[s]]
        /\ deadline' = Pushed(known, due) /\ hiddenTimer' = Earliest(known, hidden \ due)
        /\ UNCHANGED <<shownOn, plugged, redraw, passed>>
    BY <1>5 DEF HiddenTimer, Tell
  <2>2. hidden \in SUBSET Views /\ hidden \ due \in SUBSET Views /\ due \subseteq hidden
    BY DEF HiddenViews, ThrottleInv
  <2>3. /\ known \in [Views -> Times] /\ \A s \in hidden : known[s] # {}
        /\ \A s \in Views : known[s] \in {deadline[s], {Interval}}
    BY <2>2, ArmedInTime DEF ThrottleInv
  <2> DEFINE rest == hidden \ due
  <2>4. rest \in SUBSET Views /\ HiddenViews(asked', shownOn', plugged') = rest
    BY <2>1, <2>2 DEF HiddenViews
  <2>5. \A s \in due : known[s] = {0} /\ deadline[s] = {0}
    BY <2>2, <2>3, IntervalAssumption
  <2> HIDE DEF hidden, known, due
  <2>6. Earliest(known, rest) \in Times /\ Early(Earliest(known, rest), known, rest)
    BY <2>3, <2>4, ArmedInTime DEF ThrottleInv
  <2>7. /\ deadline' \in [Views -> Times]
        /\ \A s \in Views : deadline'[s] = IF s \in due THEN {Interval} ELSE known[s]
    BY <2>1, <2>3, IntervalAssumption DEF Pushed, Times
  <2>8. Early(hiddenTimer', deadline', rest)
    BY <2>1, <2>4, <2>6, <2>7 DEF Early
  <2>9. since' \in [Views -> 0..Interval]
    BY <2>1, IntervalAssumption DEF ThrottleInv
  <2>10. ASSUME NEW s \in Views, NEW t \in deadline'[s]
         PROVE  since'[s] + t >= Interval
    <3>1. since'[s] \in Nat
      BY <2>9
    <3>2. CASE t = Interval
      BY <3>1, <3>2, IntervalAssumption
    <3>3. CASE t # Interval
      <4>1. s \notin due /\ t \in deadline[s]
        BY <2>3, <2>7, <3>3
      <4> QED BY <2>1, <4>1 DEF ThrottleInv
    <3> QED BY <3>2, <3>3
  <2>11. ThrottleInv'
    BY <2>1, <2>4, <2>6, <2>7, <2>8, <2>9, <2>10 DEF ThrottleInv
  <2>12. ThrottledStep
    <3> SUFFICES ASSUME NEW s \in HiddenViews(asked, shownOn, plugged) \ asked'
                 PROVE  since[s] = Interval
      BY DEF ThrottledStep
    <3>1. s \in due /\ s \in Views
      BY <2>1, <2>2 DEF hidden, HiddenViews
    <3>2. since[s] + 0 >= Interval /\ since[s] \in 0..Interval
      BY <2>5, <3>1 DEF ThrottleInv
    <3> QED BY <3>2, IntervalAssumption
  <2> QED BY <2>11, <2>12
<1>6. CASE RefreshFrames
  <2>1. Pushed(deadline, {}) = deadline
    BY DEF Pushed, ThrottleInv
  <2>2. since' = [s \in Views |-> IF s \in {} THEN 0 ELSE since[s]]
    BY <1>6 DEF RefreshFrames, ThrottleInv
  <2>3. ThrottleInv'
    <3>1. asked \in SUBSET Views /\ {} \in SUBSET Views
      BY DEF ThrottleInv
    <3>2. /\ Schedule(asked, shownOn, Pushed(deadline, {}))
          /\ asked' = asked /\ shownOn' = shownOn /\ UNCHANGED plugged /\ passed' \in BOOLEAN
      BY <1>6, <2>1 DEF RefreshFrames
    <3> QED BY <2>2, <3>1, <3>2, Scheduled
  <2> QED BY <1>6, <2>3 DEF RefreshFrames, ThrottledStep, HiddenViews
<1>7. CASE Pass
  <2>1. /\ deadline' = [s \in Views |-> {Ticked(t) : t \in deadline[s]}]
        /\ hiddenTimer' = {Ticked(t) : t \in hiddenTimer}
        /\ since' = [s \in Views |-> Min({since[s] + 1, Interval})]
        /\ UNCHANGED <<asked, shownOn, plugged, redraw, passed>>
    BY <1>7 DEF Pass
  <2>2. ASSUME NEW s \in Views
        PROVE  since'[s] = IF since[s] + 1 <= Interval THEN since[s] + 1 ELSE Interval
    <3> DEFINE pair == {since[s] + 1, Interval}
    <3>1. since[s] \in 0..Interval /\ pair \in SUBSET (0..(Interval + 1)) /\ pair # {} /\ Interval + 1 \in Nat
      BY IntervalAssumption DEF ThrottleInv
    <3>2. Min(pair) \in pair /\ \A y \in pair : Min(pair) <= y
      BY <3>1, MinTime
    <3>3. since'[s] = Min(pair)
      BY <2>1
    <3> DEFINE least == Min(pair)
    <3> HIDE DEF least
    <3>4. least \in pair /\ \A y \in pair : least <= y
      BY <3>2 DEF least
    <3>5. least = IF since[s] + 1 <= Interval THEN since[s] + 1 ELSE Interval
      BY <3>1, <3>4, IntervalAssumption
    <3> QED BY <3>3, <3>5 DEF least
  <2>3. \A t \in 0..Interval : Ticked(t) \in 0..Interval /\ Ticked(t) + 1 >= t
    BY IntervalAssumption DEF Ticked
  <2>4. \A t, d \in 0..Interval : t <= d => Ticked(t) <= Ticked(d)
    BY IntervalAssumption DEF Ticked
  <2>5. \A ts \in Times : {Ticked(t) : t \in ts} \in Times
    BY <2>3 DEF Times
  <2>6. deadline' \in [Views -> Times] /\ hiddenTimer' \in Times
    BY <2>1, <2>5 DEF ThrottleInv
  <2>7. DOMAIN since' = Views /\ since' \in [Views -> 0..Interval]
    BY <2>1, <2>2, IntervalAssumption DEF ThrottleInv
  <2>8. ASSUME NEW s \in Views, NEW t \in deadline'[s]
        PROVE  since'[s] + t >= Interval
    <3>1. PICK d \in deadline[s] : t = Ticked(d)
      BY <2>1, <2>8
    <3>2. d \in 0..Interval /\ since[s] \in 0..Interval /\ since[s] + d >= Interval
      BY DEF ThrottleInv, Times
    <3>3. t \in 0..Interval /\ t + 1 >= d
      BY <2>3, <3>1, <3>2
    <3> QED BY <2>2, <3>2, <3>3, IntervalAssumption
  <2>9. ASSUME passed
        PROVE  Early(hiddenTimer', deadline', HiddenViews(asked, shownOn, plugged))
    <3> SUFFICES ASSUME NEW s \in HiddenViews(asked, shownOn, plugged)
                 PROVE  deadline'[s] # {} /\ \E t \in hiddenTimer' : \A d \in deadline'[s] : t <= d
      BY DEF Early
    <3>1. s \in Views
      BY DEF HiddenViews, ThrottleInv
    <3>2. PICK t \in hiddenTimer : \A d \in deadline[s] : t <= d
      BY <2>9 DEF ThrottleInv, Early
    <3>3. deadline[s] # {} /\ deadline[s] \subseteq 0..Interval /\ t \in 0..Interval
      BY <2>9, <3>1 DEF ThrottleInv, Early, Times
    <3>4. Ticked(t) \in hiddenTimer' /\ \A d \in deadline'[s] : Ticked(t) <= d
      BY <2>1, <2>4, <3>1, <3>2, <3>3
    <3> QED BY <2>1, <3>1, <3>3, <3>4
  <2>10. ThrottleInv'
    BY <2>1, <2>6, <2>7, <2>8, <2>9 DEF ThrottleInv, HiddenViews
  <2> QED BY <2>1, <2>10 DEF ThrottledStep, HiddenViews
<1>8. CASE UNCHANGED frameVars
  BY <1>8 DEF frameVars, ThrottleInv, HiddenViews
<1> QED BY <1>1, <1>2, <1>3, <1>4, <1>5, <1>6, <1>7, <1>8 DEF FrameCallbacksNext

\* The one timer is early enough for the first of the hidden surfaces, and a
\* surface that nobody sees is told at most once in an interval
\* (render/frame_callbacks.rs), for any surfaces, outputs and interval.
THEOREM HiddenAreThrottled == FrameCallbacksSpec => []TimerCovers /\ HiddenThrottled
<1>1. ThrottleInv => TimerCovers
  BY DEF ThrottleInv, TimerCovers, Early
<1>2. ThrottleInv /\ [FrameCallbacksNext]_frameVars => ThrottleInv' /\ [ThrottledStep]_frameVars
  BY ThrottleStep
<1> QED BY <1>1, <1>2, ThrottleInitial, PTL DEF FrameCallbacksSpec, HiddenThrottled, ThrottledStep

------------------------------------------------------------------------------
(* Screenshots.                                                            *)

Encoders == {"none", "idle", "busy", "panics", "gone"}
Shot == [made : BOOLEAN, screen : Screens \cup {CHOOSE o \in Screens : TRUE}, size : Nat, held : Nat,
         reply : {NoReply, "written", "failed"}]
Budget == [requests : Nat, bytes : Nat]

\* The budget b is what the requests of f hold.
Books(b, f) ==
  /\ b.requests = Cardinality({r \in Shots : f[r].held > 0})
  /\ b.bytes = SumFunction([r \in Shots |-> f[r].held])

\* Every request in flight is in one place of one queue.
QueuesApart ==
  /\ waiting \in Seq(Shots) /\ jobs \in Seq(Shots) /\ lost \in Seq(Shots)
  /\ IsInjective(waiting) /\ IsInjective(jobs) /\ IsInjective(lost)
  /\ Range(waiting) \cap Range(jobs) = {}
  /\ Range(waiting) \cap Range(lost) = {}
  /\ Range(jobs) \cap Range(lost) = {}

\* A request in a queue holds its reservation and has no reply, but for the one
\* that the thread or the unwinding is about to finish.
InFlight ==
  /\ \A r \in Shots : ~shots[r].made => shots[r].held = 0 /\ shots[r].reply = NoReply
  /\ \A r \in Range(waiting) : shots[r].made /\ Holding(r) /\ shots[r].reply = NoReply
  /\ \A r \in Range(lost) : shots[r].made /\ Holding(r) /\ shots[r].reply # "written"
  /\ \A r \in Range(jobs) :
       /\ shots[r].made /\ shots[r].reply # "written"
       /\ Holding(r) \/ (encoder = "busy" /\ r = Head(jobs))
       /\ shots[r].reply = NoReply \/ (encoder = "panics" /\ r = Head(jobs))

\* The strengthening of BudgetExact and ReplyMeansRoom.
ShotsInv ==
  /\ shots \in [Shots -> Shot] /\ modes \in [Screens -> ScreenModes] /\ spent \in Budget
  /\ encoder \in Encoders
  /\ encoder \in {"none", "gone"} => jobs = <<>>
  /\ encoder \in {"busy", "panics"} => jobs # <<>>
  /\ QueuesApart /\ InFlight /\ ReplyMeansRoom
  /\ Books(spent, shots)
  /\ spent.requests <= MaxRequests /\ spent.bytes <= MaxCaptureBytes
  /\ Queued <= MaxRequests

LEMMA HoldersFinite ==
  ASSUME NEW f
  PROVE  /\ IsFiniteSet({r \in Shots : f[r].held > 0})
         /\ Cardinality({r \in Shots : f[r].held > 0}) \in Nat
<1>1. {r \in Shots : f[r].held > 0} \in SUBSET Shots
  OBVIOUS
<1> QED BY <1>1, FS_Subset, FS_CardinalityType, ShotsAssumption

\* The books balance when a request takes what it did not hold.
LEMMA TakenBalances ==
  ASSUME NEW f \in [Shots -> Shot], NEW g \in [Shots -> Shot], NEW r \in Shots, NEW b \in Budget,
         f[r].held = 0, g[r].held > 0, \A x \in Shots : x # r => g[x].held = f[x].held, Books(b, f)
  PROVE  Books([requests |-> b.requests + 1, bytes |-> b.bytes + g[r].held], g)
<1> DEFINE F == {x \in Shots : f[x].held > 0}
           G == {x \in Shots : g[x].held > 0}
           hf == [x \in Shots |-> f[x].held]
           hg == [x \in Shots |-> g[x].held]
<1>1. G = F \cup {r} /\ r \notin F
  OBVIOUS
<1>2. IsFiniteSet(F) /\ Cardinality(F) \in Nat
  BY HoldersFinite
<1>3. Cardinality(G) = Cardinality(F) + 1
  <2> HIDE DEF F, G
  <2> QED BY <1>1, <1>2, FS_AddElement
<1>4. hf \in [Shots -> Nat] /\ hg \in [Shots -> Nat] /\ hf[r] = 0 /\ hg[r] = g[r].held
      /\ \A x \in Shots : x # r => hg[x] = hf[x]
  BY DEF Shot
<1>5. b.requests = Cardinality(F) /\ b.bytes = SumFunction(hf)
  BY DEF Books
<1> HIDE DEF F, G, hf, hg
<1>6. SumFunction(hf) \in Nat /\ SumFunction(hg) \in Nat /\ SumFunction(hg) + hf[r] = SumFunction(hf) + hg[r]
  BY <1>4, SumChanged, ShotsAssumption
<1>7. SumFunction(hg) = SumFunction(hf) + g[r].held
  BY <1>4, <1>6
<1> QED BY <1>3, <1>5, <1>7 DEF Books, F, G, hf, hg

\* And when it gives back what it held.
LEMMA ReleasedBalances ==
  ASSUME NEW f \in [Shots -> Shot], NEW g \in [Shots -> Shot], NEW r \in Shots, NEW b \in Budget,
         f[r].held > 0, g[r].held = 0, \A x \in Shots : x # r => g[x].held = f[x].held, Books(b, f)
  PROVE  /\ Released(b, f[r].held) \in Budget
         /\ Books(Released(b, f[r].held), g)
         /\ Released(b, f[r].held).requests <= b.requests
         /\ Released(b, f[r].held).bytes <= b.bytes
<1> DEFINE F == {x \in Shots : f[x].held > 0}
           G == {x \in Shots : g[x].held > 0}
           hf == [x \in Shots |-> f[x].held]
           hg == [x \in Shots |-> g[x].held]
<1>1. G = F \ {r} /\ r \in F
  OBVIOUS
<1>2. IsFiniteSet(F) /\ Cardinality(F) \in Nat
  BY HoldersFinite
<1>3. Cardinality(G) = Cardinality(F) - 1 /\ Cardinality(G) \in Nat
  <2>1. Cardinality(G) \in Nat
    BY HoldersFinite
  <2> HIDE DEF F, G
  <2> QED BY <1>1, <1>2, <2>1, FS_RemoveElement
<1>4. hf \in [Shots -> Nat] /\ hg \in [Shots -> Nat] /\ hf[r] = f[r].held /\ hg[r] = 0
      /\ \A x \in Shots : x # r => hg[x] = hf[x]
  BY DEF Shot
<1>5. b.requests = Cardinality(F) /\ b.bytes = SumFunction(hf)
  BY DEF Books
<1> HIDE DEF F, G, hf, hg
<1>6. SumFunction(hf) \in Nat /\ SumFunction(hg) \in Nat /\ SumFunction(hg) + hf[r] = SumFunction(hf) + hg[r]
  BY <1>4, SumChanged, ShotsAssumption
<1>7. hf[r] \in Nat /\ SumFunction(hg) = SumFunction(hf) - f[r].held
  BY <1>4, <1>6
<1>8. /\ Released(b, f[r].held).requests = Cardinality(G)
      /\ Released(b, f[r].held).bytes = SumFunction(hg)
      /\ Released(b, f[r].held) \in Budget
  BY <1>2, <1>3, <1>5, <1>6, <1>7 DEF Released, Budget
<1>9. Books(Released(b, f[r].held), g)
  BY <1>8 DEF Books, G, hg
<1> QED BY <1>2, <1>3, <1>4, <1>5, <1>6, <1>7, <1>8, <1>9

\* Nothing changes in the books when nobody takes or gives back anything.
LEMMA SameBooks ==
  ASSUME NEW f, NEW g, NEW b, \A x \in Shots : g[x].held = f[x].held, Books(b, f)
  PROVE  Books(b, g)
<1>1. {r \in Shots : g[r].held > 0} = {r \in Shots : f[r].held > 0}
  OBVIOUS
<1>2. [r \in Shots |-> g[r].held] = [r \in Shots |-> f[r].held]
  OBVIOUS
<1> QED BY <1>1, <1>2 DEF Books

LEMMA ShotsInitial == ScreenshotsInit => ShotsInv
<1> SUFFICES ASSUME ScreenshotsInit
             PROVE  ShotsInv
  OBVIOUS
<1>1. shots \in [Shots -> Shot] /\ \A r \in Shots : shots[r].held = 0 /\ shots[r].reply = NoReply
  BY DEF ScreenshotsInit, Shot
<1>2. /\ waiting = <<>> /\ jobs = <<>> /\ lost = <<>> /\ encoder = "none"
      /\ modes \in [Screens -> ScreenModes] /\ spent = [requests |-> 0, bytes |-> 0]
  BY DEF ScreenshotsInit
<1>3. QueuesApart
  BY <1>2, EmptyFacts DEF QueuesApart
<1>4. InFlight /\ ReplyMeansRoom
  BY <1>1, <1>2, EmptyFacts DEF InFlight, ReplyMeansRoom, NoReply, Holding
<1>5. Books(spent, shots)
  <2> DEFINE h == [r \in Shots |-> shots[r].held]
  <2>1. h \in [Shots -> Nat] /\ \A r \in Shots : h[r] = 0
    BY <1>1
  <2> HIDE DEF h
  <2>2. SumFunction(h) = 0
    BY <2>1, SumOfZeros, ShotsAssumption
  <2>3. {r \in Shots : shots[r].held > 0} = {}
    BY <1>1
  <2>4. Cardinality({r \in Shots : shots[r].held > 0}) = 0
    BY <2>3, FS_EmptySet
  <2> QED BY <1>2, <2>2, <2>4 DEF Books, h
<1>6. Queued = 0 /\ spent \in Budget /\ spent.requests = 0 /\ spent.bytes = 0
  BY <1>2 DEF Queued, Budget
<1> QED BY <1>1, <1>2, <1>3, <1>4, <1>5, <1>6, ShotsAssumption DEF ShotsInv, Encoders

LEMMA QueuedCounts ==
  ASSUME NEW q \in Seq(Shots)
  PROVE  Len(q) \in Nat
OBVIOUS

LEMMA NextWaits ==
  ASSUME ShotsInv, NEW o \in Screens, NextFor(o) # <<>>
  PROVE  /\ Head(NextFor(o)) \in Shots /\ Head(NextFor(o)) \in Range(waiting)
<1> DEFINE S == {r \in Shots : shots[r].screen = o}
           n == Retained(waiting, S)
<1>1. waiting \in Seq(Shots)
  BY DEF ShotsInv, QueuesApart
<1> HIDE DEF S
<1>2. n \in Seq(Shots) /\ Range(n) = Range(waiting) \cap S
  BY <1>1, RetainedFacts
<1>3. NextFor(o) = n
  BY DEF NextFor, S
<1> HIDE DEF n
<1>4. Head(n) \in Shots /\ Head(n) \in Range(n)
  BY <1>2, <1>3, TailFacts
<1> QED BY <1>2, <1>3, <1>4

\* A request leaves the queue of the loop.
LEMMA WaitingLess ==
  ASSUME ShotsInv, NEW r \in Shots, waiting' = Retained(waiting, Shots \ {r})
  PROVE  waiting' \in Seq(Shots) /\ IsInjective(waiting') /\ Range(waiting') = Range(waiting) \ {r}
<1>1. waiting \in Seq(Shots) /\ IsInjective(waiting)
  BY DEF ShotsInv, QueuesApart
<1>2. Range(waiting) \subseteq Shots
  BY <1>1 DEF Range
<1> DEFINE S == Shots \ {r}
<1>3. Range(waiting) \cap S = Range(waiting) \ {r}
  BY <1>2
<1> HIDE DEF S
<1>4. waiting' = Retained(waiting, S)
  BY DEF S
<1>5. /\ Retained(waiting, S) \in Seq(Shots) /\ IsInjective(Retained(waiting, S))
      /\ Range(Retained(waiting, S)) = Range(waiting) \cap S
  BY <1>1, RetainedFacts
<1> QED BY <1>3, <1>4, <1>5

\* A request whose reservation is given back, with or without its reply.
LEMMA GivenBack ==
  ASSUME ShotsInv, NEW r \in Shots, Holding(r), spent' = Released(spent, shots[r].held),
         \/ shots' = [shots EXCEPT ![r].held = 0]
         \/ shots' = [shots EXCEPT ![r].reply = "failed", ![r].held = 0]
  PROVE  /\ shots' \in [Shots -> Shot] /\ spent' \in Budget /\ Books(spent', shots')
         /\ spent'.requests <= MaxRequests /\ spent'.bytes <= MaxCaptureBytes
         /\ shots'[r].held = 0 /\ shots'[r].made = shots[r].made
         /\ shots'[r].reply \in {"failed", shots[r].reply}
         /\ \A x \in Shots : x # r => shots'[x] = shots[x]
<1>0. shots \in [Shots -> Shot] /\ spent \in Budget /\ Books(spent, shots)
      /\ spent.requests <= MaxRequests /\ spent.bytes <= MaxCaptureBytes /\ shots[r].held > 0
  BY DEF ShotsInv, Holding
<1>1. shots[r] \in Shot
  BY <1>0
<1> DEFINE g == [shots[r] EXCEPT !.held = 0]
           h == [shots[r] EXCEPT !.reply = "failed", !.held = 0]
<1>2. /\ g \in Shot /\ g.held = 0 /\ g.made = shots[r].made /\ g.reply = shots[r].reply
      /\ h \in Shot /\ h.held = 0 /\ h.made = shots[r].made /\ h.reply = "failed"
  BY <1>1 DEF Shot
<1>3. shots' = [shots EXCEPT ![r] = g] \/ shots' = [shots EXCEPT ![r] = h]
  OBVIOUS
<1> HIDE DEF g, h
<1>4. /\ shots' \in [Shots -> Shot] /\ shots'[r] \in {g, h}
      /\ \A x \in Shots : x # r => shots'[x] = shots[x]
  BY <1>0, <1>2, <1>3
<1>5. shots'[r].held = 0 /\ \A x \in Shots : x # r => shots'[x].held = shots[x].held
  BY <1>2, <1>4
<1>6. /\ spent' \in Budget /\ Books(spent', shots')
      /\ spent'.requests <= spent.requests /\ spent'.bytes <= spent.bytes
  BY <1>0, <1>4, <1>5, ReleasedBalances
<1>7. spent'.requests <= MaxRequests /\ spent'.bytes <= MaxCaptureBytes
  <2>1. {spent.requests, spent.bytes, spent'.requests, spent'.bytes, MaxRequests, MaxCaptureBytes} \subseteq Nat
    BY <1>0, <1>6, ShotsAssumption DEF Budget
  <2> QED BY <1>0, <1>6, <2>1
<1> QED BY <1>2, <1>4, <1>5, <1>6, <1>7

\* A request that is answered and keeps its reservation, or has none.
LEMMA Answered ==
  ASSUME ShotsInv, NEW r \in Shots, NEW reply \in {"written", "failed"}, AnswerShot(r, reply)
  PROVE  /\ shots' \in [Shots -> Shot] /\ spent' \in Budget /\ Books(spent', shots')
         /\ spent'.requests <= MaxRequests /\ spent'.bytes <= MaxCaptureBytes
         /\ shots'[r].reply = reply /\ shots'[r].made = shots[r].made /\ shots'[r].held = shots[r].held
         /\ \A x \in Shots : x # r => shots'[x] = shots[x]
<1>0. shots \in [Shots -> Shot] /\ spent \in Budget /\ Books(spent, shots)
      /\ spent.requests <= MaxRequests /\ spent.bytes <= MaxCaptureBytes
  BY DEF ShotsInv
<1>1. shots[r] \in Shot
  BY <1>0
<1> DEFINE g == [shots[r] EXCEPT !.reply = reply]
<1>2. g \in Shot /\ g.reply = reply /\ g.made = shots[r].made /\ g.held = shots[r].held
  BY <1>1 DEF Shot
<1>3. shots' = [shots EXCEPT ![r] = g] /\ spent' = spent
  BY DEF AnswerShot
<1> HIDE DEF g
<1>4. /\ shots' \in [Shots -> Shot] /\ shots'[r] = g
      /\ \A x \in Shots : x # r => shots'[x] = shots[x]
  BY <1>0, <1>2, <1>3
<1>5. \A x \in Shots : shots'[x].held = shots[x].held
  BY <1>2, <1>4
<1>6. Books(spent', shots')
  BY <1>0, <1>3, <1>5, SameBooks
<1> QED BY <1>0, <1>2, <1>3, <1>4, <1>6

LEMMA RefuseKeeps ==
  ASSUME ShotsInv, NEW r \in Shots, Refuse(r)
  PROVE  ShotsInv'
<1>0. shots \in [Shots -> Shot] /\ shots[r].held = 0 /\ ~shots[r].made
  BY DEF ShotsInv, InFlight, Refuse
<1>1. shots[r] \in Shot
  BY <1>0
<1> DEFINE g == [shots[r] EXCEPT !.made = TRUE, !.reply = "failed"]
<1>2. g \in Shot /\ g.made /\ g.held = 0 /\ g.reply = "failed"
  BY <1>0, <1>1 DEF Shot
<1>3. shots' = [shots EXCEPT ![r] = g]
  BY DEF Refuse
<1> HIDE DEF g
<1>4. /\ shots' \in [Shots -> Shot] /\ shots'[r] = g
      /\ \A x \in Shots : x # r => shots'[x] = shots[x]
  BY <1>0, <1>2, <1>3
<1>5. \A x \in Shots : shots'[x].held = shots[x].held
  BY <1>0, <1>2, <1>4
<1>6. Books(spent, shots')
  BY <1>5, SameBooks DEF ShotsInv
<1>7. UNCHANGED <<spent, waiting, jobs, lost, encoder, modes>>
  BY DEF Refuse
<1>8. r \notin Range(waiting) /\ r \notin Range(jobs) /\ r \notin Range(lost)
  BY <1>0 DEF ShotsInv, InFlight
<1>9. Range(waiting) \subseteq Shots /\ Range(jobs) \subseteq Shots /\ Range(lost) \subseteq Shots
  BY DEF ShotsInv, QueuesApart, Range
<1>10. InFlight'
  BY <1>2, <1>4, <1>7, <1>8, <1>9 DEF ShotsInv, InFlight, Holding
<1>11. ReplyMeansRoom'
  BY <1>2, <1>4 DEF ShotsInv, ReplyMeansRoom, Holding
<1> QED BY <1>4, <1>6, <1>7, <1>10, <1>11 DEF ShotsInv, QueuesApart, Queued

LEMMA RequestKeeps ==
  ASSUME ShotsInv, NEW r \in Shots, NEW o \in Screens, RequestShot(r, o)
  PROVE  ShotsInv'
<1> DEFINE g == [made |-> TRUE, screen |-> o, size |-> modes[o], held |-> modes[o], reply |-> NoReply]
<1>0. /\ shots \in [Shots -> Shot] /\ shots[r].held = 0 /\ ~shots[r].made
      /\ modes[o] \in Nat /\ modes[o] > 0
      /\ spent \in Budget /\ Books(spent, shots)
      /\ spent.requests < MaxRequests /\ modes[o] <= MaxCaptureBytes - spent.bytes
  <2>1. modes[o] \in ScreenModes
    BY DEF ShotsInv
  <2>2. modes[o] \in Nat \ {0}
    BY <2>1, ShotsAssumption, Zenon
  <2>3. modes[o] \in Nat /\ modes[o] > 0
    BY <2>2
  <2> QED BY <2>3 DEF ShotsInv, InFlight, RequestShot, Fits
<1>1. g \in Shot /\ g.made /\ g.held = modes[o] /\ g.reply = NoReply
  BY <1>0 DEF Shot
<1>2. /\ shots' = [shots EXCEPT ![r] = g] /\ waiting' = Append(waiting, r)
      /\ spent' = [requests |-> spent.requests + 1, bytes |-> spent.bytes + g.held]
      /\ UNCHANGED <<jobs, lost, encoder, modes>>
  BY DEF RequestShot
<1> HIDE DEF g
<1>3. /\ shots' \in [Shots -> Shot] /\ shots'[r] = g
      /\ \A x \in Shots : x # r => shots'[x] = shots[x]
  BY <1>0, <1>1, <1>2
<1>4. shots'[r].held > 0 /\ \A x \in Shots : x # r => shots'[x].held = shots[x].held
  BY <1>0, <1>1, <1>3
<1>5. Books(spent', shots')
  BY <1>0, <1>2, <1>3, <1>4, TakenBalances
<1>6. spent' \in Budget /\ spent'.requests <= MaxRequests /\ spent'.bytes <= MaxCaptureBytes
  BY <1>0, <1>1, <1>2, ShotsAssumption DEF Budget
<1>7. r \notin Range(waiting) /\ r \notin Range(jobs) /\ r \notin Range(lost)
  BY <1>0 DEF ShotsInv, InFlight
<1>8. /\ waiting \in Seq(Shots) /\ IsInjective(waiting)
      /\ Range(waiting) \subseteq Shots /\ Range(jobs) \subseteq Shots /\ Range(lost) \subseteq Shots
  BY DEF ShotsInv, QueuesApart, Range
<1>9. waiting' \in Seq(Shots) /\ IsInjective(waiting') /\ Range(waiting') = Range(waiting) \cup {r}
  BY <1>2, <1>7, <1>8, AppendFacts
<1>10. QueuesApart'
  BY <1>2, <1>7, <1>9 DEF ShotsInv, QueuesApart
<1>11. InFlight'
  BY <1>0, <1>1, <1>2, <1>3, <1>7, <1>8, <1>9 DEF ShotsInv, InFlight, Holding
<1>12. ReplyMeansRoom'
  BY <1>1, <1>3 DEF ShotsInv, ReplyMeansRoom, Holding, NoReply
<1> QED BY <1>2, <1>3, <1>5, <1>6, <1>10, <1>11, <1>12 DEF ShotsInv, Queued

LEMMA ProcessKeeps ==
  ASSUME ShotsInv, NEW o \in Screens, ProcessScreenshots(o)
  PROVE  ShotsInv'
<1> DEFINE r == Head(NextFor(o))
<1>1. r \in Shots /\ r \in Range(waiting)
  BY NextWaits DEF ProcessScreenshots
<1>2. /\ waiting' = Retained(waiting, Shots \ {r}) /\ UNCHANGED <<lost, modes>>
      /\ (Drop(r) /\ UNCHANGED <<jobs, encoder>>) \/ Submit(r)
  BY DEF ProcessScreenshots
<1> HIDE DEF r
<1>3. waiting' \in Seq(Shots) /\ IsInjective(waiting') /\ Range(waiting') = Range(waiting) \ {r}
  BY <1>1, <1>2, WaitingLess
<1>4. /\ shots[r].made /\ Holding(r) /\ shots[r].reply = NoReply
      /\ r \notin Range(jobs) /\ r \notin Range(lost)
      /\ Range(waiting) \subseteq Shots /\ Range(jobs) \subseteq Shots /\ Range(lost) \subseteq Shots
  <2>1. Range(waiting) \subseteq Shots /\ Range(jobs) \subseteq Shots /\ Range(lost) \subseteq Shots
    BY DEF ShotsInv, QueuesApart, Range
  <2>2. r \notin Range(jobs) /\ r \notin Range(lost)
    BY <1>1 DEF ShotsInv, QueuesApart
  <2> QED BY <1>1, <2>1, <2>2 DEF ShotsInv, InFlight
<1>5. CASE Drop(r) /\ jobs' = jobs /\ encoder' \in Encoders
           /\ (encoder' = encoder \/ (encoder = "gone" /\ encoder' = "none"))
  <2>1. /\ shots' \in [Shots -> Shot] /\ spent' \in Budget /\ Books(spent', shots')
        /\ spent'.requests <= MaxRequests /\ spent'.bytes <= MaxCaptureBytes
        /\ shots'[r].held = 0 /\ shots'[r].made = shots[r].made
        /\ shots'[r].reply \in {"failed", shots[r].reply}
        /\ \A x \in Shots : x # r => shots'[x] = shots[x]
    BY <1>1, <1>4, <1>5, GivenBack DEF Drop
  <2>2. QueuesApart'
    BY <1>2, <1>3, <1>5 DEF ShotsInv, QueuesApart
  <2>3. InFlight'
    BY <1>2, <1>3, <1>4, <1>5, <2>1 DEF ShotsInv, InFlight, Holding
  <2>4. ReplyMeansRoom'
    BY <1>4, <2>1 DEF ShotsInv, ReplyMeansRoom, Holding
  <2>5. Queued' = Queued
    BY <1>5 DEF Queued
  <2> QED BY <1>2, <1>5, <2>1, <2>2, <2>3, <2>4, <2>5 DEF ShotsInv
<1>6. CASE /\ jobs' = Append(jobs, r) /\ encoder # "gone" /\ Queued < MaxRequests
           /\ encoder' = (IF encoder = "none" THEN "idle" ELSE encoder)
           /\ UNCHANGED <<shots, spent>>
  <2>1. jobs \in Seq(Shots) /\ IsInjective(jobs)
    BY DEF ShotsInv, QueuesApart
  <2>2. jobs' \in Seq(Shots) /\ IsInjective(jobs') /\ Range(jobs') = Range(jobs) \cup {r}
    BY <1>1, <1>4, <1>6, <2>1, AppendFacts
  <2>3. /\ jobs' # <<>> /\ Len(jobs') = Len(jobs) + 1 /\ Len(jobs) \in Nat
        /\ jobs # <<>> => Head(jobs') = Head(jobs)
    BY <1>6, <2>1
  <2>4. QueuesApart'
    BY <1>2, <1>3, <1>4, <2>2 DEF ShotsInv, QueuesApart
  <2>5. encoder' \in Encoders /\ (encoder' \in {"busy", "panics"} <=> encoder \in {"busy", "panics"})
        /\ encoder' \notin {"none", "gone"} /\ (encoder \in {"busy", "panics"} => encoder' = encoder)
    BY <1>6 DEF ShotsInv, Encoders
  <2>6. \A x \in Range(jobs) : jobs # <<>>
    BY EmptyFacts
  <2>7. InFlight'
    <3>1. ASSUME NEW x \in Range(jobs')
          PROVE  /\ shots'[x].made /\ shots'[x].reply # "written"
                 /\ Holding(x)' \/ (encoder' = "busy" /\ x = Head(jobs'))
                 /\ shots'[x].reply = NoReply \/ (encoder' = "panics" /\ x = Head(jobs'))
      <4>1. CASE x = r
        BY <1>4, <1>6, <4>1 DEF Holding, NoReply
      <4>2. CASE x \in Range(jobs)
        <5>1. /\ shots[x].made /\ shots[x].reply # "written"
              /\ Holding(x) \/ (encoder = "busy" /\ x = Head(jobs))
              /\ shots[x].reply = NoReply \/ (encoder = "panics" /\ x = Head(jobs))
          BY <4>2 DEF ShotsInv, InFlight
        <5>2. Head(jobs') = Head(jobs)
          BY <2>3, <2>6, <4>2
        <5> QED BY <1>6, <2>5, <5>1, <5>2 DEF Holding
      <4> QED BY <2>2, <4>1, <4>2
    <3>2. \A x \in Range(waiting') : shots'[x].made /\ Holding(x)' /\ shots'[x].reply = NoReply
      BY <1>3, <1>6 DEF ShotsInv, InFlight, Holding
    <3> QED BY <1>2, <1>6, <3>1, <3>2 DEF ShotsInv, InFlight, Holding
  <2>8. Queued' = Queued + 1 /\ Queued \in Int
    BY <2>3, <2>5 DEF Queued
  <2>9. Queued' <= MaxRequests
    BY <1>6, <2>8, ShotsAssumption
  <2>10. ReplyMeansRoom' /\ Books(spent', shots')
    BY <1>6 DEF ShotsInv, ReplyMeansRoom, Holding
  <2> QED BY <1>2, <1>6, <2>3, <2>4, <2>5, <2>7, <2>9, <2>10 DEF ShotsInv
<1>7. Queued \in Int
  <2>1. Len(jobs) \in Nat
    BY QueuedCounts DEF ShotsInv, QueuesApart
  <2> QED BY <2>1 DEF Queued
<1>8. CASE Submit(r)
  <2>1. CASE encoder = "gone"
    BY <1>5, <1>8, <2>1 DEF Submit, Encoders
  <2>2. CASE encoder # "gone" /\ Queued >= MaxRequests
    BY <1>5, <1>8, <2>2 DEF Submit, ShotsInv
  <2>3. CASE encoder # "gone" /\ ~(Queued >= MaxRequests)
    <3>1. Queued < MaxRequests
      BY <1>7, <2>3, ShotsAssumption
    <3> QED BY <1>6, <1>8, <2>3, <3>1 DEF Submit
  <2> QED BY <2>1, <2>2, <2>3
<1>9. CASE Drop(r) /\ UNCHANGED <<jobs, encoder>>
  BY <1>5, <1>9 DEF ShotsInv
<1> QED BY <1>2, <1>8, <1>9

\* The queues of an encoder that has something to do.
LEMMA FirstJob ==
  ASSUME ShotsInv, jobs # <<>>
  PROVE  /\ Head(jobs) \in Shots /\ Head(jobs) \in Range(jobs) /\ shots[Head(jobs)].made
         /\ Head(jobs) \notin Range(waiting) /\ Head(jobs) \notin Range(lost)
         /\ Head(jobs) \notin Range(Tail(jobs)) /\ Range(Tail(jobs)) = Range(jobs) \ {Head(jobs)}
         /\ Tail(jobs) \in Seq(Shots) /\ IsInjective(Tail(jobs))
         /\ Len(Tail(jobs)) = Len(jobs) - 1 /\ Len(jobs) \in Nat \ {0}
         /\ Range(jobs) \subseteq Shots /\ Range(waiting) \subseteq Shots /\ Range(lost) \subseteq Shots
<1>1. jobs \in Seq(Shots) /\ IsInjective(jobs)
  BY DEF ShotsInv, QueuesApart
<1>2. /\ Tail(jobs) \in Seq(Shots) /\ Head(jobs) \in Shots
      /\ Range(jobs) = {Head(jobs)} \cup Range(Tail(jobs))
      /\ IsInjective(Tail(jobs)) /\ Head(jobs) \notin Range(Tail(jobs))
  BY <1>1, TailFacts
<1>3. Len(Tail(jobs)) = Len(jobs) - 1 /\ Len(jobs) \in Nat \ {0}
  BY <1>1
<1>4. Range(jobs) \subseteq Shots /\ Range(waiting) \subseteq Shots /\ Range(lost) \subseteq Shots
  BY DEF ShotsInv, QueuesApart, Range
<1>5. Head(jobs) \in Range(jobs) /\ Range(Tail(jobs)) = Range(jobs) \ {Head(jobs)}
  BY <1>2
<1>6. Head(jobs) \notin Range(waiting) /\ Head(jobs) \notin Range(lost) /\ shots[Head(jobs)].made
  BY <1>5 DEF ShotsInv, QueuesApart, InFlight
<1> QED BY <1>2, <1>3, <1>4, <1>5, <1>6

LEMMA ScreenModeKeeps ==
  ASSUME ShotsInv, NEW o \in Screens, ChangeScreenMode(o)
  PROVE  ShotsInv'
<1>1. UNCHANGED <<shots, spent, waiting, jobs, lost, encoder>>
  BY DEF ChangeScreenMode
<1>2. modes' \in [Screens -> ScreenModes]
  BY DEF ShotsInv, ChangeScreenMode
<1> QED BY <1>1, <1>2 DEF ShotsInv, QueuesApart, InFlight, ReplyMeansRoom, Holding, Queued

LEMMA EncodeKeeps == ShotsInv /\ Encode => ShotsInv'
<1> SUFFICES ASSUME ShotsInv, Encode
             PROVE  ShotsInv'
  OBVIOUS
<1>1. /\ encoder = "idle" /\ jobs # <<>> /\ encoder' \in {"busy", "panics"}
      /\ UNCHANGED <<shots, spent, waiting, jobs, lost, modes>>
  BY DEF Encode
<1>2. QueuesApart' /\ ReplyMeansRoom'
  BY <1>1 DEF ShotsInv, QueuesApart, ReplyMeansRoom, Holding
<1>3. InFlight'
  BY <1>1 DEF ShotsInv, InFlight, Holding
<1>4. Queued' <= MaxRequests
  <2>1. Len(jobs) \in Nat /\ Queued = Len(jobs) - 0 /\ Queued <= MaxRequests
    BY <1>1, QueuedCounts DEF ShotsInv, QueuesApart, Queued
  <2>2. Queued' = Len(jobs) - 1
    BY <1>1 DEF Queued
  <2> QED BY <2>1, <2>2, ShotsAssumption
<1> QED BY <1>1, <1>2, <1>3, <1>4 DEF ShotsInv, Encoders

\* The thread gives the reservation back, and only then replies.
LEMMA FinishKeeps == ShotsInv /\ FinishEncoding => ShotsInv'
<1> SUFFICES ASSUME ShotsInv, FinishEncoding
             PROVE  ShotsInv'
  OBVIOUS
<1> DEFINE r == Head(jobs)
<1>1. encoder = "busy" /\ jobs # <<>> /\ UNCHANGED <<waiting, lost, modes>>
  BY DEF FinishEncoding, Worked, ShotsInv
<1>2. /\ r \in Shots /\ r \in Range(jobs) /\ shots[r].made
      /\ r \notin Range(waiting) /\ r \notin Range(lost)
      /\ r \notin Range(Tail(jobs)) /\ Range(Tail(jobs)) = Range(jobs) \ {r}
      /\ Tail(jobs) \in Seq(Shots) /\ IsInjective(Tail(jobs))
      /\ Len(Tail(jobs)) = Len(jobs) - 1 /\ Len(jobs) \in Nat \ {0}
      /\ Range(jobs) \subseteq Shots /\ Range(waiting) \subseteq Shots /\ Range(lost) \subseteq Shots
  BY <1>1, FirstJob
<1>3. /\ shots[r].reply = NoReply
      /\ \A x \in Range(jobs) : x # r => shots[x].made /\ Holding(x) /\ shots[x].reply = NoReply
  BY <1>1, <1>2 DEF ShotsInv, InFlight
<1>4. CASE Holding(r)
  <2>1. GiveBack(r) /\ jobs' = jobs /\ encoder' = "busy"
    BY <1>4 DEF FinishEncoding, Worked
  <2>2. /\ shots' \in [Shots -> Shot] /\ spent' \in Budget /\ Books(spent', shots')
        /\ spent'.requests <= MaxRequests /\ spent'.bytes <= MaxCaptureBytes
        /\ shots'[r].held = 0 /\ shots'[r].made = shots[r].made
        /\ \A x \in Shots : x # r => shots'[x] = shots[x]
    <3> HIDE DEF r
    <3> QED BY <1>2, <1>4, <2>1, GivenBack DEF GiveBack
  <2>3. shots'[r].reply = NoReply
    BY <1>2, <1>3, <2>1 DEF GiveBack, ShotsInv
  <2>4. r = Head(jobs')
    BY <2>1
  <2> HIDE DEF r
  <2>5. InFlight'
    <3>1. ASSUME NEW x \in Range(jobs')
          PROVE  /\ shots'[x].made /\ shots'[x].reply = NoReply
                 /\ Holding(x)' \/ (encoder' = "busy" /\ x = Head(jobs'))
      <4>1. CASE x = r
        BY <1>2, <2>1, <2>2, <2>3, <2>4, <4>1
      <4>2. CASE x # r
        BY <1>2, <1>3, <2>1, <2>2, <4>2 DEF Holding
      <4> QED BY <4>1, <4>2
    <3>2. \A x \in Range(waiting) \cup Range(lost) : shots'[x] = shots[x]
      BY <1>2, <2>2
    <3>3. ASSUME NEW x \in Shots, ~shots'[x].made
          PROVE  shots'[x].held = 0 /\ shots'[x].reply = NoReply
      BY <1>2, <2>2, <3>3 DEF ShotsInv, InFlight
    <3> QED BY <1>1, <3>1, <3>2, <3>3 DEF ShotsInv, InFlight, Holding, NoReply
  <2>6. QueuesApart' /\ Queued' = Queued
    BY <1>1, <2>1 DEF ShotsInv, QueuesApart, Queued
  <2>7. ReplyMeansRoom'
    BY <2>2, <2>3 DEF ShotsInv, ReplyMeansRoom, Holding, NoReply
  <2> QED BY <1>1, <2>1, <2>2, <2>5, <2>6, <2>7 DEF ShotsInv, Encoders
<1>5. CASE ~Holding(r)
  <2>1. PICK reply \in {"written", "failed"} : AnswerShot(r, reply)
    BY <1>5 DEF FinishEncoding
  <2>2. jobs' = Tail(jobs) /\ encoder' = "idle"
    BY <1>5 DEF FinishEncoding, Worked
  <2> HIDE DEF r
  <2>3. /\ shots' \in [Shots -> Shot] /\ spent' \in Budget /\ Books(spent', shots')
        /\ spent'.requests <= MaxRequests /\ spent'.bytes <= MaxCaptureBytes
        /\ shots'[r].made = shots[r].made /\ shots'[r].held = shots[r].held
        /\ \A x \in Shots : x # r => shots'[x] = shots[x]
    BY <1>2, <2>1, Answered
  <2>4. InFlight'
    BY <1>1, <1>2, <1>3, <2>2, <2>3 DEF ShotsInv, InFlight, Holding
  <2>5. QueuesApart'
    BY <1>1, <1>2, <2>2 DEF ShotsInv, QueuesApart
  <2>6. ReplyMeansRoom'
    BY <1>5, <2>3 DEF ShotsInv, ReplyMeansRoom, Holding
  <2>7. Queued = Len(jobs) - 1 /\ Queued' = Len(Tail(jobs)) - 0
    BY <1>1, <2>2 DEF Queued
  <2>8. Queued' <= MaxRequests
    BY <1>2, <2>7 DEF ShotsInv
  <2> QED BY <1>1, <2>2, <2>3, <2>4, <2>5, <2>6, <2>8 DEF ShotsInv, Encoders
<1> QED BY <1>4, <1>5

\* What either thread drops is answered before its reservation is given back.
LEMMA Dropped ==
  ASSUME ShotsInv, NEW r \in Shots, shots[r].made, Holding(r), shots[r].reply # "written", Dropping(r)
  PROVE  /\ shots' \in [Shots -> Shot] /\ spent' \in Budget /\ Books(spent', shots')
         /\ spent'.requests <= MaxRequests /\ spent'.bytes <= MaxCaptureBytes
         /\ shots'[r].made /\ shots'[r].reply # "written"
         /\ shots[r].reply = NoReply => shots'[r].held > 0
         /\ \A x \in Shots : x # r => shots'[x] = shots[x]
         /\ ReplyMeansRoom'
<1>1. CASE shots[r].reply = NoReply
  <2>1. AnswerShot(r, "failed")
    BY <1>1 DEF Dropping
  <2>2. /\ shots' \in [Shots -> Shot] /\ spent' \in Budget /\ Books(spent', shots')
        /\ spent'.requests <= MaxRequests /\ spent'.bytes <= MaxCaptureBytes
        /\ shots'[r].reply = "failed" /\ shots'[r].made = shots[r].made /\ shots'[r].held = shots[r].held
        /\ \A x \in Shots : x # r => shots'[x] = shots[x]
    BY <2>1, Answered
  <2> QED BY <2>2 DEF ShotsInv, ReplyMeansRoom, Holding
<1>2. CASE shots[r].reply # NoReply
  <2>1. GiveBack(r)
    BY <1>2 DEF Dropping
  <2>2. /\ shots' \in [Shots -> Shot] /\ spent' \in Budget /\ Books(spent', shots')
        /\ spent'.requests <= MaxRequests /\ spent'.bytes <= MaxCaptureBytes
        /\ shots'[r].held = 0 /\ shots'[r].made = shots[r].made
        /\ shots'[r].reply \in {"failed", shots[r].reply}
        /\ \A x \in Shots : x # r => shots'[x] = shots[x]
    BY <2>1, GivenBack DEF GiveBack
  <2> QED BY <1>2, <2>2 DEF ShotsInv, ReplyMeansRoom, Holding
<1> QED BY <1>1, <1>2

\* The unwinding drops the job of the thread, and its queue with the last of it.
LEMMA UnwindKeeps == ShotsInv /\ Unwind => ShotsInv'
<1> SUFFICES ASSUME ShotsInv, Unwind
             PROVE  ShotsInv'
  OBVIOUS
<1> DEFINE r == Head(jobs)
<1>1. encoder = "panics" /\ jobs # <<>> /\ UNCHANGED <<waiting, modes>>
  BY DEF Unwind, ShotsInv
<1>2. /\ r \in Shots /\ r \in Range(jobs) /\ shots[r].made
      /\ r \notin Range(waiting) /\ r \notin Range(lost)
      /\ r \notin Range(Tail(jobs)) /\ Range(Tail(jobs)) = Range(jobs) \ {r}
      /\ Tail(jobs) \in Seq(Shots) /\ IsInjective(Tail(jobs))
      /\ Len(Tail(jobs)) = Len(jobs) - 1 /\ Len(jobs) \in Nat \ {0}
      /\ Range(jobs) \subseteq Shots /\ Range(waiting) \subseteq Shots /\ Range(lost) \subseteq Shots
  BY <1>1, FirstJob
<1>3. /\ Holding(r) /\ shots[r].reply # "written" /\ Dropping(r)
      /\ \A x \in Range(jobs) : x # r => shots[x].made /\ Holding(x) /\ shots[x].reply = NoReply
  <2>1. Dropping(r)
    BY DEF Unwind
  <2> QED BY <1>1, <1>2, <2>1 DEF ShotsInv, InFlight
<1>4. CASE shots[r].reply = NoReply
  <2>1. UNCHANGED <<jobs, lost, encoder>> /\ r = Head(jobs')
    BY <1>4 DEF Unwind
  <2> HIDE DEF r
  <2>2. /\ shots' \in [Shots -> Shot] /\ spent' \in Budget /\ Books(spent', shots')
        /\ spent'.requests <= MaxRequests /\ spent'.bytes <= MaxCaptureBytes
        /\ shots'[r].made /\ shots'[r].reply # "written" /\ shots'[r].held > 0
        /\ \A x \in Shots : x # r => shots'[x] = shots[x]
        /\ ReplyMeansRoom'
    BY <1>2, <1>3, <1>4, Dropped
  <2>3. InFlight'
    BY <1>1, <1>2, <1>3, <2>1, <2>2 DEF ShotsInv, InFlight, Holding
  <2>4. QueuesApart' /\ Queued' = Queued
    BY <1>1, <2>1 DEF ShotsInv, QueuesApart, Queued
  <2> QED BY <1>1, <2>1, <2>2, <2>3, <2>4 DEF ShotsInv
<1>5. CASE shots[r].reply # NoReply
  <2>1. encoder' = "gone" /\ jobs' = <<>> /\ lost' = lost \o Tail(jobs)
    BY <1>5 DEF Unwind
  <2> DEFINE t == Tail(jobs)
  <2> HIDE DEF r, t
  <2>2. /\ shots' \in [Shots -> Shot] /\ spent' \in Budget /\ Books(spent', shots')
        /\ spent'.requests <= MaxRequests /\ spent'.bytes <= MaxCaptureBytes
        /\ shots'[r].made /\ \A x \in Shots : x # r => shots'[x] = shots[x]
        /\ ReplyMeansRoom'
    BY <1>2, <1>3, Dropped
  <2>3. t \in Seq(Shots) /\ IsInjective(t) /\ Range(t) = Range(jobs) \ {r} /\ lost' = lost \o t
    BY <1>2, <2>1 DEF t
  <2>4. lost \in Seq(Shots) /\ IsInjective(lost) /\ Range(lost) \cap Range(t) = {}
        /\ Range(waiting) \cap Range(t) = {} /\ Range(waiting) \cap Range(lost) = {}
    BY <2>3 DEF ShotsInv, QueuesApart
  <2>5. lost' \in Seq(Shots) /\ IsInjective(lost') /\ Range(lost') = Range(lost) \cup Range(t)
    BY <2>3, <2>4, ConcatFacts
  <2>6. jobs' \in Seq(Shots) /\ IsInjective(jobs') /\ Range(jobs') = {}
    BY <2>1, EmptyFacts
  <2>7. QueuesApart'
    BY <1>1, <2>4, <2>5, <2>6 DEF ShotsInv, QueuesApart
  <2>8. InFlight'
    <3>1. ASSUME NEW x \in Range(lost')
          PROVE  shots'[x].made /\ Holding(x)' /\ shots'[x].reply # "written"
      <4>1. x \in Shots /\ x # r /\ shots[x].made /\ Holding(x) /\ shots[x].reply # "written"
        BY <1>2, <1>3, <2>3, <2>5 DEF ShotsInv, InFlight, NoReply
      <4> QED BY <2>2, <4>1 DEF Holding
    <3>2. ASSUME NEW x \in Range(waiting')
          PROVE  shots'[x].made /\ Holding(x)' /\ shots'[x].reply = NoReply
      BY <1>1, <1>2, <2>2 DEF ShotsInv, InFlight, Holding
    <3>3. ASSUME NEW x \in Shots, ~shots'[x].made
          PROVE  shots'[x].held = 0 /\ shots'[x].reply = NoReply
      BY <2>2, <3>3 DEF ShotsInv, InFlight
    <3> QED BY <2>6, <3>1, <3>2, <3>3 DEF InFlight
  <2>9. Queued' = 0 /\ 0 <= MaxRequests
    BY <2>1, ShotsAssumption DEF Queued
  <2> QED BY <1>1, <2>1, <2>2, <2>7, <2>8, <2>9 DEF ShotsInv, Encoders
<1> QED BY <1>4, <1>5

\* So does whoever drops the rest of the queue.
LEMMA DropLostKeeps == ShotsInv /\ DropLost => ShotsInv'
<1> SUFFICES ASSUME ShotsInv, DropLost
             PROVE  ShotsInv'
  OBVIOUS
<1> DEFINE r == Head(lost)
           t == Tail(lost)
<1>1. /\ lost # <<>> /\ Dropping(r) /\ UNCHANGED <<waiting, jobs, encoder, modes>>
      /\ lost' = IF shots[r].reply = NoReply THEN lost ELSE t
  BY DEF DropLost
<1>2. lost \in Seq(Shots) /\ IsInjective(lost)
  BY DEF ShotsInv, QueuesApart
<1>3. /\ t \in Seq(Shots) /\ r \in Shots /\ Range(lost) = {r} \cup Range(t)
      /\ IsInjective(t) /\ r \notin Range(t)
  BY <1>1, <1>2, TailFacts
<1> HIDE DEF r, t
<1>4. /\ Range(jobs) \subseteq Shots /\ Range(waiting) \subseteq Shots /\ Range(lost) \subseteq Shots
      /\ r \notin Range(jobs) /\ r \notin Range(waiting)
  <2>1. Range(jobs) \subseteq Shots /\ Range(waiting) \subseteq Shots /\ Range(lost) \subseteq Shots
    BY DEF ShotsInv, QueuesApart, Range
  <2> QED BY <1>3, <2>1 DEF ShotsInv, QueuesApart
<1>5. shots[r].made /\ Holding(r) /\ shots[r].reply # "written"
  BY <1>3 DEF ShotsInv, InFlight
<1>6. /\ shots' \in [Shots -> Shot] /\ spent' \in Budget /\ Books(spent', shots')
      /\ spent'.requests <= MaxRequests /\ spent'.bytes <= MaxCaptureBytes
      /\ shots'[r].made /\ shots'[r].reply # "written"
      /\ shots[r].reply = NoReply => shots'[r].held > 0
      /\ \A x \in Shots : x # r => shots'[x] = shots[x]
      /\ ReplyMeansRoom'
  BY <1>1, <1>3, <1>5, Dropped
<1>7. /\ lost' \in Seq(Shots) /\ IsInjective(lost') /\ Range(lost') \subseteq Range(lost)
      /\ \A x \in Range(lost') : x = r => shots[r].reply = NoReply
  BY <1>1, <1>2, <1>3
<1>8. QueuesApart'
  BY <1>1, <1>7 DEF ShotsInv, QueuesApart
<1>9. InFlight'
  <2>1. ASSUME NEW x \in Range(lost')
        PROVE  shots'[x].made /\ Holding(x)' /\ shots'[x].reply # "written"
    BY <1>4, <1>6, <1>7 DEF ShotsInv, InFlight, Holding
  <2>2. ASSUME NEW x \in Shots, ~shots'[x].made
        PROVE  shots'[x].held = 0 /\ shots'[x].reply = NoReply
    BY <1>6, <2>2 DEF ShotsInv, InFlight
  <2>3. \A x \in Range(jobs) \cup Range(waiting) : shots'[x] = shots[x]
    BY <1>4, <1>6
  <2> QED BY <1>1, <2>1, <2>2, <2>3 DEF ShotsInv, InFlight, Holding
<1>10. Queued' = Queued
  BY <1>1 DEF Queued
<1> QED BY <1>1, <1>6, <1>8, <1>9, <1>10 DEF ShotsInv

LEMMA ShotsStep == ShotsInv /\ [ScreenshotsNext]_shotVars => ShotsInv'
<1> SUFFICES ASSUME ShotsInv, [ScreenshotsNext]_shotVars
             PROVE  ShotsInv'
  OBVIOUS
<1>1. CASE UNCHANGED shotVars
  BY <1>1 DEF ShotsInv, shotVars, QueuesApart, InFlight, ReplyMeansRoom, Holding, Queued
<1>2. ASSUME NEW r \in Shots, Refuse(r) \/ \E o \in Screens : RequestShot(r, o)
      PROVE  ShotsInv'
  BY <1>2, RefuseKeeps, RequestKeeps
<1>3. ASSUME NEW o \in Screens, ChangeScreenMode(o) \/ ProcessScreenshots(o)
      PROVE  ShotsInv'
  BY <1>3, ScreenModeKeeps, ProcessKeeps
<1>4. CASE Encode \/ FinishEncoding \/ Unwind \/ DropLost
  BY <1>4, EncodeKeeps, FinishKeeps, UnwindKeeps, DropLostKeeps
<1> QED BY <1>1, <1>2, <1>3, <1>4 DEF ScreenshotsNext

LEMMA ShotsSound == ShotsInv => BudgetExact /\ ReplyMeansRoom
BY DEF ShotsInv, Books, BudgetExact, Holding

\* The budget is what the screenshots in flight hold, whatever is refused,
\* dropped, encoded or lost with a panicking thread, and a client that is told
\* that its screenshot was written finds its part of the budget free.
THEOREM BudgetIsExact == ScreenshotsSpec => [](BudgetExact /\ ReplyMeansRoom)
BY ShotsInitial, ShotsStep, ShotsSound, PTL DEF ScreenshotsSpec

------------------------------------------------------------------------------
(* The run, which moves one module at a time and leaves the others alone.  *)

\* What the run checks of the light holds for any levels and surfaces.
THEOREM LightAlwaysKept == ServicesSpec => []LightKept
<1>1. ServicesInit => LightInv
  BY LightInitial DEF ServicesInit
<1>2. LightInv /\ [ServicesNext]_servicesVars => LightInv'
  <2>1. [ServicesNext]_servicesVars => HousekeepingNext \/ UNCHANGED houseVars
    BY DEF ServicesNext, Scene, servicesVars
  <2> QED BY <2>1, LightStep
<1>3. LightInv => LightKept
  BY LightSound DEF LightKept
<1> QED BY <1>1, <1>2, <1>3, PTL DEF ServicesSpec

\* What the run checks of the command queue holds for any clients, requests
\* and capacities.
THEOREM CallsAlwaysConserved == ServicesSpec => []CallsConserved
<1>1. ServicesInit => PermitsInv /\ BytesInv /\ NoLostWakeup
  BY PermitsInitial, BytesInitial, WakeupInitial DEF ServicesInit
<1>2. PermitsInv /\ BytesInv /\ NoLostWakeup /\ [ServicesNext]_servicesVars
      => (PermitsInv /\ BytesInv /\ NoLostWakeup)'
  <2>1. [ServicesNext]_servicesVars => [Next]_vars
    BY DEF ServicesNext, Scene, servicesVars
  <2> QED BY <2>1, PermitsStep, BytesStep, WakeupStep
<1>3. PermitsInv /\ BytesInv /\ NoLostWakeup => CallsConserved
  BY DEF PermitsInv, BytesInv, Conserved, CallsConserved
<1> QED BY <1>1, <1>2, <1>3, PTL DEF ServicesSpec

\* What the run checks of the event stream holds for any keys and capacities:
\* two queues and a bus in a row, with what they coalesce and drop, show a
\* subscriber at each lifecycle event what was published before it.
THEOREM DeliveriesAlwaysExact == ServicesSpec => []DeliveriesExact
<1>1. ServicesInit => DeliveryInv /\ StreamInv
  BY DeliveryInitial, StreamInitial DEF ServicesInit
<1>2. DeliveryInv /\ StreamInv /\ [ServicesNext]_servicesVars => (DeliveryInv /\ StreamInv)'
  <2>1. [ServicesNext]_servicesVars => [DeliveryNext]_deliveryVars
    BY DEF ServicesNext, Scene, servicesVars
  <2> QED BY <2>1, DeliveryStep, StreamStep
<1>3. DeliveryInv /\ StreamInv => DeliveriesExact
  BY DeliverySound DEF StreamInv, ReasonReported, DeliveriesExact
<1> QED BY <1>1, <1>2, <1>3, PTL DEF ServicesSpec

\* What the run checks of the screenshots holds for any requests, outputs and
\* limits.
THEOREM ShotsAlwaysWithinBudget == ServicesSpec => []ShotsWithinBudget
<1>1. ServicesInit => ShotsInv
  BY ShotsInitial DEF ServicesInit
<1>2. ShotsInv /\ [ServicesNext]_servicesVars => ShotsInv'
  <2>1. [ServicesNext]_servicesVars => ScreenshotsNext \/ UNCHANGED shotVars
    BY DEF ServicesNext, Scene, servicesVars
  <2> QED BY <2>1, ShotsStep
<1>3. ShotsInv => ShotsWithinBudget
  BY ShotsSound DEF ShotsWithinBudget
<1> QED BY <1>1, <1>2, <1>3, PTL DEF ServicesSpec
==============================================================================
