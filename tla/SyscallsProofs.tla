---------------------------- MODULE SyscallsProofs ----------------------------
(***************************************************************************)
(* What every handler of Syscalls keeps, whatever EC a capability lookup   *)
(* gives it: the types, the accounting of the run queues, the agreement of *)
(* the two variables that name the running EC, and the reason for which    *)
(* the machine stops. The modules that say what lookups give use these     *)
(* lemmas for the invariants of their specifications.                      *)
(***************************************************************************)
EXTENDS Syscalls, RunQueuesProofs

\* The fields of class Ec that the scheduler does not know.
FieldsOK == /\ pending_sender \in [EC -> EC \cup {NULL}]
            /\ saved_priority \in [EC -> Levels]
            /\ ipc_val \in [EC -> Nat]
            /\ eax \in [EC -> Int]
            /\ base \in [EC -> Levels]

\* The inductive invariant. That some EC runs as long as the machine does is
\* what its other parts need to survive a handler.
SInv == /\ FieldsOK
        /\ Sound(sched)
        /\ current \in EC
        /\ created \in SUBSET EC
        /\ created = Members(sched)
        /\ call \in [EC -> Waits]
        /\ sched.halted = "no" => sched.current_ec # NULL
        /\ CurrentsAgree
        /\ StopsOnlyIdle

LEMMA SInvTypes == SInv => EcTypeOK /\ Accounting
BY DEF SInv, FieldsOK, Sound, EcTypeOK, Accounting

\* A handler that dispatches: the EC that was picked is made current.
LEMMA SwitchInv ==
  ASSUME SInv, NEW s, NEW r, Dispatched(r, s), r.halted = "no",
         Members(r) = created, NEW waits \in [EC -> Waits], Switch(s, waits),
         UNCHANGED created, FieldsOK'
  PROVE  SInv'
<1>1. /\ Sound(s) /\ Members(s) = created /\ sched' = s
      /\ \/ s.halted = "no" /\ s.current_ec \in EC
         \/ /\ s.halted = "no ECs to run" /\ s.current_ec = NULL
            /\ \A e \in EC : ~ Ready(s, e)
  BY DEF Dispatched, Switch
<1>2. CASE s.halted = "no" /\ s.current_ec \in EC
  <2>1. current' = s.current_ec /\ call' = [waits EXCEPT ![s.current_ec] = Idle]
    BY <1>2 DEF Switch
  <2>2. call' \in [EC -> Waits]
    BY <2>1 DEF Waits
  <2>3. s.current_ec # NULL
    BY <1>2, QueueAssumption
  <2> QED BY <1>1, <1>2, <2>1, <2>2, <2>3 DEF SInv, CurrentsAgree, StopsOnlyIdle
<1>3. CASE /\ s.halted = "no ECs to run" /\ s.current_ec = NULL
           /\ \A e \in EC : ~ Ready(s, e)
  <2>1. UNCHANGED current /\ call' = waits
    BY <1>3 DEF Switch
  <2>2. \A e \in created : e \in EC /\ e # NULL
    BY QueueAssumption DEF SInv
  <2> QED BY <1>1, <1>3, <2>1, <2>2 DEF SInv, CurrentsAgree, StopsOnlyIdle
<1> QED BY <1>1, <1>2, <1>3

\* A handler that returns to the EC that called.
LEMMA ReturnInv ==
  ASSUME SInv, sched.halted = "no", Sound(sched'), Members(sched') = created,
         sched'.current_ec = sched.current_ec, sched'.halted = sched.halted,
         UNCHANGED <<current, created>>, call' \in [EC -> Waits], FieldsOK'
  PROVE  SInv'
BY DEF SInv, CurrentsAgree, StopsOnlyIdle

\* What holds when the running EC enters the kernel with a call it may make.
LEMMA Running ==
  ASSUME SInv, NEW c, May(c)
  PROVE  /\ sched.halted = "no" /\ current = sched.current_ec
         /\ current \in EC /\ current # NULL
         /\ Sound(sched) /\ Members(sched) = created
         /\ current \notin Queued(sched)
<1>1. /\ sched.halted = "no" /\ current = sched.current_ec /\ current \in EC
      /\ Sound(sched) /\ Members(sched) = created
  BY DEF SInv, May, CurrentsAgree
<1>2. current \notin Queued(sched)
  BY <1>1 DEF Queued, Sound, OnePlace
<1> QED BY <1>1, <1>2, QueueAssumption

LEMMA EnteredOK == SInv => Entered \in [EC -> Int]
BY SyscallAssumption DEF SInv, FieldsOK, Entered

LEMMA ResultOK == ASSUME SInv, NEW w \in Int PROVE Result(w) \in [EC -> Int]
BY DEF SInv, FieldsOK, Result

-----------------------------------------------------------------------------

LEMMA YieldInv == SInv /\ SysYield => SInv'
<1> SUFFICES ASSUME SInv, SysYield PROVE SInv'
  OBVIOUS
<1>1. /\ sched.halted = "no" /\ Sound(sched) /\ Members(sched) = created
  BY Running DEF SysYield
<1>2. Dispatched(sched, Yielded(sched))
  BY <1>1, YieldedSound
<1>3. FieldsOK'
  BY EnteredOK DEF SysYield, ipcVars, SInv, FieldsOK
<1>4. Switch(Yielded(sched), call) /\ UNCHANGED created /\ call \in [EC -> Waits]
  BY DEF SysYield, SInv
<1> QED BY <1>1, <1>2, <1>3, <1>4, SwitchInv

LEMMA BlockInv ==
  ASSUME SInv, NEW target \in EC \cup {NULL}, SysBlock(target)
  PROVE  SInv'
<1>1. /\ sched.halted = "no" /\ Sound(sched) /\ Members(sched) = created
  BY Running DEF SysBlock
<1>2. FieldsOK' /\ UNCHANGED created /\ call \in [EC -> Waits]
  BY EnteredOK DEF SysBlock, ipcVars, SInv, FieldsOK
<1>3. CASE target = NULL
  BY <1>1, <1>2, <1>3, ReturnInv DEF SysBlock, Return
<1>4. CASE target \in EC /\ target = sched.current_ec
  <2>1. Dispatched(sched, Blocked(sched, target))
    BY <1>1, <1>4, BlockedSound
  <2>2. Switch(Blocked(sched, target), call)
    BY <1>4, QueueAssumption DEF SysBlock
  <2> QED BY <1>1, <1>2, <2>1, <2>2, SwitchInv
<1>5. CASE target \in EC /\ target # sched.current_ec
  <2>1. Return(Blocked(sched, target))
    BY <1>5, QueueAssumption DEF SysBlock
  <2>2. /\ Sound(sched') /\ Members(sched') = Members(sched)
        /\ sched'.current_ec = sched.current_ec /\ sched'.halted = sched.halted
    BY <1>1, <1>5, <2>1, BlockedSound DEF Return
  <2> QED BY <1>1, <1>2, <2>1, <2>2, ReturnInv DEF Return
<1> QED BY <1>3, <1>4, <1>5

LEMMA UnblockInv ==
  ASSUME SInv, NEW target \in EC \cup {NULL}, SysUnblock(target)
  PROVE  SInv'
<1>1. /\ sched.halted = "no" /\ Sound(sched) /\ Members(sched) = created
  BY Running DEF SysUnblock
<1>2. FieldsOK' /\ UNCHANGED <<current, created>> /\ call' \in [EC -> Waits]
  BY EnteredOK DEF SysUnblock, Return, ipcVars, SInv, FieldsOK
<1>3. CASE target = NULL
  BY <1>1, <1>2, <1>3, ReturnInv DEF SysUnblock, Return
<1>4. CASE target \in EC
  <2>1. sched' = Marked(sched, target, FALSE)
    BY <1>4, QueueAssumption DEF SysUnblock, Return, Unblocked
  <2>2. /\ Sound(sched') /\ Members(sched') = Members(sched)
        /\ sched'.current_ec = sched.current_ec /\ sched'.halted = sched.halted
    BY <1>1, <1>4, <2>1, MarkedSound
  <2> QED BY <1>1, <1>2, <2>2, ReturnInv
<1> QED BY <1>3, <1>4

LEMMA UnblockAllInv == SInv /\ SysUnblockAll => SInv'
<1> SUFFICES ASSUME SInv, SysUnblockAll PROVE SInv'
  OBVIOUS
<1>1. /\ sched.halted = "no" /\ Sound(sched) /\ Members(sched) = created
  BY Running DEF SysUnblockAll
<1>2. /\ FieldsOK' /\ UNCHANGED <<current, created>> /\ call' \in [EC -> Waits]
      /\ sched' = AllUnblocked(sched)
  BY EnteredOK DEF SysUnblockAll, Return, ipcVars, SInv, FieldsOK
<1>3. /\ Sound(sched') /\ Members(sched') = Members(sched)
      /\ sched'.current_ec = sched.current_ec /\ sched'.halted = sched.halted
  BY <1>1, <1>2, AllUnblockedSound
<1> QED BY <1>1, <1>2, <1>3, ReturnInv

LEMMA SendNowhereInv == SInv /\ SendNowhere => SInv'
<1> SUFFICES ASSUME SInv, SendNowhere PROVE SInv'
  OBVIOUS
<1>1. /\ sched.halted = "no" /\ Sound(sched) /\ Members(sched) = created
  BY Running DEF SendNowhere
<1>2. -1 \in Int
  OBVIOUS
<1>3. FieldsOK' /\ UNCHANGED <<sched, current, created>> /\ call' \in [EC -> Waits]
  BY <1>2, ResultOK DEF SendNowhere, ipcVars, SInv, FieldsOK
<1> QED BY <1>1, <1>3, ReturnInv

LEMMA FastSendInv ==
  ASSUME SInv, NEW target \in EC, NEW value \in Nat, FastSend(target, value)
  PROVE  SInv'
<1> DEFINE r == Unblocked(sched, target)
           waits == [call EXCEPT ![target] = Idle]
<1>1. /\ sched.halted = "no" /\ Sound(sched) /\ Members(sched) = created
  BY Running DEF FastSend
<1>2. /\ Sound(r) /\ Members(r) = created /\ r.halted = "no"
  BY <1>1, MarkedSound DEF Unblocked
<1>3. Dispatched(r, Yielded(r))
  BY <1>2, YieldedSound
<1>4. waits \in [EC -> Waits]
  BY DEF SInv, Waits
<1>5. value \in Int
  OBVIOUS
<1>6. FieldsOK'
  BY <1>5, EnteredOK DEF FastSend, SInv, FieldsOK
<1>7. Switch(Yielded(r), waits) /\ UNCHANGED created
  BY DEF FastSend
<1> HIDE DEF r, waits
<1> QED BY <1>2, <1>3, <1>4, <1>6, <1>7, SwitchInv

\* A boost, or giving one back, moves an entry and keeps what runs.
LEMMA BoostSound ==
  ASSUME Sound(sched), NEW e \in EC
  PROVE  \A prio \in Levels :
            /\ Sound(Reprioritized(sched, e, prio))
            /\ Members(Reprioritized(sched, e, prio)) = Members(sched)
            /\ Reprioritized(sched, e, prio).current_ec = sched.current_ec
            /\ Reprioritized(sched, e, prio).halted = sched.halted
BY ReprioritizedSound

LEMMA SlowSendInv ==
  ASSUME SInv, NEW target \in EC, NEW value \in Nat, SlowSend(target, value)
  PROVE  SInv'
<1> DEFINE prio == sched.priority[current]
           r == IF Boosts(target) THEN Reprioritized(sched, target, prio) ELSE sched
           waits == [call EXCEPT ![current] = SendingTo(target)]
<1>1. /\ sched.halted = "no" /\ Sound(sched) /\ Members(sched) = created
      /\ current \in EC /\ current = sched.current_ec
  BY Running DEF SlowSend
<1>2. prio \in Levels /\ sched.priority[target] \in Levels
  BY <1>1 DEF Sound, SchedulerState
<1>3. /\ Sound(r) /\ Members(r) = created /\ r.halted = "no"
      /\ r.current_ec = sched.current_ec
  <2> DEFINE boosted == Reprioritized(sched, target, prio)
  <2>1. /\ Sound(boosted) /\ Members(boosted) = Members(sched)
        /\ boosted.current_ec = sched.current_ec
        /\ boosted.halted = sched.halted
    BY <1>1, <1>2, BoostSound
  <2> HIDE DEF boosted
  <2>2. r = boosted \/ r = sched
    BY DEF boosted
  <2> HIDE DEF r
  <2> QED BY <1>1, <2>1, <2>2
<1>4. waits \in [EC -> Waits]
  BY <1>1 DEF SInv, Waits
<1>5. FieldsOK'
  <2>1. saved_priority' \in [EC -> Levels]
    BY <1>2 DEF SlowSend, SInv, FieldsOK
  <2>2. ipc_val' \in [EC -> Nat]
    BY SyscallAssumption DEF SlowSend, SInv, FieldsOK
  <2>3. pending_sender' \in [EC -> EC \cup {NULL}]
    BY <1>1 DEF SlowSend, SInv, FieldsOK
  <2> QED BY <2>1, <2>2, <2>3, EnteredOK DEF SlowSend, SInv, FieldsOK
<1>6. Switch(Blocked(r, current), waits) /\ UNCHANGED created
  BY DEF SlowSend
<1> HIDE DEF r, waits
<1>7. Dispatched(r, Blocked(r, current))
  BY <1>1, <1>3, BlockedSound
<1> QED BY <1>3, <1>4, <1>5, <1>6, <1>7, SwitchInv

LEMMA SendInv ==
  ASSUME SInv, NEW target \in EC \cup {NULL}, NEW value \in Nat,
         IpcSend(target, value)
  PROVE  SInv'
BY SendNowhereInv, FastSendInv, SlowSendInv DEF IpcSend

\* What a receiver that gives back a boost leaves of the run queues.
LEMMA RestoredSound ==
  ASSUME SInv, May("recv")
  PROVE  /\ Sound(Restored) /\ Members(Restored) = created
         /\ Restored.current_ec = sched.current_ec /\ Restored.halted = "no"
<1>1. /\ sched.halted = "no" /\ Sound(sched) /\ Members(sched) = created
      /\ current \in EC /\ current = sched.current_ec
  BY Running
<1>2. saved_priority[current] \in Levels
  BY <1>1 DEF SInv, FieldsOK
<1> DEFINE r == Reprioritized(sched, current, saved_priority[current])
<1>3. /\ Sound(r) /\ Members(r) = Members(sched)
      /\ r.current_ec = sched.current_ec /\ r.halted = sched.halted
  BY <1>1, <1>2, BoostSound
<1> HIDE DEF r
<1>4. Restored = r \/ Restored = sched
  BY DEF Restored, r
<1> QED BY <1>1, <1>3, <1>4

LEMMA RecvPendingInv == SInv /\ RecvPending => SInv'
<1> SUFFICES ASSUME SInv, RecvPending PROVE SInv'
  OBVIOUS
<1> DEFINE sender == pending_sender[current]
           r == IF pending_sender[sender] = NULL THEN Restored ELSE sched
<1>1. /\ sched.halted = "no" /\ Sound(sched) /\ Members(sched) = created
      /\ current \in EC /\ May("recv")
  BY Running DEF RecvPending
<1>2. sender \in EC /\ pending_sender[sender] \in EC \cup {NULL}
  BY <1>1 DEF RecvPending, SInv, FieldsOK
<1>3. /\ Sound(r) /\ Members(r) = created
      /\ r.current_ec = sched.current_ec /\ r.halted = "no"
  BY <1>1, RestoredSound
<1>4. sched' = Unblocked(r, sender)
  BY DEF RecvPending
<1>5. FieldsOK'
  <2>1. saved_priority' \in [EC -> Levels]
    BY ZeroLevel DEF RecvPending, SInv, FieldsOK
  <2>2. pending_sender' \in [EC -> EC \cup {NULL}]
    BY <1>2 DEF RecvPending, SInv, FieldsOK
  <2>3. ipc_val[sender] \in Int
    BY <1>2 DEF SInv, FieldsOK
  <2>4. eax' \in [EC -> Int]
    BY <2>3, ResultOK DEF RecvPending
  <2> QED BY <2>1, <2>2, <2>4 DEF RecvPending, SInv, FieldsOK
<1>6. call' \in [EC -> Waits] /\ UNCHANGED <<current, created>>
  BY DEF RecvPending, SInv, Waits
<1> HIDE DEF r, sender
<1>7. /\ Sound(sched') /\ Members(sched') = created
      /\ sched'.current_ec = sched.current_ec /\ sched'.halted = sched.halted
  BY <1>1, <1>2, <1>3, <1>4, MarkedSound DEF Unblocked
<1> QED BY <1>1, <1>5, <1>6, <1>7, ReturnInv

LEMMA RecvBlocksInv == SInv /\ RecvBlocks => SInv'
<1> SUFFICES ASSUME SInv, RecvBlocks PROVE SInv'
  OBVIOUS
<1> DEFINE waits == [call EXCEPT ![current] = Receiving]
<1>1. /\ current \in EC /\ current = sched.current_ec /\ May("recv")
  BY Running DEF RecvBlocks
<1>2. /\ Sound(Restored) /\ Members(Restored) = created
      /\ Restored.current_ec = sched.current_ec /\ Restored.halted = "no"
  BY <1>1, RestoredSound
<1>3. Dispatched(Restored, Blocked(Restored, current))
  BY <1>1, <1>2, BlockedSound
<1>4. waits \in [EC -> Waits]
  BY DEF SInv, Waits
<1>5. FieldsOK'
  BY <1>1, ZeroLevel, EnteredOK DEF RecvBlocks, SInv, FieldsOK
<1>6. Switch(Blocked(Restored, current), waits) /\ UNCHANGED created
  BY DEF RecvBlocks
<1> HIDE DEF waits
<1> QED BY <1>2, <1>3, <1>4, <1>5, <1>6, SwitchInv

LEMMA RecvInv == SInv /\ IpcRecv => SInv'
BY RecvPendingInv, RecvBlocksInv DEF IpcRecv

\* A new EC: with a full queue the machine stops and the EC is in no queue.
LEMMA SpawnInv ==
  ASSUME SInv, sched.halted = "no", NEW e \in EC, NEW prio \in Levels,
         Spawn(e, prio), UNCHANGED ipcVars, eax' \in [EC -> Int]
  PROVE  SInv'
<1> DEFINE r == [sched EXCEPT !.priority[e] = prio]
<1>1. /\ Sound(sched) /\ Members(sched) = created /\ e \notin created
      /\ sched' = Scheduled(r, e) /\ UNCHANGED <<current, call>>
      /\ created' = IF sched'.halted = "queue full" THEN created
                                                    ELSE created \cup {e}
  BY DEF Spawn, Return, SInv
<1>2. e \notin Queued(sched)
  BY <1>1 DEF Members
<1>3. /\ Sound(r) /\ Members(r) = created /\ r.halted = "no"
      /\ r.current_ec = sched.current_ec
  <2>1. /\ Sound(r) /\ Members(r) = Members(sched)
        /\ r.current_ec = sched.current_ec /\ r.halted = sched.halted
    BY <1>1, <1>2, PrioritySet, ZenonT(30)
  <2> QED BY <1>1, <2>1
<1>4. r.current_ec # NULL
  BY <1>3 DEF SInv
<1> HIDE DEF r
<1>5. FieldsOK'
  BY DEF Spawn, ipcVars, SInv, FieldsOK
<1>6. CASE /\ sched' = [r EXCEPT !.halted = "queue full"]
           /\ Sound(sched') /\ Members(sched') = Members(r)
  <2>1. sched'.halted = "queue full"
    BY <1>3, <1>6 DEF Sound, SchedulerState
  <2> QED BY <1>1, <1>3, <1>5, <1>6, <2>1 DEF SInv, CurrentsAgree, StopsOnlyIdle
<1>7. CASE /\ Sound(sched') /\ Members(sched') = Members(r) \cup {e}
           /\ sched'.current_ec = r.current_ec /\ sched'.halted = r.halted
  BY <1>1, <1>3, <1>5, <1>7 DEF SInv, CurrentsAgree, StopsOnlyIdle
<1> QED BY <1>1, <1>3, <1>4, <1>6, <1>7, ScheduledSound

-----------------------------------------------------------------------------

\* schedule() finds an empty queue and nothing running: the root EC is picked.
LEMMA RootScheduled ==
  ASSUME NEW t, t = Scheduled(EmptyScheduler, RootEc)
  PROVE  /\ Sound(t) /\ Members(t) = {RootEc}
         /\ t.halted = "no" => t.current_ec = RootEc
         /\ t.halted # "no" => /\ t.halted = "no ECs to run"
                               /\ t.current_ec = NULL
                               /\ \A e \in EC : ~ Ready(t, e)
<1> DEFINE s == EmptyScheduler
           r == Enqueue(s, RootEc, FALSE)
<1>1. RootEc \in EC /\ RootEc # NULL
  BY QueueAssumption, SyscallAssumption
<1>2. s.current_ec = NULL /\ s.halted = "no" /\ s.priority[RootEc] = 0
  BY <1>1 DEF EmptyScheduler
<1>3. s.queues[0] = << >>
  BY ZeroLevel DEF EmptyScheduler
<1>4. ~(Len(s.queues[s.priority[RootEc]]) >= MAX_ECS)
  BY <1>2, <1>3, QueueAssumption
<1>5. Sound(s) /\ Members(s) = {}
  BY EmptySound
<1> HIDE DEF s
<1>6. t = Yielded(r)
  BY <1>2, <1>4 DEF Scheduled, s
<1>7. Sound(r) /\ Members(r) = {RootEc} /\ r.halted = "no"
  BY <1>1, <1>2, <1>5, EnqueueSound
<1> HIDE DEF r
<1>8. Dispatched(r, t)
  BY <1>6, <1>7, YieldedSound
<1>9. /\ Sound(t) /\ Members(t) = {RootEc}
      /\ \/ t.halted = "no" /\ t.current_ec \in EC
         \/ /\ t.halted = "no ECs to run" /\ t.current_ec = NULL
            /\ \A e \in EC : ~ Ready(t, e)
  BY <1>7, <1>8 DEF Dispatched
<1>10. t.halted = "no" => t.current_ec = RootEc
  BY <1>1, <1>9, QueueAssumption DEF Members
<1> QED BY <1>9, <1>10

LEMMA EcInitInv == EcInit => SInv
<1> SUFFICES ASSUME EcInit PROVE SInv
  OBVIOUS
<1>1. RootEc \in EC /\ RootEc # NULL
  BY QueueAssumption, SyscallAssumption
<1>2. PICK t : t = Scheduled(EmptyScheduler, RootEc)
  OBVIOUS
<1>3. sched = t
  BY <1>2 DEF EcInit
<1>4. /\ Sound(sched) /\ Members(sched) = {RootEc}
      /\ sched.halted = "no" => sched.current_ec = RootEc
      /\ sched.halted # "no" => /\ sched.halted = "no ECs to run"
                                /\ sched.current_ec = NULL
                                /\ \A e \in EC : ~ Ready(sched, e)
  BY <1>2, <1>3, RootScheduled
<1>5. FieldsOK
  BY ZeroLevel DEF EcInit, FieldsInit, FieldsOK
<1> QED BY <1>1, <1>4, <1>5
        DEF EcInit, FieldsInit, SInv, CurrentsAgree, StopsOnlyIdle, Waits

-----------------------------------------------------------------------------
\* Who waits.

\* The flag in the queue entry says whether an EC waits.
FlagsAgree == \A e \in EC : e \in Asleep(sched) <=> call[e] # Idle

\* The machine runs, or found nobody to run; no queue was full.
Spacious(s) == s.halted \in {"no", "no ECs to run"}

\* The ways to wait are told apart.
LEMMA WaysToWait ==
  /\ Idle # Receiving
  /\ \A t : SendingTo(t) \notin {Idle, Receiving}
  /\ \A t, u : SendingTo(t) = SendingTo(u) => t = u
  /\ \A t : SendingTo(t)[2] = t
BY DEF Idle, Receiving, SendingTo

\* Who calls exists and does not wait.
LEMMA CallerFree ==
  ASSUME SInv, FlagsAgree, NEW c, May(c)
  PROVE  /\ current \in created /\ current \in EC /\ current = sched.current_ec
         /\ call[current] = Idle
         /\ Sound(sched) /\ Members(sched) = created /\ sched.halted = "no"
<1>1. /\ current \in EC /\ current # NULL /\ current = sched.current_ec
      /\ current \notin Queued(sched) /\ Members(sched) = created
      /\ Sound(sched) /\ sched.halted = "no"
  BY Running
<1>2. current \in created
  BY <1>1 DEF Members
<1>3. current \notin Asleep(sched)
  BY <1>1 DEF Asleep, Queued
<1> QED BY <1>1, <1>2, <1>3 DEF FlagsAgree

\* Whoever a dispatch picks does not wait: make_current() changes nobody's wait.
LEMMA SwitchKeepsWaits ==
  ASSUME NEW s, Sound(s), NEW waits \in [EC -> Waits], Switch(s, waits),
         \A e \in EC : e \in Asleep(s) <=> waits[e] # Idle,
         s.halted = "no" => s.current_ec \in EC \ Asleep(s)
  PROVE  sched' = s /\ call' = waits /\ FlagsAgree'
<1>1. sched' = s
  BY DEF Switch
<1>2. call' = waits
  <2>1. CASE s.halted = "no"
    <3>1. waits[s.current_ec] = Idle /\ s.current_ec \in EC
      BY <2>1
    <3> QED BY <2>1, <3>1 DEF Switch
  <2>2. CASE s.halted # "no"
    BY <2>2 DEF Switch
  <2> QED BY <2>1, <2>2
<1> QED BY <1>1, <1>2 DEF FlagsAgree

-----------------------------------------------------------------------------
\* What each call does to waits, flags and priorities.

LEMMA YieldEffect ==
  ASSUME SInv, FlagsAgree, SysYield
  PROVE  /\ FlagsAgree' /\ call' = call
         /\ sched'.priority = sched.priority /\ Spacious(sched')
<1> DEFINE s == Yielded(sched)
<1>1. /\ Sound(sched) /\ sched.halted = "no"
      /\ Switch(s, call) /\ call \in [EC -> Waits]
  BY CallerFree DEF SysYield, SInv
<1>2. Dispatched(sched, s) /\ Asleep(s) = Asleep(sched)
  BY <1>1, YieldedSound, YieldedAsleep
<1>3. s.halted = "no" => s.current_ec \in EC \ Asleep(s)
  BY <1>1, YieldedSound, YieldedAsleep DEF Dispatched
<1> HIDE DEF s
<1>4. Sound(s) /\ s.priority = sched.priority /\ Spacious(s)
  BY <1>1, <1>2 DEF Dispatched, Spacious
<1>5. \A e \in EC : e \in Asleep(s) <=> call[e] # Idle
  BY <1>2 DEF FlagsAgree
<1> QED BY <1>1, <1>3, <1>4, <1>5, SwitchKeepsWaits

LEMMA FastSendEffect ==
  ASSUME SInv, FlagsAgree, NEW t \in EC, NEW value \in Nat, FastSend(t, value)
  PROVE  /\ FlagsAgree' /\ call' = [call EXCEPT ![t] = Idle]
         /\ sched'.priority = sched.priority /\ Spacious(sched')
<1> DEFINE r == Unblocked(sched, t)
           s == Yielded(r)
           waits == [call EXCEPT ![t] = Idle]
<1>1. /\ Sound(sched) /\ sched.halted = "no"
      /\ Switch(s, waits) /\ call \in [EC -> Waits]
  BY CallerFree DEF FastSend, SInv
<1>2. /\ Sound(r) /\ r.halted = "no" /\ r.priority = sched.priority
      /\ Asleep(r) = Asleep(sched) \ {t}
  BY <1>1, MarkedSound, UnblockedAsleep DEF Unblocked
<1> HIDE DEF r
<1>3. /\ Dispatched(r, s) /\ Asleep(s) = Asleep(r)
      /\ s.halted # "no ECs to run" => s.current_ec \notin Asleep(r)
  BY <1>2, YieldedSound, YieldedAsleep
<1> HIDE DEF s
<1>4. /\ Sound(s) /\ s.priority = sched.priority /\ Spacious(s)
      /\ s.halted = "no" => s.current_ec \in EC \ Asleep(s)
  BY <1>2, <1>3 DEF Dispatched, Spacious
<1>5. waits \in [EC -> Waits]
  BY <1>1 DEF Waits
<1>6. \A e \in EC : e \in Asleep(s) <=> waits[e] # Idle
  BY <1>1, <1>2, <1>3 DEF FlagsAgree
<1> HIDE DEF waits
<1>7. sched' = s /\ call' = waits /\ FlagsAgree'
  BY <1>1, <1>4, <1>5, <1>6, SwitchKeepsWaits
<1> QED BY <1>4, <1>7 DEF waits

\* The running EC blocks in a wait w, after a boost or its end led to r.
LEMMA BlocksEffect ==
  ASSUME SInv, FlagsAgree, NEW c, May(c), NEW r, Sound(r), r.halted = "no",
         r.current_ec = current, Asleep(r) = Asleep(sched),
         NEW w \in Waits, w # Idle,
         Switch(Blocked(r, current), [call EXCEPT ![current] = w])
  PROVE  /\ FlagsAgree' /\ call' = [call EXCEPT ![current] = w]
         /\ sched'.priority = r.priority /\ Spacious(sched')
<1> DEFINE s == Blocked(r, current)
           waits == [call EXCEPT ![current] = w]
<1>1. /\ current \in EC /\ current # NULL /\ call \in [EC -> Waits]
  BY CallerFree, QueueAssumption DEF SInv
<1>2. /\ Dispatched(r, s) /\ Asleep(s) = Asleep(r) \cup {current}
      /\ s.halted # "no ECs to run" =>
            s.current_ec \notin Asleep(r) \cup {current}
  BY <1>1, BlockedSound, BlockedAsleep
<1> HIDE DEF s
<1>3. /\ Sound(s) /\ s.priority = r.priority /\ Spacious(s)
      /\ s.halted = "no" => s.current_ec \in EC \ Asleep(s)
  BY <1>2 DEF Dispatched, Spacious
<1>4. waits \in [EC -> Waits]
  BY <1>1
<1>5. \A e \in EC : e \in Asleep(s) <=> waits[e] # Idle
  BY <1>1, <1>2 DEF FlagsAgree
<1>6. Switch(s, waits)
  BY DEF s
<1> HIDE DEF waits
<1>7. sched' = s /\ call' = waits /\ FlagsAgree'
  BY <1>3, <1>4, <1>5, <1>6, SwitchKeepsWaits
<1> QED BY <1>3, <1>7 DEF waits

LEMMA SlowSendEffect ==
  ASSUME SInv, FlagsAgree, NEW t \in EC, NEW value \in Nat, SlowSend(t, value)
  PROVE  /\ FlagsAgree' /\ call' = [call EXCEPT ![current] = SendingTo(t)]
         /\ sched'.priority = IF Boosts(t)
                              THEN [sched.priority EXCEPT
                                       ![t] = sched.priority[current]]
                              ELSE sched.priority
         /\ Spacious(sched')
<1> DEFINE prio == sched.priority[current]
           boosted == Reprioritized(sched, t, prio)
           r == IF Boosts(t) THEN boosted ELSE sched
<1>1. /\ Sound(sched) /\ sched.halted = "no" /\ current \in EC
      /\ current = sched.current_ec /\ May("send")
      /\ Switch(Blocked(r, current), [call EXCEPT ![current] = SendingTo(t)])
  BY CallerFree DEF SlowSend
<1>2. prio \in Levels
  BY <1>1 DEF Sound, SchedulerState
<1> HIDE DEF prio
<1>3. /\ Sound(boosted) /\ boosted.current_ec = current
      /\ boosted.halted = "no"
      /\ boosted.priority = [sched.priority EXCEPT ![t] = prio]
      /\ Asleep(boosted) = Asleep(sched)
  BY <1>1, <1>2, ReprioritizedSound
<1> HIDE DEF boosted
<1>4. /\ Sound(r) /\ r.halted = "no" /\ r.current_ec = current
      /\ Asleep(r) = Asleep(sched)
      /\ r.priority = IF Boosts(t) THEN [sched.priority EXCEPT ![t] = prio]
                                   ELSE sched.priority
  BY <1>1, <1>3
<1> HIDE DEF r
<1>5. SendingTo(t) \in Waits /\ SendingTo(t) # Idle
  BY WaysToWait DEF Waits
<1>6. /\ FlagsAgree' /\ call' = [call EXCEPT ![current] = SendingTo(t)]
      /\ sched'.priority = r.priority /\ Spacious(sched')
  BY <1>1, <1>4, <1>5, BlocksEffect
<1> QED BY <1>4, <1>6 DEF prio

\* Giving a boost back changes nobody else.
LEMMA RestoredEffect ==
  ASSUME SInv, FlagsAgree, May("recv")
  PROVE  /\ Sound(Restored) /\ Restored.current_ec = current
         /\ Restored.halted = "no" /\ Asleep(Restored) = Asleep(sched)
         /\ \A e \in EC \ {current} : Restored.priority[e] = sched.priority[e]
<1> DEFINE r == Reprioritized(sched, current, saved_priority[current])
<1>1. /\ Sound(sched) /\ sched.halted = "no" /\ current \in EC
      /\ current = sched.current_ec /\ saved_priority[current] \in Levels
  BY CallerFree DEF SInv, FieldsOK
<1>2. /\ Sound(r) /\ r.current_ec = current /\ r.halted = "no"
      /\ r.priority = [sched.priority EXCEPT ![current] = saved_priority[current]]
      /\ Asleep(r) = Asleep(sched)
  BY <1>1, ReprioritizedSound
<1> HIDE DEF r
<1>3. Restored = r \/ Restored = sched
  BY DEF Restored, r
<1>4. sched.priority \in [EC -> Levels]
  BY <1>1 DEF Sound, SchedulerState
<1>5. \A e \in EC \ {current} : r.priority[e] = sched.priority[e]
  BY <1>2, <1>4
<1> QED BY <1>1, <1>2, <1>3, <1>5

LEMMA RecvBlocksEffect ==
  ASSUME SInv, FlagsAgree, RecvBlocks
  PROVE  /\ FlagsAgree' /\ call' = [call EXCEPT ![current] = Receiving]
         /\ \A e \in EC \ {current} : sched'.priority[e] = sched.priority[e]
         /\ Spacious(sched')
<1>1. /\ May("recv")
      /\ Switch(Blocked(Restored, current), [call EXCEPT ![current] = Receiving])
  BY DEF RecvBlocks
<1>2. Receiving \in Waits /\ Receiving # Idle
  BY WaysToWait DEF Waits
<1>3. /\ Sound(Restored) /\ Restored.current_ec = current
      /\ Restored.halted = "no" /\ Asleep(Restored) = Asleep(sched)
      /\ \A e \in EC \ {current} : Restored.priority[e] = sched.priority[e]
  BY <1>1, RestoredEffect
<1>4. /\ FlagsAgree' /\ call' = [call EXCEPT ![current] = Receiving]
      /\ sched'.priority = Restored.priority /\ Spacious(sched')
  BY <1>1, <1>2, <1>3, BlocksEffect
<1> QED BY <1>3, <1>4

LEMMA RecvPendingEffect ==
  ASSUME SInv, FlagsAgree, RecvPending
  PROVE  LET sender == pending_sender[current] IN
         /\ sender \in EC
         /\ FlagsAgree' /\ call' = [call EXCEPT ![sender] = Idle]
         /\ \A e \in EC \ {current} : sched'.priority[e] = sched.priority[e]
         /\ pending_sender[sender] # NULL => sched'.priority = sched.priority
         /\ Spacious(sched')
<1> DEFINE sender == pending_sender[current]
           r == IF pending_sender[sender] = NULL THEN Restored ELSE sched
<1>1. /\ May("recv") /\ sender \in EC
      /\ sched' = Unblocked(r, sender)
      /\ call' = [call EXCEPT ![sender] = Idle]
  BY CallerFree DEF RecvPending, SInv, FieldsOK
<1>2. /\ Sound(r) /\ Asleep(r) = Asleep(sched) /\ r.halted = "no"
      /\ \A e \in EC \ {current} : r.priority[e] = sched.priority[e]
      /\ pending_sender[sender] # NULL => r.priority = sched.priority
  BY <1>1, RestoredEffect, CallerFree
<1> HIDE DEF r, sender
<1>3. /\ sched'.priority = r.priority /\ Asleep(sched') = Asleep(sched) \ {sender}
      /\ Spacious(sched')
  BY <1>1, <1>2, MarkedSound, UnblockedAsleep DEF Unblocked, Spacious
<1>4. call \in [EC -> Waits]
  BY DEF SInv
<1>5. FlagsAgree'
  BY <1>1, <1>3, <1>4 DEF FlagsAgree
<1> QED BY <1>1, <1>2, <1>3, <1>5 DEF sender

\* schedule() of an EC that is new.
LEMMA SpawnEffect ==
  ASSUME SInv, FlagsAgree, sched.halted = "no", NEW e \in EC, NEW prio \in Levels,
         Spawn(e, prio)
  PROVE  /\ FlagsAgree' /\ call' = call
         /\ \A x \in EC \ {e} : sched'.priority[x] = sched.priority[x]
         /\ created' \in {created, created \cup {e}}
<1> DEFINE r == [sched EXCEPT !.priority[e] = prio]
<1>1. /\ Sound(sched) /\ Members(sched) = created /\ e \notin created
      /\ sched' = Scheduled(r, e) /\ call' = call
      /\ created' \in {created, created \cup {e}}
  BY DEF Spawn, Return, SInv
<1>2. e \notin Queued(sched)
  BY <1>1 DEF Members
<1>3. /\ Sound(r)
      /\ Members(r) = Members(sched)
      /\ r.current_ec = sched.current_ec
      /\ r.priority = [sched.priority EXCEPT ![e] = prio]
      /\ r.halted = sched.halted
      /\ Asleep(r) = Asleep(sched)
  BY <1>1, <1>2, PrioritySet, Zenon
<1> HIDE DEF r
<1>4. sched'.priority = r.priority
  <2> DEFINE full == [r EXCEPT !.halted = "queue full"]
  <2>1. full.priority = r.priority
    BY <1>3 DEF Sound, SchedulerState
  <2> HIDE DEF full
  <2>2. sched' = full \/ sched'.priority = r.priority
    BY <1>1, <1>3, ScheduledSound DEF full
  <2> QED BY <2>1, <2>2
<1>5. Asleep(sched') = Asleep(sched)
  BY <1>1, <1>3, ScheduledAsleep
<1>6. sched.priority \in [EC -> Levels]
  BY <1>1 DEF Sound, SchedulerState
<1> QED BY <1>1, <1>3, <1>4, <1>5, <1>6 DEF FlagsAgree
===============================================================================
