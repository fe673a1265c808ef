--------------------------- MODULE SchedulingProofs ---------------------------
(***************************************************************************)
(* The safety of the scheduler's contract, for any number of ECs and       *)
(* priorities. The inductive invariant is the conjunction of the three     *)
(* invariants that module Scheduling states: each needs the others.        *)
(***************************************************************************)
EXTENDS Scheduling, RunQueuesProofs

IInv == /\ created \in SUBSET EC
        /\ Sound(sched)
        /\ created = Members(sched)
        /\ IdleMeansBlocked

\* A dispatch ends well wherever the running EC or schedule() asked for it.
LEMMA DispatchedInv ==
  ASSUME NEW s, Dispatched(s, sched'), s.halted = "no",
         created' \in SUBSET EC, created' = Members(s)
  PROVE  IInv'
<1>1. sched'.current_ec \in EC => sched'.current_ec # NULL
  BY QueueAssumption
<1> QED BY <1>1 DEF Dispatched, IInv, IdleMeansBlocked

\* A call that dispatches nothing leaves the running EC and the machine alone.
LEMMA UndispatchedInv ==
  ASSUME IInv, Up, Sound(sched'), Members(sched') = Members(sched),
         sched'.current_ec = sched.current_ec, sched'.halted = sched.halted,
         UNCHANGED created
  PROVE  IInv'
BY DEF IInv, IdleMeansBlocked, Up

LEMMA InitIInv == Init => IInv
<1> SUFFICES ASSUME Init PROVE IInv
  OBVIOUS
<1>1. Sound(EmptyScheduler) /\ Members(EmptyScheduler) = {}
  BY EmptySound
<1>2. EmptyScheduler.halted = "no"
  BY DEF EmptyScheduler
<1> QED BY <1>1, <1>2 DEF Init, IInv, IdleMeansBlocked

LEMMA NextIInv == IInv /\ [Next]_vars => IInv'
<1> SUFFICES ASSUME IInv, [Next]_vars PROVE IInv'
  OBVIOUS
<1>0. Sound(sched) /\ created \in SUBSET EC /\ created = Members(sched)
  BY DEF IInv
<1>1. ASSUME NEW e \in EC, NEW prio \in Levels, Schedule(e, prio)
      PROVE  IInv'
  <2> DEFINE r == [sched EXCEPT !.priority[e] = prio]
  <2>1. /\ sched.halted = "no" /\ e \notin Members(sched)
        /\ sched.current_ec # NULL \/ created = {}
        /\ sched' = Scheduled(r, e)
        /\ created' = IF sched'.halted = "queue full" THEN created
                                                      ELSE created \cup {e}
    BY <1>0, <1>1 DEF Schedule
  <2>2. e \notin Queued(sched)
    BY <2>1 DEF Members
  <2>3. /\ Sound(r) /\ Members(r) = Members(sched)
        /\ r.current_ec = sched.current_ec /\ r.halted = "no"
    <3>1. /\ Sound(r)
          /\ Members(r) = Members(sched)
          /\ r.current_ec = sched.current_ec
          /\ r.halted = sched.halted
      BY <1>0, <2>2, PrioritySet
    <3> QED BY <2>1, <3>1
  <2> HIDE DEF r
  <2>4. CASE /\ sched' = [r EXCEPT !.halted = "queue full"]
             /\ Sound(sched') /\ Members(sched') = Members(r)
    <3>1. sched'.halted = "queue full"
      BY <2>3, <2>4 DEF Sound, SchedulerState
    <3> QED BY <1>0, <2>1, <2>3, <2>4, <3>1 DEF IInv, IdleMeansBlocked
  <2>5. CASE /\ r.current_ec # NULL /\ Sound(sched')
             /\ Members(sched') = Members(r) \cup {e}
             /\ sched'.current_ec = r.current_ec /\ sched'.halted = r.halted
    BY <1>0, <2>1, <2>3, <2>5 DEF IInv, IdleMeansBlocked
  <2>6. CASE /\ r.current_ec = NULL
             /\ Dispatched(Enqueue(r, e, FALSE), sched')
             /\ Members(sched') = Members(r) \cup {e}
             /\ sched'.halted \in {r.halted, "no ECs to run"}
    <3>1. created' = Members(sched') /\ created' \in SUBSET EC
      BY <1>0, <2>1, <2>3, <2>6
    <3>2. Enqueue(r, e, FALSE).halted = "no"
      BY <2>1, <2>3, EnqueueSound
    <3>3. Members(sched') = Members(Enqueue(r, e, FALSE))
      BY <2>6 DEF Dispatched
    <3> QED BY <2>6, <3>1, <3>2, <3>3, DispatchedInv
  <2> QED BY <2>1, <2>3, <2>4, <2>5, <2>6, ScheduledSound
<1>2. CASE Yield
  <2>1. Dispatched(sched, sched') /\ sched.halted = "no" /\ UNCHANGED created
    BY <1>0, <1>2, YieldedSound DEF Yield, Up
  <2> QED BY <1>0, <2>1, DispatchedInv
<1>3. CASE UnblockAll
  <2>1. /\ Sound(sched') /\ Members(sched') = Members(sched)
        /\ sched'.current_ec = sched.current_ec /\ sched'.halted = sched.halted
        /\ Up /\ UNCHANGED created
    BY <1>0, <1>3, AllUnblockedSound DEF UnblockAll
  <2> QED BY <2>1, UndispatchedInv
<1>4. ASSUME NEW e \in created, Block(e) PROVE IInv'
  <2>1. e \in EC /\ Up /\ sched' = Blocked(sched, e) /\ UNCHANGED created
    BY <1>0, <1>4 DEF Block
  <2>2. CASE e = sched.current_ec
    <3>1. Dispatched(sched, sched')
      BY <1>0, <2>1, <2>2, BlockedSound
    <3> QED BY <1>0, <2>1, <3>1, DispatchedInv DEF Up
  <2>3. CASE e # sched.current_ec
    <3>1. /\ Sound(sched') /\ Members(sched') = Members(sched)
          /\ sched'.current_ec = sched.current_ec /\ sched'.halted = sched.halted
      BY <1>0, <2>1, <2>3, BlockedSound
    <3> QED BY <2>1, <3>1, UndispatchedInv
  <2> QED BY <2>2, <2>3
<1>5. ASSUME NEW e \in created, Unblock(e) PROVE IInv'
  <2>1. e \in EC /\ Up /\ sched' = Marked(sched, e, FALSE) /\ UNCHANGED created
    BY <1>0, <1>5 DEF Unblock, Unblocked
  <2>2. /\ Sound(sched') /\ Members(sched') = Members(sched)
        /\ sched'.current_ec = sched.current_ec /\ sched'.halted = sched.halted
    BY <1>0, <2>1, MarkedSound
  <2> QED BY <2>1, <2>2, UndispatchedInv
<1>6. ASSUME NEW e \in created, NEW prio \in Levels, Reprioritize(e, prio)
      PROVE  IInv'
  <2>1. e \in EC /\ Up /\ sched' = Reprioritized(sched, e, prio) /\ UNCHANGED created
    BY <1>0, <1>6 DEF Reprioritize
  <2>2. /\ Sound(sched') /\ Members(sched') = Members(sched)
        /\ sched'.current_ec = sched.current_ec /\ sched'.halted = sched.halted
    BY <1>0, <2>1, ReprioritizedSound
  <2> QED BY <2>1, <2>2, UndispatchedInv
<1>7. CASE UNCHANGED vars
  BY <1>7 DEF vars, IInv, IdleMeansBlocked
<1> QED BY <1>1, <1>2, <1>3, <1>4, <1>5, <1>6, <1>7 DEF Next

\* The inductive invariant holds in every state the scheduler reaches.
THEOREM Inductive == Spec => []IInv
BY InitIInv, NextIInv, PTL DEF Spec

-----------------------------------------------------------------------------
\* What it is for.

\* The scheduler's state is well formed (scheduler.h:11-18) whatever its
\* callers do.
THEOREM TypeCorrect == Spec => []TypeOK
<1>1. IInv => TypeOK
  BY DEF IInv, Sound, TypeOK
<1> QED BY <1>1, Inductive, PTL

\* No call of a Scheduler method loses an EC, doubles one, or leaves one in
\* the queue of another priority than its own.
THEOREM NothingLost == Spec => []Accounting
<1>1. IInv => Accounting
  BY DEF IInv, Sound, Accounting
<1> QED BY <1>1, Inductive, PTL

\* The panic for want of an EC to run comes only when all are blocked.
THEOREM PanicOnlyIdle == Spec => []IdleMeansBlocked
<1>1. IInv => IdleMeansBlocked
  BY DEF IInv
<1> QED BY <1>1, Inductive, PTL

\* Whoever gets the processor is of the highest priority that could run.
THEOREM StrictPriorities == Spec => HighestPriorityRuns
<1>1. ASSUME IInv, [Next]_vars
      PROVE  [sched'.current_ec \notin {sched.current_ec, NULL} =>
                \A p \in Levels : Runnable(sched'.queues[p]) # {} =>
                       sched'.priority[sched'.current_ec] <= p]_vars
  <2>0. Sound(sched) /\ created \in SUBSET EC /\ created = Members(sched)
    BY <1>1 DEF IInv
  <2> SUFFICES ASSUME sched'.current_ec \notin {sched.current_ec, NULL}
               PROVE  TopRuns(sched')
    BY DEF TopRuns
  <2>1. ASSUME NEW s, Dispatched(s, sched') PROVE TopRuns(sched')
    BY <2>1 DEF Dispatched
  <2>2. ASSUME NEW e \in EC, NEW prio \in Levels, Schedule(e, prio)
        PROVE  TopRuns(sched')
    <3> DEFINE r == [sched EXCEPT !.priority[e] = prio]
    <3>1. e \notin Members(sched) /\ sched' = Scheduled(r, e)
      BY <2>0, <2>2 DEF Schedule
    <3>2. e \notin Queued(sched)
      BY <3>1 DEF Members
    <3>3. /\ Sound(r) /\ Members(r) = Members(sched)
          /\ r.current_ec = sched.current_ec
      BY <2>0, <3>1, <3>2, PrioritySet
    <3> HIDE DEF r
    <3>4. sched' = [r EXCEPT !.halted = "queue full"] =>
             sched'.current_ec = sched.current_ec
      BY <3>3 DEF Sound, SchedulerState
    <3> QED BY <2>1, <3>1, <3>3, <3>4, ScheduledSound
  <2>3. CASE Yield
    BY <2>0, <2>1, <2>3, YieldedSound DEF Yield
  <2>4. CASE UnblockAll
    BY <2>0, <2>4, AllUnblockedSound DEF UnblockAll
  <2>5. ASSUME NEW e \in created, Block(e) PROVE TopRuns(sched')
    BY <2>0, <2>1, <2>5, BlockedSound DEF Block
  <2>6. ASSUME NEW e \in created, Unblock(e) PROVE TopRuns(sched')
    BY <2>0, <2>6, MarkedSound DEF Unblock, Unblocked
  <2>7. ASSUME NEW e \in created, NEW prio \in Levels, Reprioritize(e, prio)
        PROVE  TopRuns(sched')
    BY <2>0, <2>7, ReprioritizedSound DEF Reprioritize
  <2>8. CASE UNCHANGED vars
    BY <2>8 DEF vars
  <2> QED BY <1>1, <2>2, <2>3, <2>4, <2>5, <2>6, <2>7, <2>8 DEF Next
<1> QED BY <1>1, Inductive, PTL DEF Spec, HighestPriorityRuns

\* Whatever rotates through a queue, no EC that can run overtakes another.
THEOREM NoOvertaking == Spec => FifoAmongReady
<1>1. ASSUME IInv, [Next]_vars
      PROVE  [(~ \E e \in created, prio \in Levels : Reprioritize(e, prio)) =>
                \A p \in Levels :
                   \A i1, i2 \in 1 .. Len(sched.queues[p]) :
                      \A j1, j2 \in 1 .. Len(sched'.queues[p]) :
                         StaysReady(p, i1, j1) /\ StaysReady(p, i2, j2) /\ i1 < i2
                             => j1 < j2]_vars
  <2>0. Sound(sched) /\ created \in SUBSET EC /\ created = Members(sched)
    BY <1>1 DEF IInv
  <2> SUFFICES ASSUME ~ \E e \in created, prio \in Levels : Reprioritize(e, prio)
               PROVE  KeepsOrder(sched, sched')
    BY DEF KeepsOrder, StaysReady
  <2>1. ASSUME NEW e \in EC, NEW prio \in Levels, Schedule(e, prio)
        PROVE  KeepsOrder(sched, sched')
    <3> DEFINE r == [sched EXCEPT !.priority[e] = prio]
    <3>1. e \notin Members(sched) /\ sched' = Scheduled(r, e)
      BY <2>0, <2>1 DEF Schedule
    <3>2. e \notin Queued(sched)
      BY <3>1 DEF Members
    <3>3. Sound(r) /\ Members(r) = Members(sched)
      BY <2>0, <3>1, <3>2, PrioritySet
    <3>4. r.queues = sched.queues
      BY <2>0 DEF Sound, SchedulerState
    <3> HIDE DEF r
    <3>5. KeepsOrder(r, sched')
      BY <3>1, <3>3, ScheduledOrder
    <3> QED BY <3>4, <3>5 DEF KeepsOrder
  <2>2. CASE Yield
    BY <2>0, <2>2, YieldedOrder DEF Yield
  <2>3. CASE UnblockAll
    BY <2>0, <2>3, AllUnblockedSound, SamePlaceOrder DEF UnblockAll
  <2>4. ASSUME NEW e \in created, Block(e) PROVE KeepsOrder(sched, sched')
    BY <2>0, <2>4, BlockedOrder DEF Block
  <2>5. ASSUME NEW e \in created, Unblock(e) PROVE KeepsOrder(sched, sched')
    BY <2>0, <2>5, MarkedOrder DEF Unblock, Unblocked
  <2>6. CASE UNCHANGED vars
    <3>1. SamePlace(sched, sched')
      BY <2>6 DEF vars, SamePlace
    <3> QED BY <2>0, <3>1, SamePlaceOrder
  <2> QED BY <1>1, <2>1, <2>2, <2>3, <2>4, <2>5, <2>6 DEF Next
<1> QED BY <1>1, Inductive, PTL DEF Spec, FifoAmongReady
==============================================================================
