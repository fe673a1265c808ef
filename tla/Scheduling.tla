----------------------------- MODULE Scheduling ------------------------------
(***************************************************************************)
(* What the scheduler promises: a FIFO of unbounded length per priority,   *)
(* and strict priorities between them. An action is one call of a          *)
(* Scheduler method (kern/include/scheduler.h:23-30), made by the kernel   *)
(* on behalf of the EC that runs; the kernel runs with interrupts off, so  *)
(* a call is one step. Module Scheduler is the ring buffer the code keeps  *)
(* the queues in; module Kernel drives the same operators from the         *)
(* system calls.                                                           *)
(***************************************************************************)
EXTENDS RunQueues

VARIABLES
    sched,   \* the scheduler's state, see RunQueues
    created  \* the ECs handed to schedule() so far

vars == <<sched, created>>

\* Code runs only while some EC is running and the machine is up.
Up == sched.halted = "no" /\ sched.current_ec # NULL

Init == sched = EmptyScheduler /\ created = {}

\* A new EC; the first one is scheduled by root_invoke with nothing running.
Schedule(e, prio) ==
    /\ sched.halted = "no"
    /\ sched.current_ec # NULL \/ created = {}
    /\ e \notin created
    /\ sched' = Scheduled([sched EXCEPT !.priority[e] = prio], e)
    /\ created' = IF sched'.halted = "queue full" THEN created
                                                  ELSE created \cup {e}

Yield == Up /\ sched' = Yielded(sched) /\ UNCHANGED created

Block(e) == Up /\ sched' = Blocked(sched, e) /\ UNCHANGED created

Unblock(e) == Up /\ sched' = Unblocked(sched, e) /\ UNCHANGED created

UnblockAll == Up /\ sched' = AllUnblocked(sched) /\ UNCHANGED created

\* The callers raise an EC or put it back (syscall.cc:217-219, 247, 257): none
\* passes the priority the EC already has.
Reprioritize(e, prio) ==
    /\ Up
    /\ prio # sched.priority[e]
    /\ sched' = Reprioritized(sched, e, prio)
    /\ UNCHANGED created

Next ==
    \/ \E e \in EC, prio \in Levels : Schedule(e, prio)
    \/ Yield
    \/ UnblockAll
    \/ \E e \in created : Block(e) \/ Unblock(e)
    \/ \E e \in created, prio \in Levels : Reprioritize(e, prio)

Spec == Init /\ [][Next]_vars

\* Every EC that gets the processor gives it up again by a call of its own:
\* scheduling is cooperative, no timer takes it away.
FairSpec == Spec /\ WF_vars(Yield)

-----------------------------------------------------------------------------
\* Safety.

\* The state is well formed: scheduler.h:11-18 with the queues as sequences.
TypeOK == sched \in SchedulerState /\ created \in SUBSET EC

\* The accounting of the run queues. Every EC that was scheduled is running or
\* in exactly one place of the queue of its own priority: none is lost, none
\* doubled, and the loops of block, unblock and reprioritize, which look in
\* that queue alone (scheduler.cc:77, 90, 112), find every EC that waits.
Accounting == OnePlace(sched) /\ created = Members(sched)

\* The panic of scheduler.cc:60 is right: the machine stops for want of an EC
\* to run only when every EC is blocked, and otherwise one is running.
IdleMeansBlocked ==
    /\ sched.halted = "no ECs to run" => \A e \in EC : ~Ready(sched, e)
    /\ sched.halted = "no" /\ created # {} => sched.current_ec # NULL

-----------------------------------------------------------------------------
\* Action properties.

\* When the processor changes hands, the EC that gets it has the highest
\* priority among those that could run (scheduler.cc:32-57).
HighestPriorityRuns ==
    [][sched'.current_ec \notin {sched.current_ec, NULL} =>
          \A p \in Levels : Runnable(sched'.queues[p]) # {} =>
                               sched'.priority[sched'.current_ec] <= p]_vars

\* Entry i of queue p stays, runnable, at position j of that queue.
StaysReady(p, i, j) ==
    /\ i \in Runnable(sched.queues[p])
    /\ j \in Runnable(sched'.queues[p])
    /\ sched.queues[p][i].ec = sched'.queues[p][j].ec

\* The rotation of blocked entries never lets one runnable EC overtake
\* another of its priority; only a reprioritize() sends one to the back.
FifoAmongReady ==
    [][(~ \E e \in created, prio \in Levels : Reprioritize(e, prio)) =>
       \A p \in Levels :
          \A i1, i2 \in 1 .. Len(sched.queues[p]) :
             \A j1, j2 \in 1 .. Len(sched'.queues[p]) :
                StaysReady(p, i1, j1) /\ StaysReady(p, i2, j2) /\ i1 < i2
                    => j1 < j2]_vars

-----------------------------------------------------------------------------
\* Liveness.

WaitsOnTop(e) == \E i \in Runnable(sched.queues[0]) : sched.queues[0][i].ec = e

\* Round robin: an EC that waits at the highest priority gets the processor,
\* unless it is blocked or moved meanwhile, whatever the others block,
\* unblock and reprioritize (user.cc:9-10 excepts the lower priorities).
TopPriorityServed ==
    \A e \in EC : WaitsOnTop(e) ~> (~WaitsOnTop(e))
==============================================================================
