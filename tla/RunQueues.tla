------------------------------ MODULE RunQueues ------------------------------
(***************************************************************************)
(* The run queues of the kernel's scheduler (kern/src/scheduler.cc) as     *)
(* pure operators on a record, the scheduler's state:                      *)
(*                                                                         *)
(*   queues      one FIFO per priority of entries [ec, blocked]            *)
(*   current_ec  the EC the scheduler takes to be running, or NULL         *)
(*   priority    Ec::priority of every EC                                  *)
(*   halted      "no", or the panic() that shut the machine down           *)
(*                                                                         *)
(* A queue is a sequence here: module Scheduler models the ring buffer the *)
(* code keeps it in, and is checked to implement these operators as long   *)
(* as at most MAX_ECS ECs exist.                                           *)
(***************************************************************************)
EXTENDS Integers, Sequences

CONSTANTS
    EC,             \* the execution contexts that may ever be created
    NULL,           \* nullptr
    NUM_PRIORITIES, \* number of run queues; 0 is the highest priority
    MAX_ECS         \* slots of one queue

\* The priorities yield() scans, in the order it scans them.
Levels == 0 .. NUM_PRIORITIES - 1

ASSUME QueueAssumption == /\ NUM_PRIORITIES \in Nat \ {0}
                          /\ MAX_ECS \in Nat \ {0}
                          /\ NULL \notin EC

\* What panic() reports before Cpu::shutdown(); "no" while the kernel runs.
Halts == {"no", "queue full", "no ECs to run", "page fault"}

Entry == [ec : EC, blocked : BOOLEAN]

SchedulerState == [queues     : [Levels -> Seq(Entry)],
                   current_ec : EC \cup {NULL},
                   priority   : [EC -> Levels],
                   halted     : Halts]

\* Mutant: class Ec starts at the number of priorities.
BeyondPriorities == [queues     |-> [p \in Levels |-> << >>],
                     current_ec |-> NULL,
                     priority   |-> [e \in EC |-> NUM_PRIORITIES],
                     halted     |-> "no"]

EmptyScheduler == [queues     |-> [p \in Levels |-> << >>],
                   current_ec |-> NULL,
                   priority   |-> [e \in EC |-> 0],
                   halted     |-> "no"]

-----------------------------------------------------------------------------

\* Mutant: the queue is a stack.
EnqueueInFront(s, e, b) ==
    [s EXCEPT !.queues[s.priority[e]] = <<[ec |-> e, blocked |-> b]>> \o @]

\* slots[tail] = ec, blocked[tail] = b, advance tail, count++.
Enqueue(s, e, b) ==
    [s EXCEPT !.queues[s.priority[e]] = Append(@, [ec |-> e, blocked |-> b])]

Runnable(q) == {i \in 1 .. Len(q) : ~q[i].blocked}

FirstOf(indices) == CHOOSE i \in indices : \A j \in indices : i <= j

\* Mutant: the last entry fills the gap.
TakeOutBySwap(q, i) ==
    [k \in 1 .. Len(q) - 1 |-> IF k = i THEN q[Len(q)] ELSE q[k]]

\* The entries the scan passes over are rotated to the tail one by one, the
\* first runnable one is taken out.
TakeOut(q, i) == SubSeq(q, i + 1, Len(q)) \o SubSeq(q, 1, i - 1)

\* Mutant: the scan leaves the lowest priority out.
DispatchButLowest(s) ==
    LET ready == {p \in Levels \ {NUM_PRIORITIES - 1} : Runnable(s.queues[p]) # {}}
        p     == FirstOf(ready)
        i     == FirstOf(Runnable(s.queues[p]))
    IN  IF ready = {}
        THEN [s EXCEPT !.halted = "no ECs to run"]
        ELSE [s EXCEPT !.current_ec = s.queues[p][i].ec,
                       !.queues[p]  = TakeOut(@, i)]

\* Mutant: the scan runs the other way.
DispatchLowestFirst(s) ==
    LET ready == {p \in Levels : Runnable(s.queues[p]) # {}}
        p     == CHOOSE l \in ready : \A r \in ready : r <= l
        i     == FirstOf(Runnable(s.queues[p]))
    IN  IF ready = {}
        THEN [s EXCEPT !.halted = "no ECs to run"]
        ELSE [s EXCEPT !.current_ec = s.queues[p][i].ec,
                       !.queues[p]  = TakeOut(@, i)]

\* The scan of yield(): the first runnable entry of the highest priority that
\* has one. A queue whose entries are all blocked comes round to itself.
Dispatch(s) ==
    LET ready == {p \in Levels : Runnable(s.queues[p]) # {}}
        p     == FirstOf(ready)
        i     == FirstOf(Runnable(s.queues[p]))
    IN  IF ready = {}
        THEN [s EXCEPT !.halted = "no ECs to run"]
        ELSE [s EXCEPT !.current_ec = s.queues[p][i].ec,
                       !.queues[p]  = TakeOut(@, i)]

\* The running EC goes to the tail of its own queue, blocked or not.
Preempted(s, b) == Enqueue([s EXCEPT !.current_ec = NULL], s.current_ec, b)

\* Scheduler::yield()
Yielded(s) ==
    Dispatch(IF s.current_ec = NULL THEN s ELSE Preempted(s, FALSE))

Positions(s, e) ==
    {i \in 1 .. Len(s.queues[s.priority[e]]) : s.queues[s.priority[e]][i].ec = e}

\* The loops of block() and unblock(): the first entry of ec in its own queue
\* gets the flag; an EC that is in no queue is left alone.
Marked(s, e, b) ==
    IF Positions(s, e) = {}
    THEN s
    ELSE [s EXCEPT !.queues[s.priority[e]][FirstOf(Positions(s, e))].blocked = b]

\* Scheduler::block(ec). The yield() it ends with finds current_ec cleared.
Blocked(s, e) ==
    IF e = s.current_ec THEN Dispatch(Preempted(s, TRUE)) ELSE Marked(s, e, TRUE)

\* Scheduler::unblock(ec)
Unblocked(s, e) == Marked(s, e, FALSE)

\* Scheduler::unblock_all()
AllUnblocked(s) ==
    [s EXCEPT !.queues = [p \in Levels |->
        [i \in 1 .. Len(s.queues[p]) |->
            [ec |-> s.queues[p][i].ec, blocked |-> FALSE]]]]

\* The compaction loop of reprioritize(): later entries move down by one.
Without(q, i) == SubSeq(q, 1, i - 1) \o SubSeq(q, i + 1, Len(q))

\* Mutant: the old entry stays.
ReprioritizedTwice(s, e, new_prio) ==
    IF Positions(s, e) = {}
    THEN [s EXCEPT !.priority[e] = new_prio]
    ELSE Enqueue([s EXCEPT !.priority[e] = new_prio], e, FALSE)

\* Scheduler::reprioritize(ec, new_prio)
Reprioritized(s, e, new_prio) ==
    LET q       == s.queues[s.priority[e]]
        i       == FirstOf(Positions(s, e))
        removed == [s EXCEPT !.queues[s.priority[e]] = Without(q, i),
                             !.priority[e] = new_prio]
    IN  IF Positions(s, e) = {}
        THEN [s EXCEPT !.priority[e] = new_prio]
        ELSE Enqueue(removed, e, q[i].blocked)

\* Scheduler::schedule(ec): the only enqueue that looks for a free slot.
Scheduled(s, e) ==
    IF Len(s.queues[s.priority[e]]) >= MAX_ECS
    THEN [s EXCEPT !.halted = "queue full"]
    ELSE IF s.current_ec = NULL
         THEN Yielded(Enqueue(s, e, FALSE))
         ELSE Enqueue(s, e, FALSE)

-----------------------------------------------------------------------------

\* The ECs some queue holds an entry of.
Queued(s) == {e \in EC : \E p \in Levels :
                            \E i \in 1 .. Len(s.queues[p]) : s.queues[p][i].ec = e}

\* The ECs the scheduler knows: one runs, the others wait.
Members(s) == Queued(s) \cup ({s.current_ec} \ {NULL})

\* ec has an entry that yield() may pick.
Ready(s, e) == \E p \in Levels : \E i \in Runnable(s.queues[p]) :
                    s.queues[p][i].ec = e

\* An EC is in at most one place of at most one queue, never in a queue while
\* it runs, and always in the queue of the priority it has.
OnePlace(s) ==
    \A p \in Levels : \A i \in 1 .. Len(s.queues[p]) :
        LET e == s.queues[p][i].ec IN
        /\ s.priority[e] = p
        /\ e # s.current_ec
        /\ \A j \in 1 .. Len(s.queues[p]) : s.queues[p][j].ec = e => j = i
==============================================================================
