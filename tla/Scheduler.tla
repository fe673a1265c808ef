----------------------------- MODULE Scheduler -------------------------------
(***************************************************************************)
(* The scheduler as scheduler.cc keeps it: per priority a ring buffer of   *)
(* MAX_ECS slots with head, tail and count. Every method is one action and *)
(* follows its loops, index arithmetic included, so the model also says    *)
(* what happens beyond MAX_ECS entries: only schedule() looks whether the  *)
(* ring is full (scheduler.cc:8), yield(), block() and reprioritize()      *)
(* write slots[tail] without a look.                                       *)
(***************************************************************************)
EXTENDS RunQueues

VARIABLES
    rings,      \* Scheduler::queues, one Queue per priority
    current_ec, \* Scheduler::current_ec
    priority,   \* Ec::priority of every EC
    halted,     \* the panic that stopped the machine, or "no"
    created     \* the ECs handed to schedule() so far

vars == <<rings, current_ec, priority, halted, created>>

Slot == 0 .. MAX_ECS - 1

\* struct Queue. A slot keeps a stale pointer after its entry has left.
Ring == [slots   : [Slot -> EC \cup {NULL}],
         blocked : [Slot -> BOOLEAN],
         head    : Slot,
         tail    : Slot,
         count   : Nat]

EmptyRing == [slots   |-> [i \in Slot |-> NULL],
              blocked |-> [i \in Slot |-> FALSE],
              head    |-> 0,
              tail    |-> 0,
              count   |-> 0]

\* The slot i places behind slot k.
After(k, i) == (k + i) % MAX_ECS

\* slots[tail] = ec; blocked[tail] = b; tail = (tail + 1) % MAX_ECS
Put(q, e, b) == [q EXCEPT !.slots[q.tail]   = e,
                          !.blocked[q.tail] = b,
                          !.tail            = After(q.tail, 1)]

Push(q, e, b) == [Put(q, e, b) EXCEPT !.count = q.count + 1]

\* Mutant: slots[tail] is not written (scheduler.cc:52).
RotateIndicesOnly(q) ==
    [q EXCEPT !.head            = After(q.head, 1),
              !.blocked[q.tail] = TRUE,
              !.tail            = After(q.tail, 1)]

\* Mutant: the flag is lost on the way to the tail.
RotateUnblocked(q) ==
    Put([q EXCEPT !.head = After(q.head, 1)], q.slots[q.head], FALSE)

\* One turn of the scan that meets a blocked entry: head to tail.
Rotate(q) ==
    Put([q EXCEPT !.head = After(q.head, 1)], q.slots[q.head], TRUE)

\* The ring after t turns that all met a blocked entry.
Turned(q) == LET turn[t \in 0 .. q.count] ==
                     IF t = 0 THEN q ELSE Rotate(turn[t - 1])
             IN  turn

\* The turns at which the scan meets a runnable entry; it stops at the first.
Stops(q) == {t \in 0 .. q.count - 1 :
                ~Turned(q)[t].blocked[Turned(q)[t].head]}

\* The loop of scheduler.cc:40-55: the ring it leaves and the EC it takes.
Taken(q) ==
    LET r == Turned(q)[FirstOf(Stops(q))]
    IN  [ring |-> [r EXCEPT !.head = After(r.head, 1), !.count = r.count - 1],
         ec   |-> r.slots[r.head]]

\* yield()'s scan over the rings rs: priorities above the one that has a
\* runnable EC are rotated once round.
Scan(rs, prio, halt) ==
    LET ready == {p \in Levels : Stops(rs[p]) # {}}
        p     == FirstOf(ready)
    IN  /\ halted' = IF ready = {} THEN "no ECs to run" ELSE halt
        /\ current_ec' = IF ready = {} THEN NULL ELSE Taken(rs[p]).ec
        /\ rings' = [r \in Levels |->
                        IF ready # {} /\ r > p THEN rs[r]
                        ELSE IF ready # {} /\ r = p THEN Taken(rs[r]).ring
                        ELSE Turned(rs[r])[rs[r].count]]
        /\ priority' = prio

PushCurrent(b) ==
    [rings EXCEPT ![priority[current_ec]] = Push(@, current_ec, b)]

Up == halted = "no" /\ current_ec # NULL

-----------------------------------------------------------------------------

Init == /\ rings = [p \in Levels |-> EmptyRing]
        /\ current_ec = NULL
        /\ priority = [e \in EC |-> 0]
        /\ halted = "no"
        /\ created = {}

\* Scheduler::schedule(ec), with the priority the constructor gave the EC
Schedule(e, prio) ==
    /\ halted = "no"
    /\ current_ec # NULL \/ created = {}
    /\ e \notin created
    /\ LET given  == [priority EXCEPT ![e] = prio]
           pushed == [rings EXCEPT ![prio] = Push(@, e, FALSE)]
       IN  IF rings[prio].count >= MAX_ECS
           THEN /\ halted' = "queue full"
                /\ priority' = given
                /\ UNCHANGED <<rings, current_ec, created>>
           ELSE /\ created' = created \cup {e}
                /\ IF current_ec = NULL
                   THEN Scan(pushed, given, halted)
                   ELSE /\ rings' = pushed
                        /\ priority' = given
                        /\ UNCHANGED <<current_ec, halted>>

\* Scheduler::yield()
Yield == Up /\ Scan(PushCurrent(FALSE), priority, halted) /\ UNCHANGED created

\* The indices, counted from the head, at which a ring names ec.
Found(q, e) == {i \in 0 .. q.count - 1 : q.slots[After(q.head, i)] = e}

\* The loops of block() and unblock() over ec's queue.
SetFlag(e, b) ==
    LET q == rings[priority[e]]
    IN  IF Found(q, e) = {}
        THEN rings
        ELSE [rings EXCEPT ![priority[e]].blocked[
                 After(q.head, FirstOf(Found(q, e)))] = b]

\* Scheduler::block(ec)
Block(e) ==
    /\ Up
    /\ IF e = current_ec
       THEN Scan(PushCurrent(TRUE), priority, halted)
       ELSE rings' = SetFlag(e, TRUE) /\ UNCHANGED <<current_ec, priority, halted>>
    /\ UNCHANGED created

\* Scheduler::unblock(ec)
Unblock(e) ==
    /\ Up
    /\ rings' = SetFlag(e, FALSE)
    /\ UNCHANGED <<current_ec, priority, halted, created>>

\* Scheduler::unblock_all(): the count slots from the head on.
UnblockAll ==
    /\ Up
    /\ rings' = [p \in Levels |-> [rings[p] EXCEPT !.blocked =
                    [k \in Slot |->
                        IF \E i \in 0 .. rings[p].count - 1 :
                              k = After(rings[p].head, i)
                        THEN FALSE ELSE @[k]]]]
    /\ UNCHANGED <<current_ec, priority, halted, created>>

\* Mutant: tail stays where it was.
CompactedTailKept(q, i) ==
    [q EXCEPT !.slots = [k \in Slot |->
                  IF \E j \in i .. q.count - 2 : k = After(q.head, j)
                  THEN q.slots[After(k, 1)] ELSE q.slots[k]],
              !.count = q.count - 1]

\* Mutant: tail does not wrap below zero.
CompactedTailNegative(q, i) ==
    [CompactedTailKept(q, i) EXCEPT !.tail = q.tail - 1]

\* The inner loop of reprioritize(), one copy at a time from place i on.
Compacted(q, i) ==
    LET from(j)    == After(q.head, j + 1)
        to(j)      == After(q.head, j)
        shift[n \in i .. q.count - 1] ==
            IF n = i THEN q
            ELSE [shift[n - 1] EXCEPT
                    !.slots[to(n - 1)]   = shift[n - 1].slots[from(n - 1)],
                    !.blocked[to(n - 1)] = shift[n - 1].blocked[from(n - 1)]]
    IN  [shift[q.count - 1] EXCEPT !.tail  = (q.tail - 1 + MAX_ECS) % MAX_ECS,
                                   !.count = q.count - 1]

\* Scheduler::reprioritize(ec, new_prio); no caller passes the priority the EC
\* already has (syscall.cc:217-219, 247, 257).
Reprioritize(e, prio) ==
    /\ Up
    /\ prio # priority[e]
    /\ LET q == rings[priority[e]]
           i == FirstOf(Found(q, e))
       IN  rings' = IF Found(q, e) = {} THEN rings
                    ELSE [rings EXCEPT
                            ![priority[e]] = Compacted(q, i),
                            ![prio] = Push(@, e, q.blocked[After(q.head, i)])]
    /\ priority' = [priority EXCEPT ![e] = prio]
    /\ UNCHANGED <<current_ec, halted, created>>

Next ==
    \/ \E e \in EC, prio \in Levels : Schedule(e, prio)
    \/ Yield
    \/ UnblockAll
    \/ \E e \in created : Block(e) \/ Unblock(e)
    \/ \E e \in created, prio \in Levels : Reprioritize(e, prio)

Spec == Init /\ [][Next]_vars

-----------------------------------------------------------------------------
\* Safety.

\* The state is well formed: scheduler.h:11-18.
TypeOK == /\ rings \in [Levels -> Ring]
          /\ current_ec \in EC \cup {NULL}
          /\ priority \in [EC -> Levels]
          /\ halted \in Halts
          /\ created \in SUBSET EC

\* head, tail and count never contradict one another: the three loops that
\* move them apart (rotation, removal, unchecked enqueues) keep them in step,
\* even when a ring has been filled beyond its slots.
RingGeometry ==
    \A p \in Levels : rings[p].tail = After(rings[p].head, rings[p].count)

-----------------------------------------------------------------------------
\* Action properties.

\* The end of scheduler.cc:59-60, "Nothing runnable", is reached only when no
\* queue held a runnable EC. It is not so once a ring holds more entries than
\* slots: the rotation then overwrites the runnable ones.
PanicsOnlyIdle ==
    [][halted = "no" /\ halted' = "no ECs to run" =>
          \A p \in Levels : \A i \in 0 .. rings[p].count - 1 :
              rings[p].blocked[After(rings[p].head, i)]]_vars

-----------------------------------------------------------------------------
\* Refinement: read from head to tail, the rings are the queues of Scheduling.

FifoOf(q) == [i \in 1 .. q.count |->
                 [ec      |-> q.slots[After(q.head, i - 1)],
                  blocked |-> q.blocked[After(q.head, i - 1)]]]

AbstractScheduler == [queues     |-> [p \in Levels |-> FifoOf(rings[p])],
                      current_ec |-> current_ec,
                      priority   |-> priority,
                      halted     |-> halted]

Fifo == INSTANCE Scheduling WITH sched <- AbstractScheduler

\* Every method does to the rings what it promises of the queues.
ImplementsFifo == Fifo!Spec
==============================================================================
