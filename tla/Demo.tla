--------------------------------- MODULE Demo ---------------------------------
(***************************************************************************)
(* The map-reduce program of user/src/user.cc on the handlers of Kernel:   *)
(* main creates two domains, a reducer and three mappers, sends each       *)
(* mapper a number and waits for the sum of the squares. Printing and the  *)
(* mapping of stacks are left out: they change nothing modelled here.      *)
(*                                                                         *)
(* The program asks for the reducer's priority without regard to how many  *)
(* run queues there are, and class Scheduler indexes queues[] with it      *)
(* unchecked. A priority beyond NUM_PRIORITIES names memory behind the     *)
(* last queue; it acts as a queue that the scan of yield() never visits,   *)
(* provided that the linker has put nothing else there. That is the        *)
(* outcome modelled: any other is worse.                                   *)
(***************************************************************************)
EXTENDS Kernel

CONSTANTS
    reducer, mapper0, mapper1, mapper2, \* the ECs main creates; main is RootEc
    Inputs,          \* the number for each mapper
    ReducerPriority, \* the priorities the reducer may be created with
    LAST_PRIORITY    \* the last priority that names memory queues[] can use

Squares == Inputs[1] * Inputs[1] + Inputs[2] * Inputs[2] + Inputs[3] * Inputs[3]

\* The tables have room for the slots the program names (config.h:25), and no
\* sum it computes leaves a word.
ASSUME DemoAssumption ==
    /\ {reducer, mapper0, mapper1, mapper2} \in SUBSET EC
    /\ RootEc \notin {reducer, mapper0, mapper1, mapper2}
    /\ reducer \notin {mapper0, mapper1, mapper2}
    /\ mapper0 # mapper1 /\ mapper0 # mapper2 /\ mapper1 # mapper2
    /\ MAX_CAPS > 4
    /\ Inputs \in [1 .. 3 -> Nat]
    /\ Squares <= 2147483647
    /\ LAST_PRIORITY \in Nat /\ NUM_PRIORITIES <= LAST_PRIORITY + 1
    /\ ReducerPriority \in SUBSET (0 .. LAST_PRIORITY)

VARIABLES
    results, \* eax as each EC found it before each of its calls, in order
    reducer_priority, \* the priority argument at user.cc:106
    final    \* what main printed as the final result, or NULL

demoVars == <<vars, results, reducer_priority, final>>

MAIN_SLOT    == 0
REDUCER_SLOT == 1
MAPPER_SLOTS == <<2, 3, 4>>
NUM_MAPPERS  == 3
Mappers      == <<mapper0, mapper1, mapper2>>

\* What the running EC knows when it makes its n-th call: its k-th call
\* returned Got[k + 1].
Got == Append(results[current], eax[current])
n   == Len(Got)

\* The stubs of user/include: a slot or an index is looked up in the caller's
\* domain.
ipc_send(slot, value) == /\ IpcSend(GetCap(slot), value)
                         /\ UNCHANGED <<pd, pdVars>>
ipc_recv == IpcRecv /\ UNCHANGED <<pd, pdVars>>
yield    == SysYield /\ UNCHANGED <<pd, pdVars>>

\* main_func() up to its last call. A test that fails ends in while (1), in
\* which nothing happens any more.
MainCalls ==
    LET mapper_pd  == Got[2]
        reducer_pd == Got[3]
        r_slot     == Got[4]
    IN  \/ n \in {1, 2} /\ \E child \in PD : CreatePD(child)
        \/ /\ n = 3 /\ mapper_pd >= 0 /\ reducer_pd >= 0
           /\ CreateEC(reducer, reducer_priority, REDUCER_SLOT, reducer_pd)
        \/ n = 4 /\ r_slot >= 0 /\ DelegateCap(reducer_pd, MAIN_SLOT, MAIN_SLOT)
        \/ \E i \in 1 .. NUM_MAPPERS :
              /\ n = 4 + i
              /\ i > 1 => Got[n] >= 0
              /\ CreateEC(Mappers[i], 0, MAPPER_SLOTS[i], mapper_pd)
        \/ n = 8 /\ Got[n] >= 0 /\ DelegateCap(mapper_pd, r_slot, REDUCER_SLOT)
        \/ \E i \in 1 .. NUM_MAPPERS :
              /\ n = 8 + i
              /\ i > 1 => Got[n] >= 0
              /\ ipc_send(MAPPER_SLOTS[i], Inputs[i])
        \/ n = 12 /\ Got[n] >= 0 /\ ipc_recv

\* run_mapper() up to its endless loop
MapperCalls ==
    \/ n = 1 /\ ipc_recv
    \/ n = 2 /\ yield
    \/ n = 3 /\ ipc_send(REDUCER_SLOT, Got[2] * Got[2])

\* reducer() up to its endless loop
ReducerCalls ==
    \/ n \in 1 .. NUM_MAPPERS /\ ipc_recv
    \/ n = 4 /\ ipc_send(MAIN_SLOT, Got[2] + Got[3] + Got[4])

\* The calls of the running EC, each with what it returned before.
Calling ==
    /\ \/ current = RootEc /\ MainCalls
       \/ current \in {mapper0, mapper1, mapper2} /\ MapperCalls
       \/ current = reducer /\ ReducerCalls
    /\ results' = [results EXCEPT ![current] = Got]
    /\ UNCHANGED <<reducer_priority, final>>

\* main prints what it received, and calls no more.
Report ==
    /\ sched.halted = "no" /\ current = RootEc /\ n = 13
    /\ final' = Got[n]
    /\ results' = [results EXCEPT ![current] = Got]
    /\ UNCHANGED <<vars, reducer_priority>>

\* Mappers and reducer end in while (1) yield(), unless their send failed.
Retire ==
    /\ n = (IF current = reducer THEN 5 ELSE 4) /\ current # RootEc
    /\ Got[n] >= 0
    /\ yield
    /\ UNCHANGED <<results, reducer_priority, final>>

DemoInit ==
    /\ reducer_priority \in ReducerPriority
    /\ sched = [Scheduled(EmptyScheduler, RootEc) EXCEPT !.queues =
                   [p \in 0 .. LAST_PRIORITY |->
                       IF p \in Levels THEN @[p] ELSE << >>]]
    /\ FieldsInit
    /\ PdInit
    /\ results = [e \in EC |-> << >>]
    /\ final = NULL

DemoNext == Calling \/ Report \/ Retire

\* An EC that runs makes its next call some day: none of the three programs
\* computes for ever before its last call.
DemoSpec == DemoInit /\ [][DemoNext]_demoVars /\ WF_demoVars(DemoNext)

-----------------------------------------------------------------------------

\* user.cc:123, "42!": main prints the sum of the squares some day, although
\* the order of receives, boosts and restores differs with the priority.
ResultArrives == <>(final = Squares)

\* Nobody ends in one of the error loops (user.cc:101, 110, 129, 147, 47, 77):
\* when a call returns, what the next needs is in the caller's own table, and
\* the result that says so is not negative.
NoCallFails == \A e \in EC : eax[e] >= 0

\* What main prints is the sum of the squares or nothing (user.cc:123): in
\* whatever order the words meet their receivers, on the fast path or by way of
\* a sender's list, each is received once, and by whom it was meant for.
OnlyTheSum == final \in {NULL, Squares}
===============================================================================
