------------------------------- MODULE Kernel --------------------------------
(***************************************************************************)
(* The kernel from bootstrap on: the handlers of Syscalls driven through   *)
(* the capability tables of protection domains (kern/src/pd.cc), and the   *)
(* calls that build those: create_pd, delegate_cap and create_ec, with     *)
(* every error return. User programs are arbitrary within Program: they    *)
(* pass any slot, any child index and any priority of the sets below.      *)
(***************************************************************************)
EXTENDS Syscalls, FiniteSets

CONSTANTS
    PD,       \* the protection domains that may ever be created
    RootPd,   \* the one bootstrap() creates
    MAX_CAPS, \* slots of a capability table, and of a table of children
    NewPriority \* the priorities programs ask for in create_ec

ASSUME KernelAssumption == /\ RootPd \in PD
                           /\ NULL \notin PD
                           /\ MAX_CAPS \in Nat \ {0}
                           /\ NewPriority \in SUBSET Levels

VARIABLES
    pd,       \* Ec::pd
    caps,     \* Pd::caps
    children, \* Pd::children
    parent,   \* Pd::parent
    pds       \* the protection domains that exist

pdVars == <<caps, children, parent, pds>>
vars   == <<ecVars, pd, pdVars>>

Slots == 0 .. MAX_CAPS - 1

\* The indices programs pass: those of a table, and one beyond it.
SlotArgs == 0 .. MAX_CAPS

\* Pd::get_cap(slot) on the caller's domain
GetCap(slot) == IF slot \in Slots THEN caps[pd[current]][slot] ELSE NULL

\* Mutant: set_cap overwrites a slot that is taken (pd.cc:6).
SettableTaken(table, p, slot) == slot \in Slots

\* Pd::set_cap(slot, ec) succeeds: the slot exists and is free.
Settable(table, p, slot) == slot \in Slots /\ table[p][slot] = NULL

\* Mutant: the index is looked up in the root domain.
ChildOfRoot(idx) == IF idx \in Slots THEN children[RootPd][idx] ELSE NULL

\* caller_pd->children[child_idx], nullptr beyond the table
Child(idx) == IF idx \in Slots THEN children[pd[current]][idx] ELSE NULL

-----------------------------------------------------------------------------

\* Mutant: add_child does not look for a free index (pd.cc:21).
CreatePDAtFirst(child) ==
    /\ May("create_pd")
    /\ child \notin pds
    /\ pds' = pds \cup {child}
    /\ parent' = [parent EXCEPT ![child] = pd[current]]
    /\ children' = [children EXCEPT ![pd[current]][0] = child]
    /\ eax' = Result(0)
    /\ UNCHANGED <<sched, current, ipcVars, created, call, base, pd, caps>>

\* SyscallCreatePD::handle: Pd::add_child takes the first free index. A
\* domain that finds no place is leaked, and can be reached by nobody.
CreatePD(child) ==
    /\ May("create_pd")
    /\ child \notin pds
    /\ LET free == {i \in Slots : children[pd[current]][i] = NULL}
       IN  IF free = {}
           THEN eax' = Result(-1) /\ UNCHANGED <<pds, parent, children>>
           ELSE /\ pds' = pds \cup {child}
                /\ parent' = [parent EXCEPT ![child] = pd[current]]
                /\ children' = [children EXCEPT
                                   ![pd[current]][FirstOf(free)] = child]
                /\ eax' = Result(FirstOf(free))
    /\ UNCHANGED <<sched, current, ipcVars, created, call, base, pd, caps>>

\* SyscallDelegateCap::handle
DelegateCap(child_idx, src_slot, dst_slot) ==
    /\ May("delegate_cap")
    /\ LET to == Child(child_idx)
           ec == GetCap(src_slot)
       IN  IF to # NULL /\ ec # NULL /\ Settable(caps, to, dst_slot)
           THEN caps' = [caps EXCEPT ![to][dst_slot] = ec] /\ eax' = Result(0)
           ELSE eax' = Result(-1) /\ UNCHANGED caps
    /\ UNCHANGED <<sched, current, ipcVars, created, call, base>>
    /\ UNCHANGED <<pd, children, parent, pds>>

\* SyscallCreateEC::handle with too few arguments, or a table slot of the
\* target that is taken or out of range: the handler returns without a result.
CreateRefused(slot, target_idx) ==
    /\ target_idx \in Slots
    /\ Child(target_idx) = NULL => slot \notin Slots
    /\ Child(target_idx) # NULL => ~Settable(caps, Child(target_idx), slot)
    /\ eax' = Entered
    /\ UNCHANGED <<sched, current, ipcVars, created, call, base, pd, pdVars>>

\* target_pd out of range
CreateOutOfRange(target_idx) ==
    /\ target_idx \notin Slots
    /\ eax' = Result(-1)
    /\ UNCHANGED <<sched, current, ipcVars, created, call, base, pd, pdVars>>

\* No child at that index: set_cap reads through a null Pd and handle_exc
\* panics (nothing below 3G but user pages is mapped, init.cc:83-88).
CreateFaults(slot, target_idx) ==
    /\ target_idx \in Slots
    /\ slot \in Slots
    /\ Child(target_idx) = NULL
    /\ sched' = [sched EXCEPT !.halted = "page fault"]
    /\ eax' = Entered
    /\ UNCHANGED <<current, ipcVars, created, call, base, pd, pdVars>>

\* Mutant: the target's slot is not checked (syscall.cc:64).
CreateDoneUnchecked(e, prio, slot, target_idx) ==
    LET target == Child(target_idx)
        own    == pd[current]
    IN  /\ target # NULL
        /\ slot \in Slots
        /\ Spawn(e, prio)
        /\ pd' = [pd EXCEPT ![e] = target]
        /\ caps' = IF Settable(caps, own, slot)
                   THEN [caps EXCEPT ![target][slot] = e, ![own][slot] = e]
                   ELSE [caps EXCEPT ![target][slot] = e]
        /\ eax' = Result(IF Settable(caps, own, slot) THEN slot ELSE -1)
        /\ UNCHANGED <<ipcVars, children, parent, pds>>

\* Mutant: the caller gets no capability of its own (syscall.cc:73).
CreateDoneNotOwn(e, prio, slot, target_idx) ==
    LET target == Child(target_idx)
    IN  /\ target # NULL
        /\ Settable(caps, target, slot)
        /\ Spawn(e, prio)
        /\ pd' = [pd EXCEPT ![e] = target]
        /\ caps' = [caps EXCEPT ![target][slot] = e]
        /\ eax' = Result(slot)
        /\ UNCHANGED <<ipcVars, children, parent, pds>>

\* The EC is entered in the target's table, then in the caller's own, and
\* scheduled whether or not the caller's slot was free.
CreateDone(e, prio, slot, target_idx) ==
    LET target == Child(target_idx)
        own    == pd[current]
    IN  /\ target # NULL
        /\ Settable(caps, target, slot)
        /\ Spawn(e, prio)
        /\ pd' = [pd EXCEPT ![e] = target]
        /\ caps' = IF Settable(caps, own, slot)
                   THEN [caps EXCEPT ![target][slot] = e, ![own][slot] = e]
                   ELSE [caps EXCEPT ![target][slot] = e]
        /\ eax' = Result(IF Settable(caps, own, slot) THEN slot ELSE -1)
        /\ UNCHANGED <<ipcVars, children, parent, pds>>

\* SyscallCreateEC::handle
CreateEC(e, prio, slot, target_idx) ==
    /\ May("create_ec")
    /\ e \notin created
    /\ \/ CreateRefused(slot, target_idx)
       \/ CreateOutOfRange(target_idx)
       \/ CreateFaults(slot, target_idx)
       \/ CreateDone(e, prio, slot, target_idx)

\* The calls of Syscalls, with the lookups done in the caller's table.
Scheduling ==
    \/ SysYield
    \/ SysBlock(current)
    \/ SysUnblockAll
    \/ \E slot \in SlotArgs : SysBlock(GetCap(slot)) \/ SysUnblock(GetCap(slot))

Messaging ==
    \/ IpcRecv
    \/ \E slot \in SlotArgs, v \in Values : IpcSend(GetCap(slot), v)

\* bootstrap(): the root domain, with the root EC in slot 0.
PdInit ==
    /\ pd = [e \in EC |-> IF e = RootEc THEN RootPd ELSE NULL]
    /\ pds = {RootPd}
    /\ parent = [p \in PD |-> NULL]
    /\ children = [p \in PD |-> [i \in Slots |-> NULL]]
    /\ caps = [p \in PD |-> [i \in Slots |->
                  IF p = RootPd /\ i = 0 THEN RootEc ELSE NULL]]

Init == EcInit /\ PdInit

Next ==
    \/ (Scheduling \/ Messaging) /\ UNCHANGED <<pd, pdVars>>
    \/ \E child \in PD : CreatePD(child)
    \/ \E idx, src, dst \in SlotArgs : DelegateCap(idx, src, dst)
    \/ \E e \in EC, prio \in NewPriority, slot, idx \in SlotArgs :
          CreateEC(e, prio, slot, idx)

Spec == Init /\ [][Next]_vars

-----------------------------------------------------------------------------
\* Safety.

\* The state is well formed: pd.h:11-13, ec.h:62.
TypeOK ==
    /\ EcTypeOK
    /\ pd \in [EC -> PD \cup {NULL}]
    /\ caps \in [PD -> [Slots -> EC \cup {NULL}]]
    /\ children \in [PD -> [Slots -> PD \cup {NULL}]]
    /\ parent \in [PD -> PD \cup {NULL}]
    /\ pds \in SUBSET PD

Holds(p, e) == \E i \in Slots : caps[p][i] = e

\* The domains form a tree under the root: every domain but the root is at
\* exactly one index of exactly its parent's table, so a child index names one
\* domain for good and is_ancestor_of ends (pd.cc:19-39, syscall.cc:131-145).
PdTree ==
    /\ \A p \in pds \ {RootPd} :
          /\ parent[p] \in pds
          /\ Cardinality({i \in Slots : children[parent[p]][i] = p}) = 1
    /\ \A p \in PD, i \in Slots :
          children[p][i] # NULL =>
              children[p][i] \in pds /\ parent[children[p][i]] = p
    /\ parent[RootPd] = NULL

\* Authority over an EC spreads downwards only: a domain that can name an EC
\* is the EC's own, the one that created it there, or a child of a domain that
\* can name it (syscall.cc:62, 73, 175). No domain learns of an EC from below
\* or from beside.
AuthorityFlowsDown ==
    \A p \in PD, e \in EC :
        Holds(p, e) => \/ p = pd[e]
                       \/ p = parent[pd[e]]
                       \/ parent[p] # NULL /\ Holds(parent[p], e)

\* What a table names exists and is on the run queues, and every EC that runs
\* can be named in its own domain: no capability dangles, no EC is out of
\* reach of block, unblock and send (syscall.cc:60-75).
CapsMatchEcs ==
    \A e \in EC : /\ e \in created => pd[e] # NULL /\ Holds(pd[e], e)
                  /\ sched.halted = "no" /\ (\E p \in PD : Holds(p, e)) => e \in created

-----------------------------------------------------------------------------
\* Action properties.

\* A slot that programs were told of keeps its meaning: once filled it is
\* never overwritten (pd.cc:6-7), once given an index names one child.
SlotsKeepMeaning ==
    [][\A p \in PD, i \in Slots :
          /\ caps[p][i] # NULL => caps'[p][i] = caps[p][i]
          /\ children[p][i] # NULL => children'[p][i] = children[p][i]]_vars

\* user.cc:108, 127: "if (slot < 0)" tells the program that no EC was created,
\* here in a child domain that exists.
CreateReported ==
    [][\A e \in EC, prio \in NewPriority, slot, idx \in SlotArgs :
          CreateEC(e, prio, slot, idx) /\ Child(idx) # NULL /\ created' = created
              => eax'[current] < 0 \/ sched'.halted # "no"]_vars
==============================================================================
