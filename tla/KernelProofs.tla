----------------------------- MODULE KernelProofs ------------------------------
(***************************************************************************)
(* The safety of the kernel from bootstrap on, for any number of ECs,      *)
(* protection domains, slots, priorities and any programs. The capability  *)
(* tables and the run queues need each other: a handler of Syscalls keeps  *)
(* the queues only because a slot names an EC or nothing, and a table      *)
(* names only ECs that exist because a creation ends with schedule().      *)
(* Then the program of user.cc on it: what its three programs have told    *)
(* each other, at any point of any schedule.                               *)
(***************************************************************************)
EXTENDS Demo, SyscallsProofs, FiniteSetTheorems

DomainsOK == /\ pd \in [EC -> PD \cup {NULL}]
             /\ caps \in [PD -> [Slots -> EC \cup {NULL}]]
             /\ children \in [PD -> [Slots -> PD \cup {NULL}]]
             /\ parent \in [PD -> PD \cup {NULL}]
             /\ pds \in SUBSET PD

\* The parts of PdTree that a step can disturb, the count put as a set.
Tree == /\ \A p \in pds \ {RootPd} :
              /\ parent[p] \in pds
              /\ \E k \in Slots : {i \in Slots : children[parent[p]][i] = p} = {k}
        /\ \A p \in PD, i \in Slots :
              children[p][i] # NULL =>
                  children[p][i] \in pds /\ parent[children[p][i]] = p
        /\ parent[RootPd] = NULL

\* The domains of the ECs exist, and a domain that does not exist has nothing
\* in its table: a new child starts with no authority.
Populated == /\ RootPd \in pds
             /\ \A e \in created : pd[e] \in pds
             /\ \A p \in PD \ pds, i \in Slots : caps[p][i] = NULL

\* Holds, of a given table of tables.
HoldsIn(table, p, e) == \E i \in Slots : table[p][i] = e

DInv == DomainsOK /\ Tree /\ Populated /\ AuthorityFlowsDown /\ CapsMatchEcs

IInv == SInv /\ DInv

\* Who calls exists, in a domain that exists.
LEMMA Caller ==
  ASSUME IInv, NEW c, May(c)
  PROVE  /\ sched.halted = "no" /\ current \in created /\ current \in EC
         /\ pd[current] \in pds /\ pd[current] \in PD
<1>1. sched.halted = "no" /\ current = sched.current_ec /\ current # NULL
  BY Running DEF IInv
<1>2. current \in created
  BY <1>1 DEF IInv, SInv, Members
<1> QED BY <1>1, <1>2 DEF IInv, SInv, DInv, Populated, DomainsOK

LEMMA GetCapOK ==
  ASSUME IInv, NEW c, May(c), NEW slot \in SlotArgs
  PROVE  GetCap(slot) \in EC \cup {NULL}
BY Caller DEF GetCap, IInv, DInv, DomainsOK

\* A call that builds nothing leaves the domains as they are.
LEMMA DomainsKept ==
  ASSUME IInv, sched.halted = "no", UNCHANGED <<created, pd, pdVars>>
  PROVE  DInv'
<1>1. UNCHANGED <<created, pd, caps, children, parent, pds>>
  BY DEF pdVars
<1>2. DomainsOK' /\ Tree' /\ Populated'
  BY <1>1 DEF IInv, DInv, DomainsOK, Tree, Populated
<1>3. AuthorityFlowsDown' /\ CapsMatchEcs'
  BY <1>1 DEF IInv, DInv, AuthorityFlowsDown, CapsMatchEcs, Holds
<1> QED BY <1>2, <1>3 DEF DInv

LEMMA SchedulingInv ==
  ASSUME IInv, Scheduling, UNCHANGED <<pd, pdVars>>
  PROVE  IInv'
<1>1. CASE SysYield
  <2>1. sched.halted = "no" /\ UNCHANGED created
    BY <1>1 DEF SysYield, May
  <2> QED BY <1>1, <2>1, YieldInv, DomainsKept DEF IInv
<1>2. CASE SysBlock(current)
  <2>1. sched.halted = "no" /\ UNCHANGED created
    BY <1>2 DEF SysBlock, May
  <2> QED BY <1>2, <2>1, BlockInv, DomainsKept DEF IInv, SInv
<1>3. CASE SysUnblockAll
  <2>1. sched.halted = "no" /\ UNCHANGED created
    BY <1>3 DEF SysUnblockAll, May
  <2> QED BY <1>3, <2>1, UnblockAllInv, DomainsKept DEF IInv
<1>4. ASSUME NEW slot \in SlotArgs, SysBlock(GetCap(slot)) PROVE IInv'
  <2>1. sched.halted = "no" /\ UNCHANGED created /\ May("block")
    BY <1>4 DEF SysBlock, May
  <2>2. GetCap(slot) \in EC \cup {NULL}
    BY <2>1, GetCapOK
  <2> QED BY <1>4, <2>1, <2>2, BlockInv, DomainsKept DEF IInv
<1>5. ASSUME NEW slot \in SlotArgs, SysUnblock(GetCap(slot)) PROVE IInv'
  <2>1. sched.halted = "no" /\ UNCHANGED created /\ May("unblock")
    BY <1>5 DEF SysUnblock, May
  <2>2. GetCap(slot) \in EC \cup {NULL}
    BY <2>1, GetCapOK
  <2> QED BY <1>5, <2>1, <2>2, UnblockInv, DomainsKept DEF IInv
<1> QED BY <1>1, <1>2, <1>3, <1>4, <1>5 DEF Scheduling

LEMMA MessagingInv ==
  ASSUME IInv, Messaging, UNCHANGED <<pd, pdVars>>
  PROVE  IInv'
<1>1. CASE IpcRecv
  <2>1. sched.halted = "no" /\ UNCHANGED created
    BY <1>1 DEF IpcRecv, RecvPending, RecvBlocks, May
  <2> QED BY <1>1, <2>1, RecvInv, DomainsKept DEF IInv
<1>2. ASSUME NEW slot \in SlotArgs, NEW v \in Values, IpcSend(GetCap(slot), v)
      PROVE  IInv'
  <2>1. sched.halted = "no" /\ UNCHANGED created /\ May("send")
    BY <1>2 DEF IpcSend, SendNowhere, FastSend, SlowSend, May
  <2>2. GetCap(slot) \in EC \cup {NULL}
    BY <2>1, GetCapOK
  <2>3. v \in Nat
    BY <1>2, SyscallAssumption
  <2> QED BY <1>2, <2>1, <2>2, <2>3, SendInv, DomainsKept DEF IInv
<1> QED BY <1>1, <1>2 DEF Messaging

-----------------------------------------------------------------------------
\* The calls that build.

\* The handler writes a result and leaves the ECs alone.
LEMMA ResultInv ==
  ASSUME SInv, NEW w \in Int, eax' = Result(w),
         UNCHANGED <<sched, current, ipcVars, created, call, base>>
  PROVE  SInv'
<1>1. eax' \in [EC -> Int]
  BY ResultOK
<1> QED BY <1>1 DEF SInv, FieldsOK, CurrentsAgree, StopsOnlyIdle, ipcVars

\* A domain entered at a free index of its parent's table.
LEMMA NewDomain ==
  ASSUME IInv, sched.halted = "no", NEW own \in pds, NEW child \in PD \ pds,
         NEW k \in Slots, children[own][k] = NULL,
         pds' = pds \cup {child},
         parent' = [parent EXCEPT ![child] = own],
         children' = [children EXCEPT ![own][k] = child],
         UNCHANGED <<sched, created, pd, caps>>
  PROVE  DInv'
<1>0. /\ DomainsOK /\ Tree /\ Populated /\ AuthorityFlowsDown /\ CapsMatchEcs
      /\ own \in PD /\ child # own /\ child # NULL /\ RootPd \in PD
  BY KernelAssumption DEF IInv, DInv, DomainsOK
<1>1. DomainsOK'
  BY <1>0 DEF DomainsOK
<1>2. \A p \in PD, i \in Slots :
         children'[p][i] = IF p = own /\ i = k THEN child ELSE children[p][i]
  BY <1>0 DEF DomainsOK
<1>3. \A p \in PD : parent'[p] = IF p = child THEN own ELSE parent[p]
  BY <1>0 DEF DomainsOK
<1>4. \A p \in PD, i \in Slots : children[p][i] # child
  BY <1>0 DEF Tree
<1>5. Tree'
  <2>1. ASSUME NEW p \in pds' \ {RootPd}
        PROVE  /\ parent'[p] \in pds'
               /\ \E l \in Slots : {i \in Slots : children'[parent'[p]][i] = p} = {l}
    <3>1. CASE p = child
      <4>1. parent'[p] = own
        BY <3>1, <1>3
      <4>2. {i \in Slots : children'[own][i] = p} = {k}
        BY <3>1, <1>0, <1>2, <1>4
      <4> QED BY <4>1, <4>2
    <3>2. CASE p # child
      <4>1. p \in pds \ {RootPd} /\ p \in PD
        BY <3>2, <1>0 DEF DomainsOK
      <4>2. parent'[p] = parent[p] /\ parent[p] \in pds /\ parent[p] \in PD
        BY <3>2, <4>1, <1>0, <1>3 DEF Tree, DomainsOK
      <4>3. \A i \in Slots :
               children'[parent[p]][i] = p <=> children[parent[p]][i] = p
        BY <3>2, <4>1, <4>2, <1>0, <1>2, KernelAssumption
      <4>4. {i \in Slots : children'[parent'[p]][i] = p}
              = {i \in Slots : children[parent[p]][i] = p}
        BY <4>2, <4>3
      <4> QED BY <4>1, <4>2, <4>4, <1>0 DEF Tree
    <3> QED BY <3>1, <3>2
  <2>2. ASSUME NEW p \in PD, NEW i \in Slots, children'[p][i] # NULL
        PROVE  children'[p][i] \in pds' /\ parent'[children'[p][i]] = p
    <3>1. CASE p = own /\ i = k
      BY <3>1, <1>2, <1>3, <1>0
    <3>2. CASE ~(p = own /\ i = k)
      <4>1. children'[p][i] = children[p][i]
        BY <3>2, <1>2
      <4>2. children[p][i] \in pds /\ parent[children[p][i]] = p
        BY <2>2, <4>1, <1>0 DEF Tree
      <4>3. children[p][i] \in PD /\ children[p][i] # child
        BY <4>2, <1>0, <1>4 DEF DomainsOK
      <4> QED BY <4>1, <4>2, <4>3, <1>3
    <3> QED BY <3>1, <3>2
  <2>3. parent'[RootPd] = NULL
    BY <1>0, <1>3 DEF Tree, Populated
  <2> QED BY <2>1, <2>2, <2>3 DEF Tree
<1>6. Populated'
  BY <1>0 DEF Populated
<1>7. AuthorityFlowsDown'
  <2> SUFFICES ASSUME NEW p \in PD, NEW e \in EC, Holds(p, e)
               PROVE  \/ p = pd[e]
                      \/ p = parent'[pd[e]]
                      \/ parent'[p] # NULL /\ Holds(parent'[p], e)
    BY DEF AuthorityFlowsDown, Holds
  <2>1. e # NULL
    BY QueueAssumption
  <2>2. p # child
    BY <2>1, <1>0 DEF Holds, Populated
  <2>3. e \in created /\ pd[e] \in pds
    BY <1>0 DEF CapsMatchEcs, Populated
  <2>4. parent'[p] = parent[p] /\ parent'[pd[e]] = parent[pd[e]]
    BY <2>2, <2>3, <1>0, <1>3 DEF DomainsOK
  <2> QED BY <2>4, <1>0 DEF AuthorityFlowsDown
<1>8. CapsMatchEcs'
  BY <1>0 DEF CapsMatchEcs, Holds
<1> QED BY <1>1, <1>5, <1>6, <1>7, <1>8 DEF DInv

LEMMA CreatePDInv ==
  ASSUME IInv, NEW child \in PD, CreatePD(child)
  PROVE  IInv'
<1> DEFINE own == pd[current]
           free == {i \in Slots : children[own][i] = NULL}
<1>1. /\ SInv /\ sched.halted = "no" /\ own \in pds
      /\ UNCHANGED <<sched, current, ipcVars, created, call, base, pd, caps>>
  BY Caller DEF CreatePD, IInv
<1>2. CASE free = {}
  <2>1. eax' = Result(-1) /\ UNCHANGED <<pds, parent, children>> /\ -1 \in Int
    BY <1>2 DEF CreatePD
  <2>2. SInv'
    BY <1>1, <2>1, ResultInv
  <2>3. DInv'
    BY <1>1, <2>1, DomainsKept DEF pdVars
  <2> QED BY <2>2, <2>3 DEF IInv
<1>3. CASE free # {}
  <2>1. free \in SUBSET Nat
    BY DEF Slots
  <2>2. FirstOf(free) \in free
    BY <1>3, <2>1, FirstOfExists
  <2>3. FirstOf(free) \in Int
    BY <2>1, <2>2
  <2>4. /\ pds' = pds \cup {child} /\ parent' = [parent EXCEPT ![child] = own]
        /\ children' = [children EXCEPT ![own][FirstOf(free)] = child]
        /\ eax' = Result(FirstOf(free)) /\ child \in PD \ pds
    BY <1>3 DEF CreatePD
  <2>5. FirstOf(free) \in Slots /\ children[own][FirstOf(free)] = NULL
    BY <2>2
  <2> HIDE DEF free, own
  <2>6. SInv'
    BY <1>1, <2>3, <2>4, ResultInv
  <2>7. DInv'
    BY <1>1, <2>4, <2>5, NewDomain
  <2> QED BY <2>6, <2>7 DEF IInv
<1> QED BY <1>2, <1>3

\* An EC that a domain can name is entered in the table of a child.
LEMMA DelegateCapInv ==
  ASSUME IInv, NEW idx \in SlotArgs, NEW src \in SlotArgs, NEW dst \in SlotArgs,
         DelegateCap(idx, src, dst)
  PROVE  IInv'
<1> DEFINE own == pd[current]
           to  == Child(idx)
           ec  == GetCap(src)
<1>1. /\ SInv /\ sched.halted = "no" /\ own \in pds /\ own \in PD
      /\ UNCHANGED <<sched, current, ipcVars, created, call, base>>
      /\ UNCHANGED <<pd, children, parent, pds>>
  BY Caller DEF DelegateCap, IInv
<1>2. \E w \in Int : eax' = Result(w)
  <2>1. 0 \in Int /\ -1 \in Int
    OBVIOUS
  <2> QED BY <2>1 DEF DelegateCap
<1>3. SInv'
  BY <1>1, <1>2, ResultInv
<1>4. CASE UNCHANGED caps
  <2>1. DInv'
    BY <1>1, <1>4, DomainsKept DEF pdVars
  <2> QED BY <1>3, <2>1 DEF IInv
<1>5. CASE /\ to # NULL /\ ec # NULL /\ Settable(caps, to, dst)
           /\ caps' = [caps EXCEPT ![to][dst] = ec]
  <2>0. DomainsOK /\ Tree /\ Populated /\ AuthorityFlowsDown /\ CapsMatchEcs
    BY DEF IInv, DInv
  <2>1. /\ idx \in Slots /\ to = children[own][idx] /\ src \in Slots
        /\ ec = caps[own][src] /\ ec \in EC
        /\ dst \in Slots /\ caps[to][dst] = NULL
    BY <1>1, <1>5, <2>0 DEF Child, GetCap, Settable, DomainsOK
  <2>2. to \in pds /\ parent[to] = own /\ to \in PD
    BY <1>1, <1>5, <2>0, <2>1 DEF Tree, DomainsOK
  <2>3. \A p \in PD, i \in Slots :
           caps'[p][i] = IF p = to /\ i = dst THEN ec ELSE caps[p][i]
    BY <1>5, <2>0, <2>1, <2>2 DEF DomainsOK
  <2>4. \A p \in PD, e \in EC :
           HoldsIn(caps', p, e) <=> (HoldsIn(caps, p, e) \/ (p = to /\ e = ec))
    BY <2>1, <2>3, QueueAssumption DEF HoldsIn
  <2>5. HoldsIn(caps, own, ec) /\ own # NULL
    BY <1>1, <2>1, KernelAssumption DEF HoldsIn
  <2>6. DomainsOK'
    BY <1>1, <1>5, <2>0, <2>1, <2>2 DEF DomainsOK
  <2>7. Tree'
    BY <1>1, <2>0 DEF Tree
  <2>8. Populated'
    BY <1>1, <2>0, <2>2, <2>3 DEF Populated
  <2>9. AuthorityFlowsDown'
    <3> SUFFICES ASSUME NEW p \in PD, NEW e \in EC, HoldsIn(caps', p, e)
                 PROVE  \/ p = pd[e]
                        \/ p = parent[pd[e]]
                        \/ parent[p] # NULL /\ HoldsIn(caps', parent[p], e)
      BY <1>1 DEF AuthorityFlowsDown, Holds, HoldsIn
    <3>1. CASE p = to /\ e = ec
      BY <3>1, <1>1, <2>2, <2>4, <2>5
    <3>2. CASE HoldsIn(caps, p, e)
      <4>1. \/ p = pd[e]
            \/ p = parent[pd[e]]
            \/ parent[p] # NULL /\ HoldsIn(caps, parent[p], e)
        BY <3>2, <2>0 DEF AuthorityFlowsDown, Holds, HoldsIn
      <4>2. parent[p] # NULL => parent[p] \in PD
        BY <2>0 DEF DomainsOK
      <4> QED BY <4>1, <4>2, <2>4
    <3> QED BY <3>1, <3>2, <2>4
  <2>10. CapsMatchEcs'
    <3>1. ASSUME NEW e \in EC, e \in created
          PROVE  pd[e] # NULL /\ HoldsIn(caps', pd[e], e)
      <4>1. pd[e] # NULL /\ HoldsIn(caps, pd[e], e) /\ pd[e] \in PD
        BY <3>1, <2>0 DEF CapsMatchEcs, DomainsOK, Holds, HoldsIn
      <4> QED BY <4>1, <2>4
    <3>2. ASSUME NEW e \in EC, NEW p \in PD, HoldsIn(caps', p, e)
          PROVE  e \in created
      <4>1. HoldsIn(caps, p, e) \/ HoldsIn(caps, own, e)
        BY <3>2, <2>4, <2>5
      <4> QED BY <4>1, <1>1, <2>0 DEF CapsMatchEcs, Holds, HoldsIn
    <3> QED BY <3>1, <3>2, <1>1 DEF CapsMatchEcs, Holds, HoldsIn
  <2>11. DInv'
    BY <2>6, <2>7, <2>8, <2>9, <2>10 DEF DInv
  <2> QED BY <1>3, <2>11 DEF IInv
<1> HIDE DEF own
<1> QED BY <1>4, <1>5 DEF DelegateCap

\* set_cap reads through a null Pd: the machine stops in handle_exc.
LEMMA FaultInv ==
  ASSUME IInv, sched' = [sched EXCEPT !.halted = "page fault"], eax' = Entered,
         UNCHANGED <<current, ipcVars, created, call, base, pd, pdVars>>
  PROVE  IInv'
<1>1. /\ sched'.queues = sched.queues /\ sched'.current_ec = sched.current_ec
      /\ sched'.priority = sched.priority /\ sched'.halted = "page fault"
      /\ Sound(sched) /\ sched' \in SchedulerState
  BY DEF IInv, SInv, Sound, SchedulerState, Halts
<1>2. Sound(sched') /\ Members(sched') = Members(sched)
  BY <1>1, SamePlaces
<1>3. SInv'
  <2>1. eax' \in [EC -> Int]
    BY EnteredOK DEF IInv
  <2> QED BY <1>1, <1>2, <2>1
          DEF IInv, SInv, FieldsOK, Sound, CurrentsAgree, StopsOnlyIdle, ipcVars
<1>4. UNCHANGED <<created, pd, caps, children, parent, pds>>
  BY DEF pdVars
<1>5. DomainsOK' /\ Tree' /\ Populated'
  BY <1>4 DEF IInv, DInv, DomainsOK, Tree, Populated
<1>6. AuthorityFlowsDown'
  BY <1>4 DEF IInv, DInv, AuthorityFlowsDown, Holds
<1>7. CapsMatchEcs'
  BY <1>1, <1>4 DEF IInv, DInv, CapsMatchEcs, Holds
<1> QED BY <1>3, <1>5, <1>6, <1>7 DEF IInv, DInv

\* A new EC, entered in its own domain's table and, where that slot is free,
\* in its creator's: the parent's.
LEMMA CreateDoneInv ==
  ASSUME IInv, May("create_ec"), NEW e \in EC, NEW prio \in Levels,
         NEW slot \in SlotArgs, NEW idx \in SlotArgs,
         CreateDone(e, prio, slot, idx)
  PROVE  IInv'
<1> DEFINE own    == pd[current]
           target == Child(idx)
           both   == Settable(caps, own, slot)
<1>1. /\ SInv /\ sched.halted = "no" /\ own \in pds /\ own \in PD
      /\ UNCHANGED <<ipcVars, children, parent, pds>>
  BY Caller DEF CreateDone, IInv
<1>2. /\ DomainsOK /\ Tree /\ Populated /\ AuthorityFlowsDown /\ CapsMatchEcs
  BY DEF IInv, DInv
<1>3. /\ target # NULL /\ slot \in Slots /\ caps[target][slot] = NULL
      /\ idx \in Slots /\ target = children[own][idx]
      /\ Spawn(e, prio) /\ pd' = [pd EXCEPT ![e] = target]
  BY DEF CreateDone, Settable, Child
<1>4. target \in pds /\ target \in PD /\ parent[target] = own
  BY <1>1, <1>2, <1>3 DEF Tree, DomainsOK
<1>5. /\ e \notin created
      /\ created' = IF sched'.halted = "queue full" THEN created
                                                    ELSE created \cup {e}
  BY <1>3 DEF Spawn
<1>6. SInv'
  <2>1. slot \in Int /\ -1 \in Int
    BY DEF SlotArgs
  <2>2. \E w \in Int : eax' = Result(w)
    BY <2>1 DEF CreateDone
  <2>3. eax' \in [EC -> Int]
    BY <1>1, <2>2, ResultOK
  <2> QED BY <1>1, <1>3, <2>3, SpawnInv
<1>7. /\ \A p \in PD, i \in Slots :
            caps'[p][i] = IF i = slot /\ (p = target \/ (p = own /\ both))
                          THEN e ELSE caps[p][i]
      /\ caps' \in [PD -> [Slots -> EC \cup {NULL}]]
  <2>1. CASE both
    <3>1. caps' = [caps EXCEPT ![target][slot] = e, ![own][slot] = e]
      BY <2>1 DEF CreateDone
    <3> HIDE DEF own, target, both
    <3> QED BY <1>1, <1>2, <1>3, <1>4, <2>1, <3>1 DEF DomainsOK
  <2>2. CASE ~both
    <3>1. caps' = [caps EXCEPT ![target][slot] = e]
      BY <2>2 DEF CreateDone
    <3> HIDE DEF own, target, both
    <3> QED BY <1>1, <1>2, <1>3, <1>4, <2>2, <3>1 DEF DomainsOK
  <2> QED BY <2>1, <2>2
<1>8. both => caps[own][slot] = NULL
  BY DEF Settable
<1> HIDE DEF own, target, both
<1>9. \A p \in PD, x \in EC :
         HoldsIn(caps', p, x) <=>
            (HoldsIn(caps, p, x) \/ (x = e /\ (p = target \/ (p = own /\ both))))
  BY <1>3, <1>7, <1>8, QueueAssumption DEF HoldsIn
<1>10. \A p \in PD : ~HoldsIn(caps, p, e)
  BY <1>1, <1>2, <1>5 DEF CapsMatchEcs, Holds, HoldsIn
<1>11. \A x \in EC : pd'[x] = IF x = e THEN target ELSE pd[x]
  BY <1>2, <1>3 DEF DomainsOK
<1>12. DomainsOK'
  BY <1>1, <1>2, <1>3, <1>4, <1>7 DEF DomainsOK
<1>13. Tree'
  BY <1>1, <1>2 DEF Tree
<1>14. Populated'
  <2>1. \A x \in created' : x \in EC /\ pd'[x] \in pds
    BY <1>1, <1>2, <1>4, <1>5, <1>11 DEF Populated, SInv
  <2>2. \A p \in PD \ pds, i \in Slots : caps'[p][i] = NULL
    BY <1>1, <1>2, <1>4, <1>7 DEF Populated
  <2> QED BY <1>1, <1>2, <2>1, <2>2 DEF Populated
<1>15. AuthorityFlowsDown'
  <2> SUFFICES ASSUME NEW p \in PD, NEW x \in EC, HoldsIn(caps', p, x)
               PROVE  \/ p = pd'[x]
                      \/ p = parent[pd'[x]]
                      \/ parent[p] # NULL /\ HoldsIn(caps', parent[p], x)
    BY <1>1 DEF AuthorityFlowsDown, Holds, HoldsIn
  <2>1. CASE x = e
    BY <2>1, <1>4, <1>9, <1>10, <1>11
  <2>2. CASE x # e
    <3>1. HoldsIn(caps, p, x)
      BY <2>2, <1>9
    <3>2. \/ p = pd[x]
          \/ p = parent[pd[x]]
          \/ parent[p] # NULL /\ HoldsIn(caps, parent[p], x)
      BY <3>1, <1>2 DEF AuthorityFlowsDown, Holds, HoldsIn
    <3>3. parent[p] # NULL => parent[p] \in PD
      BY <1>2 DEF DomainsOK
    <3> QED BY <2>2, <3>2, <3>3, <1>9, <1>11
  <2> QED BY <2>1, <2>2
<1>16. CapsMatchEcs'
  <2>1. ASSUME NEW x \in EC, x \in created'
        PROVE  pd'[x] # NULL /\ HoldsIn(caps', pd'[x], x)
    <3>1. CASE x = e
      BY <3>1, <1>3, <1>4, <1>9, <1>11
    <3>2. CASE x # e
      <4>1. x \in created
        BY <2>1, <3>2, <1>5
      <4>2. pd[x] # NULL /\ HoldsIn(caps, pd[x], x) /\ pd[x] \in PD
        BY <4>1, <1>2 DEF CapsMatchEcs, DomainsOK, Holds, HoldsIn
      <4> QED BY <3>2, <4>2, <1>9, <1>11
    <3> QED BY <3>1, <3>2
  <2>2. ASSUME NEW x \in EC, NEW p \in PD, HoldsIn(caps', p, x),
               sched'.halted = "no"
        PROVE  x \in created'
    <3>1. created' = created \cup {e}
      BY <2>2, <1>5
    <3>2. CASE x # e
      <4>1. HoldsIn(caps, p, x)
        BY <2>2, <3>2, <1>9
      <4>2. x \in created
        BY <4>1, <1>1, <1>2 DEF CapsMatchEcs, Holds, HoldsIn
      <4> QED BY <3>1, <4>2
    <3> QED BY <3>1, <3>2
  <2> QED BY <2>1, <2>2 DEF CapsMatchEcs, Holds, HoldsIn
<1> QED BY <1>6, <1>12, <1>13, <1>14, <1>15, <1>16 DEF IInv, DInv

LEMMA CreateECInv ==
  ASSUME IInv, NEW e \in EC, NEW prio \in NewPriority,
         NEW slot \in SlotArgs, NEW idx \in SlotArgs,
         CreateEC(e, prio, slot, idx)
  PROVE  IInv'
<1>1. May("create_ec") /\ SInv /\ sched.halted = "no" /\ prio \in Levels
  BY KernelAssumption, Caller DEF CreateEC, IInv
<1>2. CASE CreateRefused(slot, idx) \/ CreateOutOfRange(idx)
  <2>1. FRAME \in Int /\ -1 \in Int /\ Entered = Result(FRAME)
    BY SyscallAssumption DEF Entered, Result
  <2>2. /\ \E w \in Int : eax' = Result(w)
        /\ UNCHANGED <<sched, current, ipcVars, created, call, base>>
        /\ UNCHANGED <<created, pd, pdVars>>
    BY <1>2, <2>1 DEF CreateRefused, CreateOutOfRange
  <2>3. SInv' /\ DInv'
    BY <1>1, <2>2, ResultInv, DomainsKept
  <2> QED BY <2>3 DEF IInv
<1>3. CASE CreateFaults(slot, idx)
  BY <1>3, FaultInv DEF CreateFaults
<1>4. CASE CreateDone(e, prio, slot, idx)
  BY <1>1, <1>4, CreateDoneInv
<1> QED BY <1>2, <1>3, <1>4 DEF CreateEC

-----------------------------------------------------------------------------

LEMMA InitIInv == Init => IInv
<1> SUFFICES ASSUME Init PROVE IInv
  OBVIOUS
<1>1. SInv /\ PdInit /\ created = {RootEc}
  BY EcInitInv DEF Init, EcInit, FieldsInit
<1>2. RootPd \in PD /\ RootEc \in EC /\ RootPd # NULL /\ RootEc # NULL
      /\ 0 \in Slots
  BY KernelAssumption, SyscallAssumption, QueueAssumption DEF Slots
<1>3. DomainsOK
  BY <1>1, <1>2 DEF PdInit, DomainsOK
<1>4. Tree /\ Populated
  BY <1>1, <1>2 DEF PdInit, Tree, Populated
<1>5. \A p \in PD, e \in EC : Holds(p, e) <=> (p = RootPd /\ e = RootEc)
  BY <1>1, <1>2, QueueAssumption DEF PdInit, Holds
<1>6. pd[RootEc] = RootPd
  BY <1>1, <1>2 DEF PdInit
<1>7. AuthorityFlowsDown /\ CapsMatchEcs
  BY <1>1, <1>2, <1>5, <1>6 DEF AuthorityFlowsDown, CapsMatchEcs
<1> QED BY <1>1, <1>3, <1>4, <1>7 DEF IInv, DInv

LEMMA NextIInv == IInv /\ [Next]_vars => IInv'
<1> SUFFICES ASSUME IInv, [Next]_vars PROVE IInv'
  OBVIOUS
<1>1. CASE (Scheduling \/ Messaging) /\ UNCHANGED <<pd, pdVars>>
  BY <1>1, SchedulingInv, MessagingInv
<1>2. ASSUME NEW child \in PD, CreatePD(child) PROVE IInv'
  BY <1>2, CreatePDInv
<1>3. ASSUME NEW idx \in SlotArgs, NEW src \in SlotArgs, NEW dst \in SlotArgs,
             DelegateCap(idx, src, dst)
      PROVE  IInv'
  BY <1>3, DelegateCapInv
<1>4. ASSUME NEW e \in EC, NEW prio \in NewPriority,
             NEW slot \in SlotArgs, NEW idx \in SlotArgs,
             CreateEC(e, prio, slot, idx)
      PROVE  IInv'
  BY <1>4, CreateECInv
<1>5. CASE UNCHANGED vars
  <2>1. SInv'
    BY <1>5 DEF vars, ecVars, ipcVars, IInv, SInv, FieldsOK, CurrentsAgree,
                StopsOnlyIdle
  <2>2. UNCHANGED <<sched, created, pd, caps, children, parent, pds>>
    BY <1>5 DEF vars, ecVars, pdVars
  <2>3. DomainsOK' /\ Tree' /\ Populated'
    BY <2>2 DEF IInv, DInv, DomainsOK, Tree, Populated
  <2>4. AuthorityFlowsDown' /\ CapsMatchEcs'
    BY <2>2 DEF IInv, DInv, AuthorityFlowsDown, CapsMatchEcs, Holds
  <2> QED BY <2>1, <2>3, <2>4 DEF IInv, DInv
<1> QED BY <1>1, <1>2, <1>3, <1>4, <1>5 DEF Next

\* The inductive invariant holds in every state the kernel reaches.
THEOREM Inductive == Spec => []IInv
BY InitIInv, NextIInv, PTL DEF Spec

-----------------------------------------------------------------------------
\* What it is for.

\* The kernel's state is well formed (scheduler.h:11-18, pd.h:11-13, ec.h:48-62)
\* whatever slots, indices and priorities programs pass.
THEOREM TypeCorrect == Spec => []TypeOK
<1>1. IInv => TypeOK
  BY SInvTypes DEF IInv, DInv, DomainsOK, TypeOK
<1> QED BY <1>1, Inductive, PTL

\* No handler returns to user level with Ec::current and
\* Scheduler::current_ec naming different ECs (syscall.cc:207-210, 225-228).
THEOREM OneCurrent == Spec => []CurrentsAgree
<1>1. IInv => CurrentsAgree
  BY DEF IInv, SInv
<1> QED BY <1>1, Inductive, PTL

\* No system call loses an EC, doubles one or leaves it in another queue than
\* that of its priority (scheduler.cc:90, 112).
THEOREM EveryEcCounted == Spec => []Accounting
<1>1. IInv => Accounting
  BY SInvTypes DEF IInv
<1> QED BY <1>1, Inductive, PTL

\* The machine panics for want of an EC to run only when all are blocked
\* (user.cc:15).
THEOREM PanicOnlyIdle == Spec => []StopsOnlyIdle
<1>1. IInv => StopsOnlyIdle
  BY DEF IInv, SInv
<1> QED BY <1>1, Inductive, PTL

\* The domains form a tree, each at one index of its parent's table
\* (pd.cc:19-39).
THEOREM DomainsFormATree == Spec => []PdTree
<1>1. IInv => PdTree
  <2> SUFFICES ASSUME Tree PROVE PdTree
    BY DEF IInv, DInv
  <2>1. ASSUME NEW p \in pds \ {RootPd}
        PROVE  Cardinality({i \in Slots : children[parent[p]][i] = p}) = 1
    BY FS_Singleton DEF Tree
  <2> QED BY <2>1 DEF Tree, PdTree
<1> QED BY <1>1, Inductive, PTL

\* Delegation and creation spread the authority over an EC down the tree only
\* (syscall.cc:62, 73, 175).
THEOREM AuthorityConfined == Spec => []AuthorityFlowsDown
<1>1. IInv => AuthorityFlowsDown
  BY DEF IInv, DInv
<1> QED BY <1>1, Inductive, PTL

\* No capability dangles, and every EC can be named in its own domain
\* (syscall.cc:60-75).
THEOREM NoCapDangles == Spec => []CapsMatchEcs
<1>1. IInv => CapsMatchEcs
  BY DEF IInv, DInv
<1> QED BY <1>1, Inductive, PTL

\* A filled slot, of capabilities or of children, is never overwritten
\* (pd.cc:6-7, 20-25).
THEOREM SlotsForGood == Spec => SlotsKeepMeaning
<1> DEFINE Kept == \A p \in PD, i \in Slots :
                      /\ caps[p][i] # NULL => caps'[p][i] = caps[p][i]
                      /\ children[p][i] # NULL => children'[p][i] = children[p][i]
<1>1. ASSUME IInv, [Next]_vars PROVE Kept
  <2>0. DomainsOK
    BY <1>1 DEF IInv, DInv
  <2>1. CASE UNCHANGED pdVars \/ UNCHANGED vars
    BY <2>1 DEF pdVars, vars
  <2>2. ASSUME NEW child \in PD, CreatePD(child) PROVE Kept
    <3> DEFINE own == pd[current]
               free == {i \in Slots : children[own][i] = NULL}
    <3>1. CASE free = {}
      BY <2>2, <3>1 DEF CreatePD
    <3>2. CASE free # {}
      <4>1. free \in SUBSET Nat
        BY DEF Slots
      <4>2. FirstOf(free) \in free
        BY <3>2, <4>1, FirstOfExists
      <4>3. children[own][FirstOf(free)] = NULL
        BY <4>2
      <4>4. /\ children' = [children EXCEPT ![own][FirstOf(free)] = child]
            /\ UNCHANGED caps
        BY <2>2, <3>2 DEF CreatePD
      <4> HIDE DEF own, free
      <4> QED BY <4>3, <4>4, <2>0 DEF DomainsOK
    <3> QED BY <3>1, <3>2
  <2>3. ASSUME NEW idx \in SlotArgs, NEW src \in SlotArgs, NEW dst \in SlotArgs,
               DelegateCap(idx, src, dst)
        PROVE  Kept
    <3>1. \/ UNCHANGED <<caps, children>>
          \/ /\ caps[Child(idx)][dst] = NULL /\ UNCHANGED children
             /\ caps' = [caps EXCEPT ![Child(idx)][dst] = GetCap(src)]
      BY <2>3 DEF DelegateCap, Settable
    <3> QED BY <3>1, <2>0 DEF DomainsOK
  <2>4. ASSUME NEW e \in EC, NEW prio \in NewPriority,
               NEW slot \in SlotArgs, NEW idx \in SlotArgs,
               CreateEC(e, prio, slot, idx)
        PROVE  Kept
    <3>1. CASE UNCHANGED pdVars
      BY <3>1, <2>1
    <3>2. CASE CreateDone(e, prio, slot, idx)
      <4> DEFINE own == pd[current]
                 target == Child(idx)
      <4>1. /\ caps[target][slot] = NULL /\ UNCHANGED children
            /\ \/ caps' = [caps EXCEPT ![target][slot] = e]
               \/ /\ caps' = [caps EXCEPT ![target][slot] = e, ![own][slot] = e]
                  /\ caps[own][slot] = NULL
        BY <3>2 DEF CreateDone, Settable
      <4> HIDE DEF own, target
      <4>2. CASE caps' = [caps EXCEPT ![target][slot] = e]
        BY <2>0, <4>1, <4>2 DEF DomainsOK
      <4>3. CASE /\ caps' = [caps EXCEPT ![target][slot] = e, ![own][slot] = e]
                 /\ caps[own][slot] = NULL
        BY <2>0, <4>1, <4>3 DEF DomainsOK
      <4> QED BY <4>1, <4>2, <4>3
    <3> QED BY <2>4, <3>1, <3>2 DEF CreateEC, CreateRefused, CreateOutOfRange,
                                    CreateFaults
  <2> QED BY <1>1, <2>1, <2>2, <2>3, <2>4 DEF Next
<1>2. IInv /\ [Next]_vars => [Kept]_vars
  BY <1>1
<1> QED BY <1>2, Inductive, PTL DEF Spec, SlotsKeepMeaning

-----------------------------------------------------------------------------
\* Priority inheritance, with the two priorities the kernel has.

\* An EC that is not there yet has not been boosted.
BInv == BaseOrSaved /\ \A e \in EC \ created : saved_priority[e] = 0

\* A step that changes no priority.
LEMMA PrioritiesKept ==
  ASSUME BInv, sched'.priority = sched.priority,
         UNCHANGED <<saved_priority, created, base>>
  PROVE  BInv'
BY DEF BInv, BaseOrSaved

LEMMA TwoLevels ==
  ASSUME NUM_PRIORITIES <= 2
  PROVE  \A l \in Levels : l = 0 \/ l = 1
BY QueueAssumption DEF Levels

LEMMA SchedulingKeeps ==
  ASSUME IInv, BInv, Scheduling
  PROVE  BInv'
<1>0. Sound(sched) /\ current \in EC
  BY DEF IInv, SInv
<1>1. CASE SysYield
  <2>1. sched' = Yielded(sched) /\ UNCHANGED <<saved_priority, created, base>>
    BY <1>1 DEF SysYield, Switch, ipcVars
  <2>2. sched'.priority = sched.priority
    BY <1>0, <2>1, YieldedSound DEF Dispatched
  <2> QED BY <2>1, <2>2, PrioritiesKept
<1>2. ASSUME NEW target \in EC \cup {NULL}, SysBlock(target) PROVE BInv'
  <2>1. /\ sched' = sched \/ (target \in EC /\ sched' = Blocked(sched, target))
        /\ UNCHANGED <<saved_priority, created, base>>
    BY <1>2 DEF SysBlock, Switch, Return, ipcVars
  <2>2. \A e \in EC : Blocked(sched, e).priority = sched.priority
    <3> TAKE e \in EC
    <3>1. CASE e = sched.current_ec
      BY <1>0, <3>1, BlockedSound DEF Dispatched
    <3>2. CASE e # sched.current_ec
      BY <1>0, <3>2, BlockedSound
    <3> QED BY <3>1, <3>2
  <2>3. sched'.priority = sched.priority
    BY <2>1, <2>2
  <2> QED BY <2>1, <2>3, PrioritiesKept
<1>3. ASSUME NEW target \in EC \cup {NULL}, SysUnblock(target) PROVE BInv'
  <2>1. /\ sched' = sched \/ (target \in EC /\ sched' = Marked(sched, target, FALSE))
        /\ UNCHANGED <<saved_priority, created, base>>
    BY <1>3 DEF SysUnblock, Return, Unblocked, ipcVars
  <2>2. sched'.priority = sched.priority
    BY <1>0, <2>1, MarkedSound
  <2> QED BY <2>1, <2>2, PrioritiesKept
<1>4. CASE SysUnblockAll
  <2>1. sched' = AllUnblocked(sched) /\ UNCHANGED <<saved_priority, created, base>>
    BY <1>4 DEF SysUnblockAll, Return, ipcVars
  <2>2. sched'.priority = sched.priority
    BY <1>0, <2>1, AllUnblockedSound
  <2> QED BY <2>1, <2>2, PrioritiesKept
<1>5. ASSUME NEW slot \in SlotArgs, SysBlock(GetCap(slot)) PROVE BInv'
  BY <1>2, <1>5, GetCapOK DEF SysBlock
<1>6. ASSUME NEW slot \in SlotArgs, SysUnblock(GetCap(slot)) PROVE BInv'
  BY <1>3, <1>6, GetCapOK DEF SysUnblock
<1> QED BY <1>0, <1>1, <1>2, <1>4, <1>5, <1>6 DEF Scheduling

\* A boost is recorded exactly when the priority was the EC's own.
LEMMA SlowSendKeeps ==
  ASSUME NUM_PRIORITIES <= 2, IInv, BInv, NEW target \in created,
         NEW value \in Values, SlowSend(target, value)
  PROVE  BInv'
<1> DEFINE prio == sched.priority[current]
           r == IF Boosts(target) THEN Reprioritized(sched, target, prio) ELSE sched
<1>1. /\ Sound(sched) /\ current \in EC /\ target \in EC /\ created \subseteq EC
      /\ sched.priority \in [EC -> Levels] /\ saved_priority \in [EC -> Levels]
      /\ base \in [EC -> Levels]
  BY DEF IInv, SInv, FieldsOK, Sound, SchedulerState
<1>2. sched' = Blocked(r, current) /\ UNCHANGED <<created, base>>
  BY DEF SlowSend, Switch
<1>3. prio \in Levels /\ sched.priority[target] \in Levels
  BY <1>1
<1>4. /\ Sound(r)
      /\ r.priority = IF Boosts(target) THEN [sched.priority EXCEPT ![target] = prio]
                                        ELSE sched.priority
  <2>1. \A l \in Levels :
           /\ Sound(Reprioritized(sched, target, l))
           /\ Reprioritized(sched, target, l).priority
                 = [sched.priority EXCEPT ![target] = l]
    BY <1>1, ReprioritizedSound
  <2> QED BY <1>1, <1>3, <2>1
<1>5. sched'.priority = r.priority
  <2> HIDE DEF r
  <2> QED BY <1>1, <1>2, <1>4, BlockedSound DEF Dispatched
<1>6. CASE ~Boosts(target)
  <2>1. UNCHANGED saved_priority
    BY <1>6 DEF SlowSend
  <2> QED BY <1>2, <1>4, <1>5, <1>6, <2>1, PrioritiesKept
<1>7. CASE Boosts(target)
  <2>1. /\ sched'.priority = [sched.priority EXCEPT ![target] = prio]
        /\ saved_priority' = [saved_priority EXCEPT ![target] = sched.priority[target]]
    BY <1>4, <1>5, <1>7 DEF SlowSend
  <2>2. prio = 0 /\ sched.priority[target] = 1
    <3>1. /\ prio = 0 \/ prio = 1
          /\ sched.priority[target] = 0 \/ sched.priority[target] = 1
      BY <1>3, TwoLevels
    <3>2. prio < sched.priority[target]
      BY <1>7 DEF Boosts
    <3> HIDE DEF prio
    <3> QED BY <3>1, <3>2
  <2>3. base[target] = 1
    <3>1. base[target] = 0 \/ base[target] = 1
      BY <1>1, TwoLevels
    <3> QED BY <2>2, <3>1 DEF BInv, BaseOrSaved
  <2> HIDE DEF prio, r
  <2> QED BY <1>1, <1>2, <2>1, <2>2, <2>3 DEF BInv, BaseOrSaved
<1> QED BY <1>6, <1>7

LEMMA GivenBack ==
  ASSUME IInv, May("recv")
  PROVE  /\ Sound(Restored)
         /\ Restored.priority =
               IF saved_priority[current] # 0
               THEN [sched.priority EXCEPT ![current] = saved_priority[current]]
               ELSE sched.priority
<1>1. Sound(sched) /\ current \in EC /\ saved_priority[current] \in Levels
  BY DEF IInv, SInv, FieldsOK
<1>2. \A l \in Levels :
         /\ Sound(Reprioritized(sched, current, l))
         /\ Reprioritized(sched, current, l).priority
               = [sched.priority EXCEPT ![current] = l]
  BY <1>1, ReprioritizedSound
<1> QED BY <1>1, <1>2 DEF Restored

LEMMA RestoreKeeps ==
  ASSUME IInv, BInv, May("recv"), sched'.priority = Restored.priority,
         saved_priority' = [saved_priority EXCEPT ![current] = 0],
         UNCHANGED <<created, base>>
  PROVE  BInv'
<1>1. /\ current \in created /\ current \in EC /\ created \subseteq EC
      /\ sched.priority \in [EC -> Levels] /\ saved_priority \in [EC -> Levels]
  BY Caller DEF IInv, SInv, FieldsOK, Sound, SchedulerState
<1>2. CASE saved_priority[current] = 0
  <2>1. sched'.priority = sched.priority
    BY <1>2, GivenBack
  <2>2. UNCHANGED saved_priority
    BY <1>1, <1>2
  <2> QED BY <2>1, <2>2, PrioritiesKept
<1>3. CASE saved_priority[current] # 0
  <2>1. sched'.priority = [sched.priority EXCEPT ![current] = saved_priority[current]]
    BY <1>3, GivenBack
  <2> QED BY <1>1, <1>3, <2>1 DEF BInv, BaseOrSaved
<1> QED BY <1>2, <1>3

LEMMA RecvKeeps ==
  ASSUME IInv, BInv, IpcRecv
  PROVE  BInv'
<1>1. CASE RecvPending
  <2> DEFINE sender  == pending_sender[current]
             emptied == pending_sender[sender] = NULL
             r == IF emptied THEN Restored ELSE sched
  <2>1. /\ May("recv") /\ sched' = Marked(r, sender, FALSE)
        /\ UNCHANGED <<created, base>>
        /\ saved_priority' = IF emptied THEN [saved_priority EXCEPT ![current] = 0]
                                        ELSE saved_priority
    BY <1>1 DEF RecvPending, Unblocked
  <2>2. sender \in EC /\ Sound(sched)
    BY <1>1 DEF RecvPending, IInv, SInv, FieldsOK
  <2>3. Sound(r)
    BY <2>1, <2>2, GivenBack
  <2> HIDE DEF sender, r, emptied
  <2>4. sched'.priority = r.priority
    BY <2>1, <2>2, <2>3, MarkedSound
  <2> QED BY <2>1, <2>4, RestoreKeeps, PrioritiesKept DEF r
<1>2. CASE RecvBlocks
  <2>1. /\ May("recv") /\ sched' = Blocked(Restored, current)
        /\ UNCHANGED <<created, base>>
        /\ saved_priority' = [saved_priority EXCEPT ![current] = 0]
    BY <1>2 DEF RecvBlocks, Switch
  <2>2. Sound(Restored) /\ current \in EC
    BY <2>1, GivenBack DEF IInv, SInv
  <2>3. sched'.priority = Restored.priority
    BY <2>1, <2>2, BlockedSound DEF Dispatched
  <2> QED BY <2>1, <2>3, RestoreKeeps
<1> QED BY <1>1, <1>2 DEF IpcRecv

LEMMA MessagingKeeps ==
  ASSUME NUM_PRIORITIES <= 2, IInv, BInv, Messaging
  PROVE  BInv'
<1>1. ASSUME NEW slot \in SlotArgs, NEW v \in Values, IpcSend(GetCap(slot), v)
      PROVE  BInv'
  <2> DEFINE target == GetCap(slot)
  <2>1. May("send") /\ Sound(sched)
    BY <1>1 DEF IpcSend, SendNowhere, FastSend, SlowSend, IInv, SInv
  <2>2. target # NULL => target \in created
    <3>1. target # NULL => Holds(pd[current], target) /\ target \in EC
      BY <2>1, GetCapOK DEF GetCap, Holds
    <3> QED BY <2>1, <3>1, Caller DEF IInv, DInv, CapsMatchEcs
  <2> HIDE DEF target
  <2>3. CASE SendNowhere
    BY <2>3, PrioritiesKept DEF SendNowhere, ipcVars
  <2>4. CASE target # NULL /\ FastSend(target, v)
    <3>1. target \in EC
      BY <2>2, <2>4 DEF IInv, SInv
    <3>2. /\ sched' = Yielded(Marked(sched, target, FALSE))
          /\ UNCHANGED <<saved_priority, created, base>>
      BY <2>4 DEF FastSend, Switch, Unblocked
    <3>3. sched'.priority = sched.priority
      BY <2>1, <3>1, <3>2, MarkedSound, YieldedSound DEF Dispatched
    <3> QED BY <3>2, <3>3, PrioritiesKept
  <2>5. CASE target # NULL /\ SlowSend(target, v)
    BY <2>2, <2>5, SlowSendKeeps
  <2> QED BY <1>1, <2>3, <2>4, <2>5 DEF IpcSend, target
<1> QED BY <1>1, RecvKeeps DEF Messaging

LEMMA SpawnKeeps ==
  ASSUME IInv, BInv, sched.halted = "no", NEW e \in EC, NEW prio \in Levels,
         Spawn(e, prio), UNCHANGED saved_priority
  PROVE  BInv'
<1> DEFINE r == [sched EXCEPT !.priority[e] = prio]
<1>1. /\ Sound(sched) /\ Members(sched) = created /\ created \subseteq EC
      /\ sched.current_ec # NULL
      /\ sched.priority \in [EC -> Levels] /\ base \in [EC -> Levels]
  BY DEF IInv, SInv, FieldsOK, Sound, SchedulerState
<1>2. /\ e \notin created /\ sched' = Scheduled(r, e)
      /\ created' \subseteq created \cup {e} /\ created \subseteq created'
      /\ base' = [base EXCEPT ![e] = prio]
  BY DEF Spawn, Return
<1>3. e \notin Queued(sched)
  BY <1>1, <1>2 DEF Members
<1>4. /\ Sound(r) /\ Members(r) = created /\ r.current_ec # NULL
      /\ r.priority = [sched.priority EXCEPT ![e] = prio]
  <2>1. /\ Sound(r) /\ Members(r) = Members(sched)
        /\ r.current_ec = sched.current_ec
        /\ r.priority = [sched.priority EXCEPT ![e] = prio]
    BY <1>1, <1>3, PrioritySet
  <2> QED BY <1>1, <2>1
<1> HIDE DEF r
<1>5. sched'.priority = r.priority
  <2>1. [r EXCEPT !.halted = "queue full"].priority = r.priority
    BY <1>4 DEF Sound, SchedulerState
  <2> QED BY <1>2, <1>4, <2>1, ScheduledSound
<1>6. saved_priority[e] = 0
  BY <1>2 DEF BInv
<1> QED BY <1>1, <1>2, <1>4, <1>5, <1>6 DEF BInv, BaseOrSaved

\* Priority inheritance never loses an EC's own priority (syscall.cc:217-220,
\* 245-249, 256-259), provided there are no more priorities than the two of
\* scheduler.h:8: an EC that is boosted then runs at 0, so nobody can boost it
\* again and overwrite what the first boost saved.
THEOREM OwnPriorityKept ==
  ASSUME NUM_PRIORITIES <= 2
  PROVE  Spec => []BaseOrSaved
<1>1. Init => BInv
  <2> SUFFICES ASSUME Init PROVE BInv
    OBVIOUS
  <2>1. sched.priority[RootEc] = 0
    <3> DEFINE s == EmptyScheduler
    <3>1. Sound(s) /\ Members(s) = {} /\ s.priority = [e \in EC |-> 0]
      BY EmptySound DEF EmptyScheduler
    <3>2. [s EXCEPT !.halted = "queue full"].priority = s.priority
      BY <3>1 DEF Sound, SchedulerState
    <3> HIDE DEF s
    <3>3. sched.priority = s.priority
      BY <3>1, <3>2, SyscallAssumption, ScheduledSound DEF Init, EcInit, s
    <3> QED BY <3>1, <3>3, SyscallAssumption
  <2> QED BY <2>1, SyscallAssumption
          DEF Init, EcInit, FieldsInit, BInv, BaseOrSaved
<1>2. ASSUME IInv, BInv, [Next]_vars PROVE BInv'
  <2>1. CASE Scheduling \/ Messaging
    BY <1>2, <2>1, SchedulingKeeps, MessagingKeeps
  <2>2. CASE UNCHANGED <<sched, saved_priority, created, base>>
    BY <1>2, <2>2, PrioritiesKept
  <2>3. ASSUME NEW e \in EC, NEW prio \in NewPriority,
               NEW slot \in SlotArgs, NEW idx \in SlotArgs,
               CreateEC(e, prio, slot, idx)
        PROVE  BInv'
    <3>1. CASE UNCHANGED <<sched, ipcVars, created, base>>
      BY <2>2, <3>1 DEF ipcVars
    <3>2. CASE CreateFaults(slot, idx)
      <4>1. sched'.priority = sched.priority
        BY <1>2, <3>2 DEF CreateFaults, IInv, SInv, Sound, SchedulerState
      <4> QED BY <1>2, <3>2, <4>1, PrioritiesKept DEF CreateFaults, ipcVars
    <3>3. CASE CreateDone(e, prio, slot, idx)
      <4>1. sched.halted = "no" /\ prio \in Levels
        BY <2>3, KernelAssumption DEF CreateEC, May
      <4> QED BY <1>2, <3>3, <4>1, SpawnKeeps DEF CreateDone, ipcVars
    <3> QED BY <2>3, <3>1, <3>2, <3>3 DEF CreateEC, CreateRefused, CreateOutOfRange
  <2>4. ASSUME NEW child \in PD, CreatePD(child) PROVE BInv'
    BY <2>2, <2>4 DEF CreatePD, ipcVars
  <2>5. ASSUME NEW idx \in SlotArgs, NEW src \in SlotArgs, NEW dst \in SlotArgs,
               DelegateCap(idx, src, dst)
        PROVE  BInv'
    BY <2>2, <2>5 DEF DelegateCap, ipcVars
  <2> QED BY <1>2, <2>1, <2>2, <2>3, <2>4, <2>5 DEF Next, vars, ecVars, ipcVars
<1>3. BInv => BaseOrSaved
  BY DEF BInv
<1> QED BY <1>1, <1>2, <1>3, Inductive, PTL DEF Spec

-----------------------------------------------------------------------------
\* The program of user.cc. What main builds before its first send is a function
\* of how many calls it has made: it alone runs until then, and nothing it
\* builds is changed later.

\* How many calls e has made.
Made(e) == Len(results[e])

\* What main's calls returned, as main's own Got.
Returned == Append(results[RootEc], eax[RootEc])

Words == /\ eax \in [EC -> Nat]
         /\ ipc_val \in [EC -> Nat]
         /\ results \in [EC -> Seq(Nat)]
         /\ pending_sender \in [EC -> EC \cup {NULL}]

If(b, e) == IF b THEN e ELSE NULL

\* The slots the program uses once main has made k calls, A being the domain
\* of the mappers and B that of the reducer.
Tables(A, B, k) ==
    /\ caps[RootPd][0] = RootEc
    /\ caps[RootPd][1] = If(k > 2, reducer)
    /\ caps[RootPd][2] = If(k > 4, mapper0) /\ caps[A][2] = If(k > 4, mapper0)
    /\ caps[RootPd][3] = If(k > 5, mapper1) /\ caps[A][3] = If(k > 5, mapper1)
    /\ caps[RootPd][4] = If(k > 6, mapper2) /\ caps[A][4] = If(k > 6, mapper2)
    /\ caps[B][1] = If(k > 2, reducer)
    /\ caps[B][0] = If(k > 3, RootEc)
    /\ caps[A][1] = If(k > 7, reducer)

Homes(A, B, k) ==
    /\ pd[RootEc] = RootPd
    /\ k > 2 => pd[reducer] = B
    /\ k > 4 => pd[mapper0] = A
    /\ k > 5 => pd[mapper1] = A
    /\ k > 6 => pd[mapper2] = A

\* What main knows of its children and of the reducer's slot.
Indices(A, B, k) ==
    /\ Returned[2] \in Slots /\ children[RootPd][Returned[2]] = A
    /\ Returned[3] \in Slots /\ children[RootPd][Returned[3]] = B
    /\ k > 2 => Returned[4] = 1

Built(A, B, k) == /\ A # RootPd /\ B # RootPd /\ A # B
                  /\ Tables(A, B, k) /\ Homes(A, B, k)
                  /\ k < 8 => Indices(A, B, k)

\* The tables before the first EC is created.
Fresh == \A p \in PD, i \in Slots :
            caps[p][i] = If(p = RootPd /\ i = 0, RootEc)

OneChild(a) == /\ Returned[2] = a /\ a \in Slots
               /\ children[RootPd][a] \in PD /\ children[RootPd][a] # RootPd
               /\ pds = {RootPd, children[RootPd][a]}
               /\ \A i \in Slots \ {a} : children[RootPd][i] = NULL

Prepared ==
    /\ pd[RootEc] = RootPd
    /\ Made(RootEc) < 9 => current = RootEc
    /\ Made(RootEc) < 2 => Fresh
    /\ Made(RootEc) = 0 => /\ pds = {RootPd}
                           /\ \A i \in Slots : children[RootPd][i] = NULL
    /\ Made(RootEc) = 1 => \E a \in Slots : OneChild(a)
    /\ Made(RootEc) > 1 => \E A, B \in PD : Built(A, B, Made(RootEc))

PInv == Words /\ DomainsOK /\ Prepared

LEMMA FiveEcs ==
  /\ reducer \in EC /\ mapper0 \in EC /\ mapper1 \in EC /\ mapper2 \in EC
  /\ RootEc \in EC /\ NULL \notin EC /\ RootPd \in PD /\ NULL \notin PD
  /\ RootEc # reducer /\ RootEc # mapper0 /\ RootEc # mapper1 /\ RootEc # mapper2
  /\ reducer # mapper0 /\ reducer # mapper1 /\ reducer # mapper2
  /\ mapper0 # mapper1 /\ mapper0 # mapper2 /\ mapper1 # mapper2
  /\ FRAME \in Nat /\ {0, 1, 2, 3, 4} \subseteq Slots /\ \A i \in Slots : i \in Nat
BY DemoAssumption, SyscallAssumption, KernelAssumption, QueueAssumption DEF Slots

\* What the running EC knows: what it knew, and its last result.
LEMMA GotIs ==
  ASSUME Words, current \in EC
  PROVE  /\ Got \in Seq(Nat) /\ n = Made(current) + 1 /\ n \in Nat
         /\ Len(Got) = n /\ Made(current) \in Nat
         /\ \A k \in 1 .. Made(current) : Got[k] = results[current][k]
         /\ Got[n] = eax[current]
         /\ \A k \in 1 .. n : Got[k] \in Nat
<1> DEFINE q == results[current]
           w == eax[current]
<1>1. q \in Seq(Nat) /\ w \in Nat
  BY DEF Words
<1>2. Got = Append(q, w) /\ n = Len(Got) /\ Made(current) = Len(q)
  BY DEF Got, n, Made
<1> HIDE DEF q, w
<1>3. /\ Append(q, w) \in Seq(Nat) /\ Len(Append(q, w)) = Len(q) + 1
      /\ Len(q) \in Nat /\ Append(q, w)[Len(q) + 1] = w
      /\ \A k \in 1 .. Len(q) : Append(q, w)[k] = q[k]
  BY <1>1, AppendProperties
<1>4. \A k \in 1 .. Len(q) + 1 : Append(q, w)[k] \in Nat
  BY <1>3
<1> QED BY <1>2, <1>3, <1>4 DEF q, w


\* A call of main adds its result to what main knows.
LEMMA MainCalled ==
  ASSUME Words, current = RootEc, results' = [results EXCEPT ![current] = Got],
         eax' \in [EC -> Nat]
  PROVE  /\ Got = Returned /\ n = Made(RootEc) + 1 /\ Made(RootEc) \in Nat
         /\ results' \in [EC -> Seq(Nat)] /\ Made(RootEc)' = Made(RootEc) + 1
         /\ \A k \in 1 .. Made(RootEc) + 1 : Returned'[k] = Returned[k]
         /\ Returned'[Made(RootEc) + 2] = eax'[RootEc]
<1> DEFINE w == eax'[RootEc]
           g == Got
<1>1. current \in EC /\ RootEc \in EC /\ w \in Nat
  BY FiveEcs
<1>2. /\ g \in Seq(Nat) /\ Len(g) = Made(RootEc) + 1 /\ Made(RootEc) \in Nat
      /\ n = Made(RootEc) + 1 /\ g = Returned
  BY <1>1, GotIs DEF Got, Returned
<1>3. results'[RootEc] = g /\ results' \in [EC -> Seq(Nat)]
  BY <1>1, <1>2 DEF Words
<1>4. Returned' = Append(g, w) /\ Made(RootEc)' = Len(g)
  BY <1>3 DEF Returned, Made
<1> HIDE DEF g, w
<1>5. /\ \A k \in 1 .. Len(g) : Append(g, w)[k] = g[k]
      /\ Append(g, w)[Len(g) + 1] = w
  BY <1>1, <1>2, AppendProperties
<1>6. Len(g) + 1 = Made(RootEc) + 2
  BY <1>2
<1> QED BY <1>2, <1>3, <1>4, <1>5, <1>6 DEF g, w

\* Both tables once e is created in T.
InBoth(T, slot, e) == [caps EXCEPT ![T][slot] = e, ![RootPd][slot] = e]

\* create_ec by the root domain in a child of it, both slots free.
LEMMA CreatesEc ==
  ASSUME DomainsOK, current = RootEc, pd[RootEc] = RootPd, NEW e \in EC, NEW prio,
         NEW slot \in Slots, NEW idx \in Slots, NEW T \in PD,
         children[RootPd][idx] = T, caps[T][slot] = NULL,
         caps[RootPd][slot] = NULL, CreateEC(e, prio, slot, idx)
  PROVE  /\ pd' = [pd EXCEPT ![e] = T]
         /\ caps' = InBoth(T, slot, e)
         /\ eax' = Result(slot)
         /\ UNCHANGED <<current, ipcVars, children, parent, pds>>
<1>1. Child(idx) = T /\ T # NULL /\ pd[current] = RootPd
  BY FiveEcs DEF Child
<1>2. Settable(caps, T, slot) /\ Settable(caps, RootPd, slot)
  BY DEF Settable
<1>3. CreateDone(e, prio, slot, idx)
  BY <1>1, <1>2 DEF CreateEC, CreateRefused, CreateOutOfRange, CreateFaults
<1> QED BY <1>1, <1>2, <1>3 DEF CreateDone, Spawn, Return, InBoth

\* delegate_cap by the root domain of an EC it can name, into a free slot.
LEMMA Delegates ==
  ASSUME DomainsOK, current = RootEc, pd[RootEc] = RootPd,
         NEW idx \in Slots, NEW src \in Slots, NEW dst \in Slots, NEW T \in PD,
         NEW e \in EC, children[RootPd][idx] = T, caps[RootPd][src] = e,
         caps[T][dst] = NULL, DelegateCap(idx, src, dst)
  PROVE  /\ caps' = [caps EXCEPT ![T][dst] = e] /\ eax' = Result(0)
         /\ UNCHANGED <<current, ipcVars, pd, children, parent, pds>>
<1>1. Child(idx) = T /\ GetCap(src) = e /\ T # NULL /\ e # NULL
  BY FiveEcs DEF Child, GetCap
<1> QED BY <1>1 DEF DelegateCap, Settable

\* A result of a call that is no word of the message system.
LEMMA ResultWord ==
  ASSUME Words, current = RootEc, NEW w \in Nat, eax' = Result(w),
         UNCHANGED ipcVars
  PROVE  /\ eax' \in [EC -> Nat] /\ eax'[RootEc] = w
         /\ ipc_val' \in [EC -> Nat]
         /\ pending_sender' \in [EC -> EC \cup {NULL}]
BY FiveEcs DEF Words, Result, ipcVars

\* Calls 1 and 2 of main: the two domains.
LEMMA PdsBuilt ==
  ASSUME PInv, current = RootEc, n \in {1, 2}, NEW child \in PD,
         CreatePD(child), results' = [results EXCEPT ![current] = Got]
  PROVE  PInv'
<1> DEFINE free == {i \in Slots : children[RootPd][i] = NULL}
           k == Made(RootEc)
<1>0. Words /\ DomainsOK /\ Prepared
  BY DEF PInv
<1>1. k \in {0, 1} /\ pd[RootEc] = RootPd /\ Fresh
  <2>1. n = k + 1 /\ k \in Nat
    BY <1>0, GotIs, FiveEcs
  <2>2. k \in {0, 1}
    BY <2>1
  <2> QED BY <1>0, <2>2 DEF Prepared
<1>2. free \in SUBSET Nat /\ free # {}
  <2>0. free \in SUBSET Nat /\ 0 \in Slots
    <3>1. 0 \in Slots /\ \A i \in Slots : i \in Nat
      BY FiveEcs
    <3> QED BY <3>1
  <2>1. CASE k = 0
    <3>1. children[RootPd][0] = NULL
      BY <1>0, <2>0, <2>1 DEF Prepared
    <3> QED BY <2>0, <3>1
  <2>2. CASE k = 1
    <3>1. PICK a \in Slots : \A i \in Slots \ {a} : children[RootPd][i] = NULL
      BY <1>0, <2>2 DEF Prepared, OneChild
    <3>2. 0 \in Slots /\ 1 \in Slots
      BY FiveEcs
    <3>3. 0 \in free \/ 1 \in free
      BY <3>1, <3>2
    <3> QED BY <2>0, <3>3
  <2> QED BY <1>1, <2>0, <2>1, <2>2
<1>3. PICK b \in Slots : b = FirstOf(free) /\ children[RootPd][b] = NULL
  <2>1. FirstOf(free) \in free
    <3> HIDE DEF free
    <3> QED BY <1>2, FirstOfExists
  <2> QED BY <2>1
<1>4. /\ children' = [children EXCEPT ![RootPd][b] = child]
      /\ pds' = pds \cup {child} /\ parent' = [parent EXCEPT ![child] = RootPd]
      /\ eax' = Result(b) /\ child \notin pds
      /\ UNCHANGED <<current, ipcVars, pd, caps>>
  BY <1>1, <1>2, <1>3 DEF CreatePD
<1>5. b \in Nat
  BY FiveEcs
<1>6. /\ eax' \in [EC -> Nat] /\ eax'[RootEc] = b /\ ipc_val' \in [EC -> Nat]
      /\ pending_sender' \in [EC -> EC \cup {NULL}]
  BY <1>0, <1>4, <1>5, ResultWord
<1>7. /\ results' \in [EC -> Seq(Nat)] /\ Made(RootEc)' = k + 1
      /\ Returned'[k + 2] = b
      /\ \A j \in 1 .. k + 1 : Returned'[j] = Returned[j]
  BY <1>0, <1>6, MainCalled
<1>8. Words'
  BY <1>6, <1>7 DEF Words
<1>9. DomainsOK'
  BY <1>0, <1>4, FiveEcs DEF DomainsOK
<1>10. /\ children'[RootPd][b] = child
       /\ \A i \in Slots \ {b} : children'[RootPd][i] = children[RootPd][i]
  BY <1>0, <1>4, FiveEcs DEF DomainsOK
<1>11. CASE k = 0
  <2>1. pds = {RootPd} /\ \A i \in Slots : children[RootPd][i] = NULL
    BY <1>0, <1>11 DEF Prepared
  <2>2. Fresh' /\ current' = RootEc /\ pd'[RootEc] = RootPd
    BY <1>1, <1>4 DEF Fresh
  <2>3. OneChild(b)'
    BY <1>4, <1>7, <1>10, <1>11, <2>1 DEF OneChild
  <2>4. Made(RootEc)' = 1
    BY <1>7, <1>11
  <2>5. Prepared'
    BY <2>2, <2>3, <2>4 DEF Prepared
  <2> QED BY <1>8, <1>9, <2>5 DEF PInv
<1>12. CASE k = 1
  <2>1. PICK a \in Slots : OneChild(a)
    BY <1>0, <1>12 DEF Prepared
  <2>2. PICK A \in PD : A = children[RootPd][a]
    BY <2>1 DEF OneChild
  <2>3. A # RootPd /\ child # RootPd /\ A # child /\ a # b
    BY <1>3, <1>4, <2>1, <2>2, FiveEcs DEF OneChild
  <2>4. Made(RootEc)' = 2 /\ Returned'[2] = a /\ Returned'[3] = b
    BY <1>7, <1>12, <2>1 DEF OneChild
  <2>5. Fresh'
    BY <1>1, <1>4 DEF Fresh
  <2>6. Tables(A, child, 2)'
    <3>1. \A p \in {RootPd, A, child}, i \in 0 .. 4 :
             caps'[p][i] = If(p = RootPd /\ i = 0, RootEc)
      BY <2>5, FiveEcs DEF Fresh
    <3> QED BY <2>3, <3>1 DEF Tables, If
  <2>7. Homes(A, child, 2)' /\ Indices(A, child, 2)'
    BY <1>1, <1>4, <1>10, <2>2, <2>3, <2>4 DEF Homes, Indices
  <2>8. Built(A, child, Made(RootEc))'
    BY <2>3, <2>4, <2>6, <2>7 DEF Built
  <2>9. Prepared'
    BY <1>1, <1>4, <2>4, <2>8 DEF Prepared
  <2> QED BY <1>8, <1>9, <2>9 DEF PInv
<1> QED BY <1>1, <1>11, <1>12

\* Calls 3 to 8 of main: what they find.
LEMMA BuildingOn ==
  ASSUME PInv, current = RootEc, n \in 3 .. 8
  PROVE  /\ Words /\ DomainsOK /\ pd[RootEc] = RootPd
         /\ Made(RootEc) = n - 1 /\ Made(RootEc) \in 2 .. 7
         /\ Got = Returned
         /\ \E A, B \in PD : Built(A, B, n - 1)
<1>1. Words /\ DomainsOK /\ Prepared /\ current \in EC
  BY FiveEcs DEF PInv
<1>2. n = Made(RootEc) + 1 /\ Made(RootEc) \in Nat
  BY <1>1, GotIs
<1>3. Made(RootEc) = n - 1 /\ Made(RootEc) \in 2 .. 7
  BY <1>2
<1>4. Got = Returned
  BY DEF Got, Returned
<1>5. \E A, B \in PD : Built(A, B, Made(RootEc))
  BY <1>1, <1>3 DEF Prepared
<1> QED BY <1>1, <1>3, <1>4, <1>5 DEF Prepared

\* What they leave.
LEMMA BuiltOn ==
  ASSUME PInv, current = RootEc, NEW k \in 2 .. 7, Made(RootEc) = k,
         NEW A \in PD, NEW B \in PD, Built(A, B, k),
         NEW w \in Nat, eax' = Result(w), k = 2 => w = 1,
         UNCHANGED <<current, ipcVars, children, parent, pds>>,
         results' = [results EXCEPT ![current] = Got],
         DomainsOK', Tables(A, B, k + 1)', Homes(A, B, k + 1)'
  PROVE  PInv'
<1>0. Words /\ DomainsOK /\ Prepared
  BY DEF PInv
<1>1. /\ eax' \in [EC -> Nat] /\ eax'[RootEc] = w /\ ipc_val' \in [EC -> Nat]
      /\ pending_sender' \in [EC -> EC \cup {NULL}]
  BY <1>0, ResultWord
<1>2. /\ results' \in [EC -> Seq(Nat)] /\ Made(RootEc)' = k + 1
      /\ Returned'[k + 2] = w
      /\ \A j \in 1 .. k + 1 : Returned'[j] = Returned[j]
  BY <1>0, <1>1, MainCalled
<1>3. Words'
  BY <1>1, <1>2 DEF Words
<1>4. Indices(A, B, k + 1)'
  <2>1. Indices(A, B, k)
    BY DEF Built
  <2>2. Returned'[2] = Returned[2] /\ Returned'[3] = Returned[3]
    BY <1>2
  <2>3. Returned'[4] = 1
    <3>1. CASE k = 2
      BY <1>2, <3>1
    <3>2. CASE k # 2
      BY <1>2, <2>1, <3>2 DEF Indices
    <3> QED BY <3>1, <3>2
  <2> QED BY <2>1, <2>2, <2>3 DEF Indices
<1>5. Built(A, B, Made(RootEc))'
  BY <1>2, <1>4 DEF Built
<1>6. Prepared'
  <2>1. Made(RootEc)' > 1 /\ Made(RootEc)' # 0 /\ ~(Made(RootEc)' < 2)
        /\ Made(RootEc)' # 1
    BY <1>2
  <2>2. pd'[RootEc] = RootPd
    BY DEF Homes
  <2> QED BY <1>5, <2>1, <2>2 DEF Prepared
<1> QED BY <1>0, <1>3, <1>6 DEF PInv

\* Call 3: the reducer.
LEMMA ReducerBuilt ==
  ASSUME PInv, current = RootEc, n = 3, NEW prio,
         CreateEC(reducer, prio, 1, Got[3]),
         results' = [results EXCEPT ![current] = Got]
  PROVE  PInv'
<1>1. /\ Words /\ DomainsOK /\ pd[RootEc] = RootPd /\ Made(RootEc) = 2
      /\ Got = Returned /\ \E A, B \in PD : Built(A, B, 2)
  BY BuildingOn
<1>2. PICK A \in PD, B \in PD : Built(A, B, 2)
  BY <1>1
<1>3. PICK b \in Slots : b = Got[3] /\ children[RootPd][b] = B
  BY <1>1, <1>2 DEF Built, Indices
<1>4. caps[B][1] = NULL /\ caps[RootPd][1] = NULL /\ 1 \in Slots
  BY <1>2, FiveEcs DEF Built, Tables, If
<1>5. /\ pd' = [pd EXCEPT ![reducer] = B]
      /\ caps' = InBoth(B, 1, reducer)
      /\ eax' = Result(1)
      /\ UNCHANGED <<current, ipcVars, children, parent, pds>>
  <2>1. CreateEC(reducer, prio, 1, b) /\ reducer \in EC
    BY <1>3, FiveEcs
  <2> QED BY <2>1, <1>1, <1>3, <1>4, CreatesEc
<1>6. DomainsOK'
  BY <1>1, <1>4, <1>5, FiveEcs DEF DomainsOK, InBoth
<1>7. Tables(A, B, 3)' /\ Homes(A, B, 3)'
  BY <1>1, <1>2, <1>5, FiveEcs DEF Built, Tables, Homes, If, DomainsOK, InBoth
<1> QED BY <1>1, <1>2, <1>5, <1>6, <1>7, BuiltOn

\* Call 4: the reducer's domain learns of main.
LEMMA MainDelegated ==
  ASSUME PInv, current = RootEc, n = 4, DelegateCap(Got[3], 0, 0),
         results' = [results EXCEPT ![current] = Got]
  PROVE  PInv'
<1>1. /\ Words /\ DomainsOK /\ pd[RootEc] = RootPd /\ Made(RootEc) = 3
      /\ Got = Returned /\ \E A, B \in PD : Built(A, B, 3)
  BY BuildingOn
<1>2. PICK A \in PD, B \in PD : Built(A, B, 3)
  BY <1>1
<1>3. PICK b \in Slots : b = Got[3] /\ children[RootPd][b] = B
  BY <1>1, <1>2 DEF Built, Indices
<1>4. caps[B][0] = NULL /\ caps[RootPd][0] = RootEc /\ 0 \in Slots
  BY <1>2, FiveEcs DEF Built, Tables, If
<1>5. /\ caps' = [caps EXCEPT ![B][0] = RootEc] /\ eax' = Result(0)
      /\ UNCHANGED <<current, ipcVars, pd, children, parent, pds>>
  <2>1. DelegateCap(b, 0, 0) /\ RootEc \in EC
    BY <1>3, FiveEcs
  <2> QED BY <2>1, <1>1, <1>3, <1>4, Delegates
<1>6. DomainsOK'
  BY <1>1, <1>4, <1>5, FiveEcs DEF DomainsOK
<1>7. Tables(A, B, 4)' /\ Homes(A, B, 4)'
  BY <1>1, <1>2, <1>5, FiveEcs DEF Built, Tables, Homes, If, DomainsOK
<1> QED BY <1>1, <1>2, <1>5, <1>6, <1>7, BuiltOn

\* Call 8: the mappers' domain learns of the reducer.
LEMMA ReducerDelegated ==
  ASSUME PInv, current = RootEc, n = 8, DelegateCap(Got[2], Got[4], 1),
         results' = [results EXCEPT ![current] = Got]
  PROVE  PInv'
<1>1. /\ Words /\ DomainsOK /\ pd[RootEc] = RootPd /\ Made(RootEc) = 7
      /\ Got = Returned /\ \E A, B \in PD : Built(A, B, 7)
  BY BuildingOn
<1>2. PICK A \in PD, B \in PD : Built(A, B, 7)
  BY <1>1
<1>3. PICK a \in Slots : a = Got[2] /\ children[RootPd][a] = A
  BY <1>1, <1>2 DEF Built, Indices
<1>4. /\ caps[A][1] = NULL /\ caps[RootPd][1] = reducer /\ Got[4] = 1
      /\ 1 \in Slots
  BY <1>1, <1>2, FiveEcs DEF Built, Indices, Tables, If
<1>5. /\ caps' = [caps EXCEPT ![A][1] = reducer] /\ eax' = Result(0)
      /\ UNCHANGED <<current, ipcVars, pd, children, parent, pds>>
  <2>1. DelegateCap(a, 1, 1) /\ reducer \in EC
    BY <1>3, <1>4, FiveEcs
  <2> QED BY <2>1, <1>1, <1>3, <1>4, Delegates
<1>6. DomainsOK'
  BY <1>1, <1>4, <1>5, FiveEcs DEF DomainsOK
<1>7. Tables(A, B, 8)' /\ Homes(A, B, 8)'
  BY <1>1, <1>2, <1>5, FiveEcs DEF Built, Tables, Homes, If, DomainsOK
<1> QED BY <1>1, <1>2, <1>5, <1>6, <1>7, BuiltOn

\* Calls 5 to 7: the mappers.
LEMMA MapperBuilt ==
  ASSUME PInv, current = RootEc, NEW i \in 1 .. 3, n = 4 + i,
         CreateEC(Mappers[i], 0, MAPPER_SLOTS[i], Got[2]),
         results' = [results EXCEPT ![current] = Got]
  PROVE  PInv'
<1>0. n \in 3 .. 8 /\ n - 1 = 3 + i
  OBVIOUS
<1>1. /\ Words /\ DomainsOK /\ pd[RootEc] = RootPd /\ Made(RootEc) = 3 + i
      /\ Got = Returned /\ \E A, B \in PD : Built(A, B, 3 + i)
  BY <1>0, BuildingOn
<1>2. PICK A \in PD, B \in PD : Built(A, B, 3 + i)
  BY <1>1
<1>3. PICK a \in Slots : a = Got[2] /\ children[RootPd][a] = A
  BY <1>1, <1>2 DEF Built, Indices
<1>4. PICK m \in EC, s \in Slots : m = Mappers[i] /\ s = MAPPER_SLOTS[i]
  BY FiveEcs DEF Mappers, MAPPER_SLOTS
<1>5. /\ i = 1 => m = mapper0 /\ s = 2
      /\ i = 2 => m = mapper1 /\ s = 3
      /\ i = 3 => m = mapper2 /\ s = 4
  BY <1>4 DEF Mappers, MAPPER_SLOTS
<1>6. caps[A][s] = NULL /\ caps[RootPd][s] = NULL
  BY <1>2, <1>5 DEF Built, Tables, If
<1>7. CreateEC(m, 0, s, a)
  BY <1>3, <1>4
<1>8. /\ pd' = [pd EXCEPT ![m] = A]
      /\ caps' = InBoth(A, s, m)
      /\ eax' = Result(s)
      /\ UNCHANGED <<current, ipcVars, children, parent, pds>>
  <2>1. children[RootPd][a] = A /\ current = RootEc
    BY <1>3
  <2> QED BY <2>1, <1>1, <1>6, <1>7, CreatesEc
<1>9. DomainsOK'
  BY <1>1, <1>8, FiveEcs DEF DomainsOK, InBoth
<1>10. Tables(A, B, 4 + i)' /\ Homes(A, B, 4 + i)'
  <2>1. CASE i = 1
    BY <2>1, <1>1, <1>2, <1>5, <1>8, FiveEcs
       DEF Built, Tables, Homes, If, DomainsOK, InBoth
  <2>2. CASE i = 2
    BY <2>2, <1>1, <1>2, <1>5, <1>8, FiveEcs
       DEF Built, Tables, Homes, If, DomainsOK, InBoth
  <2>3. CASE i = 3
    BY <2>3, <1>1, <1>2, <1>5, <1>8, FiveEcs
       DEF Built, Tables, Homes, If, DomainsOK, InBoth
  <2> QED BY <2>1, <2>2, <2>3
<1> DEFINE k == 3 + i
<1>11. k \in 2 .. 7 /\ k # 2 /\ k + 1 = 4 + i /\ s \in Nat
  BY FiveEcs
<1>12. Made(RootEc) = k /\ Built(A, B, k) /\ Tables(A, B, k + 1)' /\ Homes(A, B, k + 1)'
  BY <1>1, <1>2, <1>10, <1>11
<1> HIDE DEF k
<1> QED BY <1>8, <1>9, <1>11, <1>12, BuiltOn

\* Once main has built everything, each program finds what it sends to.
LEMMA TargetsFound ==
  ASSUME PInv, Made(RootEc) > 7
  PROVE  /\ current = RootEc => /\ GetCap(2) = mapper0 /\ GetCap(3) = mapper1
                                /\ GetCap(4) = mapper2
         /\ current \in {mapper0, mapper1, mapper2} => GetCap(1) = reducer
         /\ current = reducer => GetCap(0) = RootEc
<1>1. \E A, B \in PD : Built(A, B, Made(RootEc))
  <2>1. Made(RootEc) \in Nat
    BY FiveEcs DEF PInv, Words, Made
  <2>2. Made(RootEc) > 1
    BY <2>1
  <2> QED BY <2>2 DEF PInv, Prepared
<1>2. PICK A \in PD, B \in PD : Built(A, B, Made(RootEc))
  BY <1>1
<1> DEFINE k == Made(RootEc)
<1>3. k \in Nat /\ k > 7
  BY FiveEcs DEF PInv, Words, Made
<1> HIDE DEF k
<1>4. Tables(A, B, k) /\ Homes(A, B, k)
  BY <1>2 DEF Built, k
<1> QED BY <1>3, <1>4, FiveEcs DEF Tables, Homes, If, GetCap

\* The words that the message system hands on are words.
LEMMA MessagesAreWords ==
  ASSUME Words,
         \/ SysYield
         \/ /\ current \in EC
            /\ IpcRecv \/ \E t \in EC, v \in Nat : IpcSend(t, v)
  PROVE  /\ eax' \in [EC -> Nat] /\ ipc_val' \in [EC -> Nat]
         /\ pending_sender' \in [EC -> EC \cup {NULL}]
<1>1. FRAME \in Nat /\ NULL \notin EC
  BY FiveEcs
<1>2. Entered \in [EC -> Nat]
  BY <1>1 DEF Entered, Words
<1>3. CASE SysYield
  BY <1>2, <1>3 DEF SysYield, ipcVars, Words
<1>4. CASE RecvPending /\ current \in EC
  <2>1. PICK f \in EC : f = pending_sender[current]
    BY <1>4 DEF RecvPending, Words
  <2>2. ipc_val[f] \in Nat /\ pending_sender[f] \in EC \cup {NULL}
    BY DEF Words
  <2>3. /\ eax' = Result(ipc_val[f]) /\ UNCHANGED ipc_val
        /\ pending_sender' = [pending_sender EXCEPT ![current] = pending_sender[f]]
    BY <1>4, <2>1 DEF RecvPending
  <2> QED BY <2>2, <2>3 DEF Words, Result
<1>5. CASE RecvBlocks /\ current \in EC
  BY <1>2, <1>5 DEF RecvBlocks, Words
<1>6. ASSUME current \in EC, NEW t \in EC, NEW v \in Nat, IpcSend(t, v)
      PROVE  /\ eax' \in [EC -> Nat] /\ ipc_val' \in [EC -> Nat]
             /\ pending_sender' \in [EC -> EC \cup {NULL}]
  <2>1. FastSend(t, v) \/ SlowSend(t, v)
    BY <1>1, <1>6 DEF IpcSend
  <2>2. CASE FastSend(t, v)
    BY <1>2, <2>2 DEF FastSend, Words
  <2>3. CASE SlowSend(t, v)
    BY <1>2, <1>6, <2>3 DEF SlowSend, Words
  <2> QED BY <2>1, <2>2, <2>3
<1> QED BY <1>3, <1>4, <1>5, <1>6 DEF IpcRecv

\* From then on the tables stay as they are.
LEMMA BuiltStays ==
  ASSUME PInv, Made(RootEc) > 7, UNCHANGED <<pd, pdVars>>, Words',
         \/ results' = results /\ current # RootEc
         \/ current \in EC /\ results' = [results EXCEPT ![current] = Got]
  PROVE  PInv'
<1> DEFINE k == Made(RootEc)
<1>0. Words /\ DomainsOK /\ Prepared
  BY DEF PInv
<1>1. k \in Nat /\ k > 7
  BY <1>0, FiveEcs DEF Words, Made
<1>2. k' \in Nat /\ k' > 8
  <2>1. CASE results' = results /\ current # RootEc
    <3>1. k' = k
      BY <2>1 DEF Made
    <3>2. ~(k < 9)
      BY <1>0, <2>1 DEF Prepared
    <3> QED BY <1>1, <3>1, <3>2
  <2>2. CASE results' = [results EXCEPT ![current] = Got] /\ current = RootEc
    <3>1. results'[RootEc] = Got
      BY <1>0, <2>2, FiveEcs DEF Words
    <3>2. Len(Got) = k + 1
      BY <1>0, <2>2, GotIs
    <3>3. k' = k + 1
      BY <3>1, <3>2 DEF Made
    <3> QED BY <1>1, <3>3
  <2>3. CASE results' = [results EXCEPT ![current] = Got] /\ current # RootEc
    <3>1. k' = k
      BY <1>0, <2>3, FiveEcs DEF Words, Made
    <3>2. ~(k < 9)
      BY <1>0, <2>3 DEF Prepared
    <3> QED BY <1>1, <3>1, <3>2
  <2> QED BY <2>1, <2>2, <2>3
<1>3. UNCHANGED <<pd, caps, children>>
  BY DEF pdVars
<1>4. DomainsOK'
  BY <1>0 DEF DomainsOK, pdVars
<1>5. PICK A \in PD, B \in PD : Built(A, B, k)
  <2>1. k > 1
    BY <1>1
  <2> QED BY <1>0, <2>1 DEF Prepared
<1>6. Built(A, B, k)'
  <2>1. PICK i \in Nat, j \in Nat : i = k /\ j = k' /\ i > 7 /\ j > 7
    BY <1>1, <1>2
  <2>2. Tables(A, B, i) /\ Homes(A, B, i) /\ A # RootPd /\ B # RootPd /\ A # B
    BY <1>5, <2>1 DEF Built
  <2>3. Tables(A, B, j)' /\ Homes(A, B, j)'
    BY <1>3, <2>1, <2>2 DEF Tables, Homes, If
  <2> QED BY <2>1, <2>2, <2>3 DEF Built
<1>7. Prepared'
  <2>1. k' # 0 /\ k' # 1 /\ ~(k' < 2) /\ k' > 1 /\ ~(k' < 9)
    BY <1>2
  <2>2. pd'[RootEc] = RootPd
    BY <1>0, <1>3 DEF Prepared
  <2> QED BY <1>6, <2>1, <2>2 DEF Prepared
<1> QED BY <1>4, <1>7 DEF PInv

\* Every step of the program that is a message or a yield().
LEMMA MessageStep ==
  ASSUME PInv, Made(RootEc) > 7, UNCHANGED <<pd, pdVars>>,
         \/ SysYield
         \/ /\ current \in EC
            /\ IpcRecv \/ \E t \in EC, v \in Nat : IpcSend(t, v),
         \/ results' = results /\ current # RootEc
         \/ current \in EC /\ results' = [results EXCEPT ![current] = Got]
  PROVE  PInv'
<1>1. /\ eax' \in [EC -> Nat] /\ ipc_val' \in [EC -> Nat]
      /\ pending_sender' \in [EC -> EC \cup {NULL}]
  BY MessagesAreWords DEF PInv
<1>2. results' \in [EC -> Seq(Nat)]
  BY GotIs DEF PInv, Words
<1>3. Words'
  BY <1>1, <1>2 DEF Words
<1> QED BY <1>3, BuiltStays

\* Others than main run only once main has built everything.
LEMMA OthersLater ==
  ASSUME PInv, current # RootEc
  PROVE  Made(RootEc) > 8 /\ Made(RootEc) > 7
<1>1. Made(RootEc) \in Nat /\ ~(Made(RootEc) < 9)
  BY FiveEcs DEF PInv, Words, Made, Prepared
<1> QED BY <1>1

LEMMA MainStep ==
  ASSUME PInv, current = RootEc, MainCalls,
         results' = [results EXCEPT ![current] = Got]
  PROVE  PInv'
<1>0. current \in EC /\ Words /\ n \in Nat /\ n = Made(RootEc) + 1
      /\ Made(RootEc) \in Nat
  BY FiveEcs, GotIs DEF PInv
<1>1. CASE n \in {1, 2} /\ \E child \in PD : CreatePD(child)
  BY <1>1, PdsBuilt
<1>2. CASE n = 3 /\ CreateEC(reducer, reducer_priority, REDUCER_SLOT, Got[3])
  <2>1. PICK prio : prio = reducer_priority
    OBVIOUS
  <2>2. CreateEC(reducer, prio, 1, Got[3])
    BY <1>2, <2>1 DEF REDUCER_SLOT
  <2> QED BY <1>2, <2>2, ReducerBuilt
<1>3. CASE n = 4 /\ DelegateCap(Got[3], MAIN_SLOT, MAIN_SLOT)
  BY <1>3, MainDelegated DEF MAIN_SLOT
<1>4. ASSUME NEW i \in 1 .. NUM_MAPPERS, n = 4 + i,
             CreateEC(Mappers[i], 0, MAPPER_SLOTS[i], Got[2])
      PROVE  PInv'
  BY <1>4, MapperBuilt DEF NUM_MAPPERS
<1>5. CASE n = 8 /\ DelegateCap(Got[2], Got[4], REDUCER_SLOT)
  BY <1>5, ReducerDelegated DEF REDUCER_SLOT
<1>6. ASSUME NEW i \in 1 .. NUM_MAPPERS, n = 8 + i,
             ipc_send(MAPPER_SLOTS[i], Inputs[i])
      PROVE  PInv'
  <2>1. i \in 1 .. 3 /\ Made(RootEc) > 7
    BY <1>0, <1>6 DEF NUM_MAPPERS
  <2>2. Inputs[i] \in Nat
    BY <2>1, DemoAssumption
  <2>3. GetCap(MAPPER_SLOTS[i]) \in EC
    BY <2>1, TargetsFound, FiveEcs, <1>0 DEF MAPPER_SLOTS
  <2>4. \E t \in EC, v \in Nat : IpcSend(t, v)
    BY <1>6, <2>2, <2>3 DEF ipc_send
  <2> QED BY <1>0, <1>6, <2>1, <2>4, MessageStep DEF ipc_send
<1>7. CASE n = 12 /\ ipc_recv
  <2>1. Made(RootEc) > 7
    BY <1>0, <1>7
  <2> QED BY <1>0, <1>7, <2>1, MessageStep DEF ipc_recv
<1> HIDE DEF MainCalls
<1>8. \/ n \in {1, 2} /\ \E child \in PD : CreatePD(child)
      \/ n = 3 /\ CreateEC(reducer, reducer_priority, REDUCER_SLOT, Got[3])
      \/ n = 4 /\ DelegateCap(Got[3], MAIN_SLOT, MAIN_SLOT)
      \/ \E i \in 1 .. NUM_MAPPERS :
            n = 4 + i /\ CreateEC(Mappers[i], 0, MAPPER_SLOTS[i], Got[2])
      \/ n = 8 /\ DelegateCap(Got[2], Got[4], REDUCER_SLOT)
      \/ \E i \in 1 .. NUM_MAPPERS :
            n = 8 + i /\ ipc_send(MAPPER_SLOTS[i], Inputs[i])
      \/ n = 12 /\ ipc_recv
  BY Zenon DEF MainCalls
<1> QED BY <1>1, <1>2, <1>3, <1>4, <1>5, <1>6, <1>7, <1>8

LEMMA MapperStep ==
  ASSUME PInv, current \in {mapper0, mapper1, mapper2}, MapperCalls,
         results' = [results EXCEPT ![current] = Got]
  PROVE  PInv'
<1>1. current \in EC /\ current # RootEc /\ reducer \in EC
  BY FiveEcs
<1>2. Made(RootEc) > 7
  BY <1>1, OthersLater
<1>3. GetCap(REDUCER_SLOT) \in EC
  BY <1>1, <1>2, TargetsFound DEF REDUCER_SLOT
<1>4. n = 3 => Got[2] * Got[2] \in Nat
  BY <1>1, GotIs DEF PInv
<1>5. \/ SysYield \/ IpcRecv
      \/ \E t \in EC, v \in Nat : IpcSend(t, v)
  BY <1>3, <1>4 DEF MapperCalls, ipc_recv, ipc_send, yield
<1>6. UNCHANGED <<pd, pdVars>>
  BY DEF MapperCalls, ipc_recv, ipc_send, yield
<1> QED BY <1>1, <1>2, <1>5, <1>6, MessageStep

LEMMA ReducerStep ==
  ASSUME PInv, current = reducer, ReducerCalls,
         results' = [results EXCEPT ![current] = Got]
  PROVE  PInv'
<1>1. current \in EC /\ current # RootEc /\ RootEc \in EC
  BY FiveEcs
<1>2. Made(RootEc) > 7
  BY <1>1, OthersLater
<1>3. GetCap(MAIN_SLOT) \in EC
  BY <1>1, <1>2, TargetsFound DEF MAIN_SLOT
<1>4. n = 4 => Got[2] + Got[3] + Got[4] \in Nat
  BY <1>1, GotIs DEF PInv
<1>5. \/ SysYield \/ IpcRecv
      \/ \E t \in EC, v \in Nat : IpcSend(t, v)
  BY <1>3, <1>4 DEF ReducerCalls, ipc_recv, ipc_send
<1>6. UNCHANGED <<pd, pdVars>>
  BY DEF ReducerCalls, ipc_recv, ipc_send
<1> QED BY <1>1, <1>2, <1>5, <1>6, MessageStep

LEMMA NextPInv == PInv /\ [DemoNext]_demoVars => PInv'
<1> SUFFICES ASSUME PInv, [DemoNext]_demoVars PROVE PInv'
  OBVIOUS
<1>1. CASE Calling
  BY <1>1, MainStep, MapperStep, ReducerStep DEF Calling
<1>2. CASE Report
  <2>1. current = RootEc /\ current \in EC /\ n = 13 /\ UNCHANGED vars
        /\ results' = [results EXCEPT ![current] = Got]
    BY <1>2, FiveEcs DEF Report
  <2>2. Made(RootEc) > 7
    <3>1. 13 = Made(RootEc) + 1 /\ Made(RootEc) \in Nat
      BY <2>1, GotIs DEF PInv
    <3> QED BY <3>1
  <2>3. UNCHANGED <<pd, pdVars, eax, ipc_val, pending_sender>>
    BY <2>1 DEF vars, ecVars, ipcVars
  <2>4. results' \in [EC -> Seq(Nat)]
    BY <2>1, GotIs DEF PInv, Words
  <2>5. Words'
    BY <2>3, <2>4 DEF PInv, Words
  <2> QED BY <2>1, <2>2, <2>3, <2>5, BuiltStays
<1>3. CASE Retire
  <2>1. current # RootEc /\ SysYield /\ UNCHANGED <<pd, pdVars, results>>
    BY <1>3 DEF Retire, yield
  <2>2. Made(RootEc) > 7
    BY <2>1, OthersLater
  <2> QED BY <2>1, <2>2, MessageStep
<1>4. CASE UNCHANGED demoVars
  <2>1. /\ UNCHANGED <<current, pd, caps, children, parent, pds, eax, ipc_val>>
        /\ UNCHANGED <<pending_sender, results>>
    BY <1>4 DEF demoVars, vars, ecVars, ipcVars, pdVars
  <2>2. UNCHANGED <<Made(RootEc), Returned>>
    BY <2>1 DEF Made, Returned
  <2> QED
    BY <2>1, <2>2 DEF PInv, Words, DomainsOK, Prepared, Fresh, OneChild, Built,
                      Tables, Homes, Indices
<1> QED BY <1>1, <1>2, <1>3, <1>4 DEF DemoNext

LEMMA InitPInv == DemoInit => PInv
<1> SUFFICES ASSUME DemoInit PROVE PInv
  OBVIOUS
<1> DEFINE none == << >>
<1>1. none \in Seq(Nat) /\ Len(none) = 0
  OBVIOUS
<1> HIDE DEF none
<1>2. results = [e \in EC |-> none]
  BY DEF DemoInit, none
<1>3. results \in [EC -> Seq(Nat)] /\ Made(RootEc) = 0
  BY <1>1, <1>2, FiveEcs DEF Made
<1>4. Words
  BY <1>3, FiveEcs DEF DemoInit, FieldsInit, Words
<1>5. DomainsOK /\ pd[RootEc] = RootPd /\ Fresh
  BY FiveEcs DEF DemoInit, PdInit, DomainsOK, Fresh, If
<1>6. pds = {RootPd} /\ (\A i \in Slots : children[RootPd][i] = NULL)
      /\ current = RootEc
  BY FiveEcs DEF DemoInit, PdInit, FieldsInit
<1>7. Prepared
  BY <1>3, <1>5, <1>6 DEF Prepared
<1> QED BY <1>4, <1>5, <1>7 DEF PInv

LEMMA PreparedAlways == DemoSpec => []PInv
BY InitPInv, NextPInv, PTL DEF DemoSpec

\* No call of the program of user.cc fails, whatever numbers it is given and
\* whatever priority the reducer has, one without a queue included: every slot
\* and every child that a program names is what main built before it first
\* sent, so none of the error loops is reached (user.cc:101, 110, 129, 147).
THEOREM DemoCallsSucceed == DemoSpec => []NoCallFails
<1>1. PInv => NoCallFails
  <2> SUFFICES ASSUME PInv, NEW e \in EC PROVE eax[e] >= 0
    BY DEF NoCallFails
  <2>1. eax[e] \in Nat
    BY DEF PInv, Words
  <2> QED BY <2>1
<1> QED BY <1>1, PreparedAlways, PTL

-----------------------------------------------------------------------------
\* The message system under this program. The lemmas about the handlers know
\* only priorities that have a queue. As long as the machine runs, a queue that
\* the scan of yield() never visits makes no difference: what it picked is what
\* a scan of LAST_PRIORITY + 1 queues would have picked.

Wide == INSTANCE SyscallsProofs WITH NUM_PRIORITIES <- LAST_PRIORITY + 1

\* The message system is sound, as one with the wider scan.
Steady == Wide!SInv /\ Wide!FlagsAgree

LEMMA WideAssumptions ==
  /\ Wide!QueueAssumption /\ Wide!SyscallAssumption
  /\ LAST_PRIORITY \in Nat /\ Wide!Levels = 0 .. LAST_PRIORITY
  /\ Levels \subseteq Wide!Levels
  /\ \A p \in Levels, q \in Wide!Levels \ Levels : p < q
<1>1. LAST_PRIORITY \in Nat /\ NUM_PRIORITIES <= LAST_PRIORITY + 1
  BY DemoAssumption
<1>2. NUM_PRIORITIES \in Nat \ {0} /\ MAX_ECS \in Nat \ {0} /\ NULL \notin EC
  BY QueueAssumption
<1>3. Wide!QueueAssumption
  BY <1>1, <1>2 DEF Wide!QueueAssumption
<1>4. Wide!SyscallAssumption
  BY SyscallAssumption
     DEF Wide!SyscallAssumption, SyscallAssumption, Wide!Calls, Calls
<1>5. Wide!Levels = 0 .. LAST_PRIORITY
  BY <1>1 DEF Wide!Levels
<1> QED BY <1>1, <1>2, <1>3, <1>4, <1>5 DEF Levels

\* What the scan finds, the wider scan finds too.
LEMMA SameDispatch ==
  ASSUME NEW s \in Wide!SchedulerState, Dispatch(s).halted = "no"
  PROVE  Wide!Dispatch(s) = Dispatch(s)
<1> DEFINE few == {p \in Levels : Runnable(s.queues[p]) # {}}
           all == {p \in Wide!Levels : Runnable(s.queues[p]) # {}}
<1>1. few # {}
  <2> SUFFICES ASSUME few = {} PROVE FALSE
    OBVIOUS
  <2>1. Dispatch(s) = [s EXCEPT !.halted = "no ECs to run"]
    BY DEF Dispatch
  <2>2. Dispatch(s).halted = "no ECs to run"
    BY <2>1 DEF Wide!SchedulerState
  <2> QED BY <2>2
<1>2. few \in SUBSET Nat /\ all \in SUBSET Nat /\ few \subseteq all
  BY WideAssumptions DEF Levels
<1>3. \A p \in few, q \in all \ few : p < q
  BY WideAssumptions
<1>4. FirstOf(few) = FirstOf(all)
  <2>1. FirstOf(few) \in few /\ \A q \in few : FirstOf(few) <= q
    BY <1>1, <1>2, FirstOfExists
  <2>2. FirstOf(all) \in all /\ \A q \in all : FirstOf(all) <= q
    BY <1>1, <1>2, FirstOfExists
  <2> HIDE DEF few, all
  <2>3. PICK a \in few, b \in all : a = FirstOf(few) /\ b = FirstOf(all)
    BY <2>1, <2>2
  <2>4. a \in Nat /\ b \in Nat /\ b <= a
    BY <1>2, <2>2, <2>3
  <2>5. b \in few
    BY <1>3, <2>3, <2>4
  <2> QED BY <2>1, <2>3, <2>4, <2>5
<1>5. all # {}
  BY <1>1, <1>2
<1>6. Dispatch(s) = [s EXCEPT
        !.current_ec = s.queues[FirstOf(few)][FirstOf(Runnable(s.queues[FirstOf(few)]))].ec,
        !.queues[FirstOf(few)] = TakeOut(@, FirstOf(Runnable(s.queues[FirstOf(few)])))]
  BY <1>1 DEF Dispatch
<1>7. Wide!Dispatch(s) = [s EXCEPT
        !.current_ec = s.queues[FirstOf(all)][FirstOf(Runnable(s.queues[FirstOf(all)]))].ec,
        !.queues[FirstOf(all)] = TakeOut(@, FirstOf(Runnable(s.queues[FirstOf(all)])))]
  BY <1>5 DEF Wide!Dispatch, Wide!Runnable, Runnable, Wide!FirstOf, FirstOf,
              Wide!TakeOut, TakeOut
<1> QED BY <1>4, <1>6, <1>7

LEMMA SameYield ==
  ASSUME NEW s, Wide!Sound(s), Yielded(s).halted = "no"
  PROVE  Wide!Yielded(s) = Yielded(s)
<1> DEFINE r == IF s.current_ec = NULL THEN s ELSE Preempted(s, FALSE)
<1>1. Wide!Preempted(s, FALSE) = Preempted(s, FALSE)
  BY DEF Wide!Preempted, Preempted, Wide!Enqueue, Enqueue
<1>2. r \in Wide!SchedulerState
  <2>1. CASE s.current_ec = NULL
    BY <2>1 DEF Wide!Sound
  <2>2. CASE s.current_ec # NULL
    <3>1. Wide!Sound(Wide!Preempted(s, FALSE))
      BY <2>2, WideAssumptions, Wide!PreemptedSound
    <3> QED BY <1>1, <2>2, <3>1 DEF Wide!Sound
  <2> QED BY <2>1, <2>2
<1>3. Yielded(s) = Dispatch(r) /\ Wide!Yielded(s) = Wide!Dispatch(r)
  BY <1>1 DEF Yielded, Wide!Yielded
<1> HIDE DEF r
<1> QED BY <1>2, <1>3, SameDispatch

LEMMA SameBlock ==
  ASSUME NEW s, Wide!Sound(s), s.current_ec # NULL,
         Blocked(s, s.current_ec).halted = "no"
  PROVE  Wide!Blocked(s, s.current_ec) = Blocked(s, s.current_ec)
<1> DEFINE r == Preempted(s, TRUE)
<1>1. Wide!Preempted(s, TRUE) = r
  BY DEF Wide!Preempted, Preempted, Wide!Enqueue, Enqueue
<1>2. Wide!Sound(Wide!Preempted(s, TRUE))
  BY WideAssumptions, Wide!PreemptedSound
<1>3. /\ Blocked(s, s.current_ec) = Dispatch(r)
      /\ Wide!Blocked(s, s.current_ec) = Wide!Dispatch(r)
  BY <1>1 DEF Blocked, Wide!Blocked
<1>4. r \in Wide!SchedulerState
  BY <1>1, <1>2 DEF Wide!Sound
<1> HIDE DEF r
<1> QED BY <1>3, <1>4, SameDispatch

\* The operators that look into one queue only are the same.
LEMMA SameQueueOps ==
  /\ \A s, e : Wide!Unblocked(s, e) = Unblocked(s, e)
  /\ \A s, e, p : Wide!Reprioritized(s, e, p) = Reprioritized(s, e, p)
  /\ \A s, e : s.current_ec # NULL => Wide!Scheduled(s, e) = Scheduled(s, e)
  /\ Wide!Restored = Restored
  /\ Wide!Entered = Entered /\ \A w : Wide!Result(w) = Result(w)
  /\ \A c : Wide!May(c) <=> May(c)
  /\ \A t : Wide!Boosts(t) <=> Boosts(t)
  /\ Wide!ipcVars = ipcVars
  /\ Wide!Idle = Idle /\ Wide!Receiving = Receiving
  /\ \A t : Wide!SendingTo(t) = SendingTo(t)
  /\ Wide!Waits = Waits
  /\ \A s : Wide!Return(s) <=> Return(s)
<1>1. \A s, e : Wide!Unblocked(s, e) = Unblocked(s, e)
  BY DEF Wide!Unblocked, Unblocked, Wide!Marked, Marked, Wide!Positions, Positions,
         Wide!FirstOf, FirstOf
<1>2. \A s, e, p : Wide!Reprioritized(s, e, p) = Reprioritized(s, e, p)
  BY DEF Wide!Reprioritized, Reprioritized, Wide!Positions, Positions,
         Wide!FirstOf, FirstOf, Wide!Without, Without, Wide!Enqueue, Enqueue
<1>3. \A s, e : s.current_ec # NULL => Wide!Scheduled(s, e) = Scheduled(s, e)
  BY DEF Wide!Scheduled, Scheduled, Wide!Enqueue, Enqueue
<1>4. Wide!Restored = Restored
  BY <1>2 DEF Wide!Restored, Restored
<1>5. Wide!Entered = Entered /\ \A w : Wide!Result(w) = Result(w)
  BY DEF Wide!Entered, Entered, Wide!Result, Result
<1>6. \A c : Wide!May(c) <=> May(c)
  BY DEF Wide!May, May
<1>7. \A t : Wide!Boosts(t) <=> Boosts(t)
  BY DEF Wide!Boosts, Boosts
<1>8. Wide!ipcVars = ipcVars
  BY DEF Wide!ipcVars, ipcVars
<1>9. /\ Wide!Idle = Idle /\ Wide!Receiving = Receiving
      /\ \A t : Wide!SendingTo(t) = SendingTo(t)
  BY DEF Wide!Idle, Idle, Wide!Receiving, Receiving, Wide!SendingTo, SendingTo
<1>10. Wide!Waits = Waits
  BY <1>9 DEF Wide!Waits, Waits
<1>11. \A s : Wide!Return(s) <=> Return(s)
  BY DEF Wide!Return, Return
<1> QED BY <1>1, <1>2, <1>3, <1>4, <1>5, <1>6, <1>7, <1>8, <1>9, <1>10, <1>11

LEMMA SameSwitch ==
  ASSUME NEW s, NEW waits, Switch(s, waits)
  PROVE  Wide!Switch(s, waits) /\ sched' = s
<1>1. Wide!Idle = Idle
  BY SameQueueOps
<1> QED BY <1>1 DEF Wide!Switch, Switch

LEMMA SteadyCaller ==
  ASSUME Steady, NEW c, May(c)
  PROVE  /\ current \in EC /\ call[current] = Idle
         /\ sched.halted = "no" /\ sched.current_ec = current /\ current # NULL
         /\ Wide!Sound(sched) /\ Wide!FieldsOK /\ call \in [EC -> Waits]
<1>1. Wide!May(c)
  BY SameQueueOps
<1>2. /\ current \in EC /\ call[current] = Wide!Idle /\ current = sched.current_ec
      /\ Wide!Sound(sched) /\ sched.halted = "no"
  BY <1>1, WideAssumptions, Wide!CallerFree DEF Steady
<1>3. Wide!FieldsOK /\ call \in [EC -> Wide!Waits]
  BY DEF Steady, Wide!SInv
<1> QED BY <1>2, <1>3, SameQueueOps, QueueAssumption

LEMMA SteadyYield ==
  ASSUME Steady, SysYield, sched'.halted = "no"
  PROVE  Steady' /\ call' = call
<1>1. Switch(Yielded(sched), call) /\ Wide!Sound(sched)
  BY SteadyCaller DEF SysYield
<1>2. Wide!Switch(Yielded(sched), call) /\ sched' = Yielded(sched)
  BY <1>1, SameSwitch
<1>3. Wide!Yielded(sched) = Yielded(sched)
  BY <1>1, <1>2, SameYield
<1>4. /\ Wide!May("yield") /\ eax' = Wide!Entered
      /\ UNCHANGED <<Wide!ipcVars, created, base>>
  BY SameQueueOps DEF SysYield, ipcVars, Wide!ipcVars
<1>5. Wide!SysYield
  BY <1>2, <1>3, <1>4 DEF Wide!SysYield
<1> QED BY <1>5, WideAssumptions, Wide!YieldInv, Wide!YieldEffect DEF Steady

LEMMA SteadyFastSend ==
  ASSUME Steady, NEW t \in EC, NEW v \in Nat, FastSend(t, v), sched'.halted = "no"
  PROVE  Steady' /\ call' = [call EXCEPT ![t] = Idle]
<1> DEFINE r == Unblocked(sched, t)
           waits == [call EXCEPT ![t] = Idle]
<1>1. Switch(Yielded(r), waits) /\ Wide!Sound(sched)
  BY SteadyCaller DEF FastSend
<1>2. Wide!Unblocked(sched, t) = r /\ Wide!Idle = Idle
  BY SameQueueOps
<1>3. Wide!Sound(r)
  <2>1. Wide!Sound(Wide!Marked(sched, t, FALSE))
    BY <1>1, WideAssumptions, Wide!MarkedSound
  <2> QED BY <1>2, <2>1 DEF Wide!Unblocked
<1>4. Wide!Switch(Yielded(r), waits) /\ sched' = Yielded(r)
  BY <1>1, SameSwitch
<1>5. Wide!Yielded(r) = Yielded(r)
  BY <1>3, <1>4, SameYield
<1>6. /\ Wide!May("send") /\ eax' = [Wide!Entered EXCEPT ![t] = v]
  BY SameQueueOps DEF FastSend
<1>7. Wide!Switch(Wide!Yielded(Wide!Unblocked(sched, t)),
                  [call EXCEPT ![t] = Wide!Idle])
  BY <1>2, <1>4, <1>5
<1>8. /\ pending_sender[t] = t
      /\ pending_sender' = [pending_sender EXCEPT ![t] = NULL]
      /\ UNCHANGED <<saved_priority, ipc_val, created, base>>
  BY DEF FastSend
<1>9. Wide!FastSend(t, v)
  BY <1>6, <1>7, <1>8 DEF Wide!FastSend
<1>10. Wide!SInv' /\ Wide!FlagsAgree' /\ call' = [call EXCEPT ![t] = Wide!Idle]
  BY <1>9, WideAssumptions, Wide!FastSendInv, Wide!FastSendEffect DEF Steady
<1> QED BY <1>2, <1>10 DEF Steady

LEMMA SteadySlowSend ==
  ASSUME Steady, NEW t \in EC, NEW v \in Nat, SlowSend(t, v), sched'.halted = "no"
  PROVE  Steady' /\ call' = [call EXCEPT ![current] = SendingTo(t)]
<1> DEFINE prio == sched.priority[current]
           r == IF Boosts(t) THEN Reprioritized(sched, t, prio) ELSE sched
           waits == [call EXCEPT ![current] = SendingTo(t)]
<1>1. /\ Switch(Blocked(r, current), waits) /\ Wide!Sound(sched)
      /\ current \in EC /\ sched.current_ec = current /\ current # NULL
  BY SteadyCaller DEF SlowSend
<1>2. /\ \A p : Wide!Reprioritized(sched, t, p) = Reprioritized(sched, t, p)
      /\ Wide!SendingTo(t) = SendingTo(t) /\ (Wide!Boosts(t) <=> Boosts(t))
  BY SameQueueOps
<1>3. Wide!Sound(r) /\ r.current_ec = current
  <2>1. prio \in Wide!Levels
    BY <1>1 DEF Wide!Sound, Wide!SchedulerState
  <2> HIDE DEF prio
  <2>2. /\ Wide!Sound(Wide!Reprioritized(sched, t, prio))
        /\ Wide!Reprioritized(sched, t, prio).current_ec = sched.current_ec
    BY <1>1, <2>1, WideAssumptions, Wide!BoostSound
  <2> DEFINE boosted == Reprioritized(sched, t, prio)
  <2>3. Wide!Sound(boosted) /\ boosted.current_ec = current
    BY <1>1, <1>2, <2>2
  <2> HIDE DEF boosted
  <2>4. r = boosted \/ r = sched
    BY DEF r, boosted
  <2> HIDE DEF r
  <2> QED BY <1>1, <2>3, <2>4
<1>4. Wide!Switch(Blocked(r, current), waits) /\ sched' = Blocked(r, current)
  BY <1>1, SameSwitch
<1> HIDE DEF r
<1>5. Wide!Blocked(r, current) = Blocked(r, current)
  BY <1>1, <1>3, <1>4, SameBlock
<1>6. Wide!Switch(Wide!Blocked(r, current), waits)
  BY <1>4, <1>5
<1>7. /\ Wide!May("send") /\ eax' = Wide!Entered
  BY SameQueueOps DEF SlowSend
<1>8. /\ pending_sender[t] # t
      /\ ipc_val' = [ipc_val EXCEPT ![current] = v]
      /\ saved_priority' = IF Boosts(t)
                           THEN [saved_priority EXCEPT ![t] = sched.priority[t]]
                           ELSE saved_priority
      /\ pending_sender' = [pending_sender EXCEPT ![current] = pending_sender[t],
                                                  ![t] = current]
      /\ UNCHANGED <<created, base>>
  BY DEF SlowSend
<1>9. Wide!SlowSend(t, v)
  BY <1>2, <1>6, <1>7, <1>8 DEF Wide!SlowSend, r
<1>10. /\ Wide!SInv' /\ Wide!FlagsAgree'
       /\ call' = [call EXCEPT ![current] = Wide!SendingTo(t)]
  BY <1>9, WideAssumptions, Wide!SlowSendInv, Wide!SlowSendEffect DEF Steady
<1> QED BY <1>2, <1>10 DEF Steady

LEMMA SteadyRecvBlocks ==
  ASSUME Steady, RecvBlocks, sched'.halted = "no"
  PROVE  Steady' /\ call' = [call EXCEPT ![current] = Receiving]
<1> DEFINE r == Restored
           waits == [call EXCEPT ![current] = Receiving]
<1>1. /\ Switch(Blocked(r, current), waits) /\ May("recv")
      /\ current \in EC /\ sched.current_ec = current /\ current # NULL
  BY SteadyCaller DEF RecvBlocks
<1>2. Wide!Restored = r /\ Wide!Receiving = Receiving /\ Wide!May("recv")
  BY <1>1, SameQueueOps
<1>3. Wide!Sound(r) /\ r.current_ec = current
  <2>1. /\ Wide!Sound(Wide!Restored)
        /\ Wide!Restored.current_ec = sched.current_ec
    BY <1>2, WideAssumptions, Wide!RestoredSound DEF Steady
  <2> QED BY <1>1, <1>2, <2>1
<1> HIDE DEF r
<1>4. Wide!Switch(Blocked(r, current), waits) /\ sched' = Blocked(r, current)
  BY <1>1, SameSwitch
<1>5. Wide!Blocked(r, current) = Blocked(r, current)
  BY <1>1, <1>3, <1>4, SameBlock
<1>6. Wide!Switch(Wide!Blocked(Wide!Restored, current),
                  [call EXCEPT ![current] = Wide!Receiving])
  BY <1>2, <1>4, <1>5
<1>7. eax' = Wide!Entered
  BY SameQueueOps DEF RecvBlocks
<1>8. Wide!RecvBlocks
  BY <1>2, <1>6, <1>7 DEF Wide!RecvBlocks, RecvBlocks
<1>9. /\ Wide!SInv' /\ Wide!FlagsAgree'
      /\ call' = [call EXCEPT ![current] = Wide!Receiving]
  BY <1>8, WideAssumptions, Wide!RecvBlocksInv, Wide!RecvBlocksEffect DEF Steady
<1> QED BY <1>2, <1>9 DEF Steady

LEMMA SteadyRecvPending ==
  ASSUME Steady, RecvPending
  PROVE  Steady'
<1>1. /\ Wide!Restored = Restored /\ Wide!Idle = Idle
      /\ \A s, e : Wide!Unblocked(s, e) = Unblocked(s, e)
      /\ \A w : Wide!Result(w) = Result(w)
  BY SameQueueOps
<1>2. Wide!May("recv")
  BY SameQueueOps DEF RecvPending
<1>3. Wide!RecvPending
  BY <1>1, <1>2, Zenon DEF Wide!RecvPending, RecvPending
<1> QED BY <1>3, WideAssumptions, Wide!RecvPendingInv, Wide!RecvPendingEffect
           DEF Steady

\* A call that starts an EC, with a priority of the wider range.
LEMMA SteadySpawn ==
  ASSUME Steady, NEW c, May(c), NEW e \in EC, NEW prio \in Wide!Levels,
         Spawn(e, prio), UNCHANGED ipcVars, eax' \in [EC -> Int]
  PROVE  Steady' /\ call' = call
<1> DEFINE r == [sched EXCEPT !.priority[e] = prio]
<1>1. /\ sched.current_ec = current /\ current # NULL /\ sched.halted = "no"
      /\ Wide!Sound(sched)
  BY SteadyCaller
<1>2. r.current_ec # NULL
  BY <1>1 DEF Wide!Sound, Wide!SchedulerState
<1>3. Wide!Scheduled(r, e) = Scheduled(r, e)
  BY <1>2, SameQueueOps
<1>4. Wide!Return(Scheduled(r, e))
  BY SameQueueOps DEF Spawn
<1>5. Wide!Spawn(e, prio)
  BY <1>3, <1>4 DEF Wide!Spawn, Spawn
<1>6. UNCHANGED Wide!ipcVars
  BY DEF ipcVars, Wide!ipcVars
<1> QED BY <1>1, <1>5, <1>6, WideAssumptions, Wide!SpawnInv, Wide!SpawnEffect
           DEF Steady

\* A call that only writes its result.
LEMMA SteadyResult ==
  ASSUME Steady, UNCHANGED <<sched, current, ipcVars, created, call, base>>,
         eax' \in [EC -> Int]
  PROVE  Steady'
<1>1. UNCHANGED <<pending_sender, saved_priority, ipc_val>>
  BY DEF ipcVars
<1>2. Wide!FieldsOK'
  BY <1>1 DEF Steady, Wide!SInv, Wide!FieldsOK
<1>3. Wide!SInv'
  BY <1>2 DEF Steady, Wide!SInv, Wide!CurrentsAgree, Wide!StopsOnlyIdle
<1>4. Wide!FlagsAgree'
  BY DEF Steady, Wide!FlagsAgree
<1> QED BY <1>3, <1>4 DEF Steady

-----------------------------------------------------------------------------
\* Who has told whom what. A mapper that has not called yet, waits for its
\* number, has it, or has sent its square; the reducer has added up the squares
\* of those mappers whose send is over; main has sent the first numbers, and
\* hears of the reducer when all three squares are in its sum.

Square(i) == Inputs[i] * Inputs[i]

\* main waits for mapper i to take its number.
Sends(i) == call[RootEc] = SendingTo(Mappers[i])

\* Mapper i waits for the reducer to take its square.
Waiting(i) == Made(Mappers[i]) = 3 /\ call[Mappers[i]] = SendingTo(reducer)

\* The reducer has the square of mapper i.
Counted(i) == Made(Mappers[i]) = 3 /\ call[Mappers[i]] = Idle

Count(i) == IF Counted(i) THEN 1 ELSE 0
Adds(i)  == IF Counted(i) THEN Square(i) ELSE 0

\* What the reducer's calls returned, how many of them were a word, their sum.
Known == Append(results[reducer], eax[reducer])

Received ==
    IF call[reducer] = Receiving THEN Made(reducer) - 1 ELSE Made(reducer)

SumOf(k) == IF k = 0 THEN 0
            ELSE IF k = 1 THEN Known[2]
            ELSE IF k = 2 THEN Known[2] + Known[3]
            ELSE Known[2] + Known[3] + Known[4]

MainTalks ==
    /\ Made(RootEc) < 12 =>
          pending_sender[RootEc] = If(call[reducer] = SendingTo(RootEc), reducer)
    /\ Made(RootEc) >= 12 =>
          \/ /\ Made(RootEc) = 12 /\ call[RootEc] = Receiving
             /\ pending_sender[RootEc] = RootEc
          \/ Made(reducer) = 4 /\ (Made(RootEc) = 12 => eax[RootEc] = Squares)
    /\ \A i \in 1 .. 3 :
          Sends(i) => /\ Made(RootEc) = 8 + i /\ Made(Mappers[i]) = 0
                      /\ ipc_val[RootEc] = Inputs[i]

MapperTalks(i) ==
    LET m == Mappers[i]
    IN  \/ Made(m) = 0 /\ pending_sender[m] = If(Sends(i), RootEc)
        \/ Made(m) = 1 /\ call[m] = Receiving /\ pending_sender[m] = m
        \/ /\ Made(m) \in {1, 2} /\ Made(RootEc) >= 8 + i
           /\ Inputs[i] = IF Made(m) = 1 THEN eax[m] ELSE results[m][2]
        \/ /\ Made(m) = 3 /\ Made(RootEc) >= 8 + i
           /\ \/ call[m] = SendingTo(reducer) /\ ipc_val[m] = Square(i)
              \/ call[m] = Idle

\* The reducer's list leads to mappers that wait, and to each by one way.
Links ==
    /\ call[reducer] = Receiving <=> pending_sender[reducer] = reducer
    /\ \/ pending_sender[reducer] \in {NULL, reducer}
       \/ \E i \in 1 .. 3 : Waiting(i) /\ pending_sender[reducer] = Mappers[i]
    /\ \A i \in 1 .. 3 :
          Waiting(i) /\ pending_sender[Mappers[i]] # NULL =>
              /\ \E j \in 1 .. 3 : /\ Waiting(j)
                                   /\ pending_sender[Mappers[i]] = Mappers[j]
              /\ pending_sender[Mappers[i]] # pending_sender[reducer]
              /\ \A j \in 1 .. 3 \ {i} :
                    Waiting(j) => pending_sender[Mappers[j]] #
                                  pending_sender[Mappers[i]]

Adding == /\ Received = Count(1) + Count(2) + Count(3)
          /\ SumOf(Received) = Adds(1) + Adds(2) + Adds(3)

ReducerTalks ==
    \/ /\ Made(reducer) \in 0 .. 3 /\ call[reducer] # SendingTo(RootEc)
       /\ Made(reducer) = 0 => call[reducer] # Receiving
       /\ Links /\ Adding
    \/ /\ Made(reducer) = 4 /\ \A i \in 1 .. 3 : Counted(i)
       /\ call[reducer] = SendingTo(RootEc) => ipc_val[reducer] = Squares

Talk == MainTalks /\ (\A i \in 1 .. 3 : MapperTalks(i)) /\ ReducerTalks

\* When the machine has stopped, nobody makes a call any more.
TInv == /\ PInv /\ OnlyTheSum /\ reducer_priority \in ReducerPriority
        /\ sched.halted = "no" => Steady /\ Talk

LEMMA ThreeMappers ==
  /\ \A i \in 1 .. 3 : /\ Mappers[i] \in {mapper0, mapper1, mapper2}
                       /\ Mappers[i] \in EC /\ Mappers[i] # NULL
                       /\ Mappers[i] # RootEc /\ Mappers[i] # reducer
                       /\ Inputs[i] \in Nat /\ Square(i) \in Nat
  /\ \A i, j \in 1 .. 3 : Mappers[i] = Mappers[j] => i = j
  /\ \A x \in {mapper0, mapper1, mapper2} : \E i \in 1 .. 3 : x = Mappers[i]
  /\ RootEc \in EC /\ reducer \in EC /\ RootEc # reducer
  /\ RootEc # NULL /\ reducer # NULL
  /\ Squares = Square(1) + Square(2) + Square(3)
<1>1. \A i \in 1 .. 3 : i = 1 \/ i = 2 \/ i = 3
  OBVIOUS
<1>2. Mappers[1] = mapper0 /\ Mappers[2] = mapper1 /\ Mappers[3] = mapper2
  BY DEF Mappers
<1>3. \A i \in 1 .. 3 : Inputs[i] \in Nat /\ Square(i) \in Nat
  BY DemoAssumption DEF Square
<1>4. Squares = Square(1) + Square(2) + Square(3)
  BY DEF Squares, Square
<1>5. \A i \in 1 .. 3 : Mappers[i] \in {mapper0, mapper1, mapper2}
  BY <1>1, <1>2
<1>6. \A x \in {mapper0, mapper1, mapper2} :
         x \in EC /\ x # NULL /\ x # RootEc /\ x # reducer
  BY FiveEcs
<1>7. \A i, j \in 1 .. 3 : Mappers[i] = Mappers[j] => i = j
  BY <1>1, <1>2, FiveEcs
<1>8. \A x \in {mapper0, mapper1, mapper2} : \E i \in 1 .. 3 : x = Mappers[i]
  BY <1>2
<1>9. \A i \in 1 .. 3 : /\ Mappers[i] \in EC /\ Mappers[i] # NULL
                         /\ Mappers[i] # RootEc /\ Mappers[i] # reducer
  BY <1>5, <1>6
<1>10. /\ RootEc \in EC /\ reducer \in EC /\ RootEc # reducer
       /\ RootEc # NULL /\ reducer # NULL
  BY FiveEcs
<1> QED BY <1>3, <1>4, <1>5, <1>7, <1>8, <1>9, <1>10

\* A call adds its result to what the caller knows, and to nobody else's.
LEMMA Called ==
  ASSUME Words, NEW c \in EC, current = c, results' = [results EXCEPT ![current] = Got]
  PROVE  /\ Made(c)' = Made(c) + 1 /\ Made(c) = n - 1 /\ n \in Nat
         /\ results'[c] = Got
         /\ \A e \in EC : Made(e) \in Nat
         /\ \A e \in EC \ {c} : Made(e)' = Made(e) /\ results'[e] = results[e]
<1>1. results \in [EC -> Seq(Nat)]
  BY DEF Words
<1>2. results'[c] = Got
  BY <1>1
<1>3. \A e \in EC \ {c} : results'[e] = results[e]
  BY <1>1
<1>4. \A e \in EC : Made(e) \in Nat
  BY <1>1 DEF Made
<1>5. Len(Got) = n /\ n = Made(c) + 1 /\ Made(c) \in Nat /\ n \in Nat
  BY GotIs
<1>6. Made(c)' = Made(c) + 1 /\ Made(c) = n - 1
  <2>1. Made(c)' = Len(Got)
    BY <1>2 DEF Made
  <2> QED BY <1>5, <2>1
<1> QED BY <1>2, <1>3, <1>4, <1>5, <1>6 DEF Made

\* What leaves a mapper alone, but for the end of its send.
LEMMA MapperKept ==
  ASSUME NEW i \in 1 .. 3, NEW m, m = Mappers[i], MapperTalks(i),
         Made(m)' = Made(m), results'[m] = results[m],
         Made(m) # 3 => eax'[m] = eax[m],
         ipc_val'[m] = ipc_val[m],
         Made(m) # 3 => pending_sender'[m] = pending_sender[m],
         \/ call'[m] = call[m]
         \/ Made(m) = 3 /\ call'[m] = Idle,
         Made(RootEc) \in Nat, Made(RootEc)' \in Nat,
         Made(RootEc) <= Made(RootEc)', Sends(i)' <=> Sends(i)
  PROVE  MapperTalks(i)'
<1> DEFINE k == Made(RootEc)
           a == Made(m)
<1>1. k >= 8 + i => k' >= 8 + i
  OBVIOUS
<1>2. a' = a
  OBVIOUS
<1> HIDE DEF k
<1>3. \/ a = 0 /\ pending_sender[m] = If(Sends(i), RootEc)
      \/ a = 1 /\ call[m] = Receiving /\ pending_sender[m] = m
      \/ /\ a \in {1, 2} /\ k >= 8 + i
         /\ Inputs[i] = IF a = 1 THEN eax[m] ELSE results[m][2]
      \/ /\ a = 3 /\ k >= 8 + i
         /\ \/ call[m] = SendingTo(reducer) /\ ipc_val[m] = Square(i)
            \/ call[m] = Idle
  BY DEF MapperTalks, k
<1>4. \/ a' = 0 /\ pending_sender'[m] = If(Sends(i)', RootEc)
      \/ a' = 1 /\ call'[m] = Receiving /\ pending_sender'[m] = m
      \/ /\ a' \in {1, 2} /\ k' >= 8 + i
         /\ Inputs[i] = IF a' = 1 THEN eax'[m] ELSE results'[m][2]
      \/ /\ a' = 3 /\ k' >= 8 + i
         /\ \/ call'[m] = SendingTo(reducer) /\ ipc_val'[m] = Square(i)
            \/ call'[m] = Idle
  <2> HIDE DEF a
  <2>1. \/ call'[m] = call[m]
        \/ a = 3 /\ call'[m] = Idle
    BY DEF a
  <2>2. /\ a # 3 => eax'[m] = eax[m]
        /\ a # 3 => pending_sender'[m] = pending_sender[m]
    BY DEF a
  <2> QED BY <1>1, <1>2, <1>3, <2>1, <2>2 DEF If
<1> QED BY <1>4 DEF MapperTalks, k, If

\* What leaves the reducer and those it has to do with alone.
LEMMA ReducerKept ==
  ASSUME ReducerTalks,
         Made(reducer)' = Made(reducer), results'[reducer] = results[reducer],
         Made(reducer) # 4 => eax'[reducer] = eax[reducer],
         ipc_val'[reducer] = ipc_val[reducer],
         \/ call'[reducer] = call[reducer]
         \/ Made(reducer) = 4 /\ call'[reducer] # SendingTo(RootEc),
         pending_sender'[reducer] = pending_sender[reducer],
         \A i \in 1 .. 3 : /\ Counted(i)' <=> Counted(i)
                           /\ Waiting(i)' <=> Waiting(i)
                           /\ Waiting(i) => pending_sender'[Mappers[i]] =
                                            pending_sender[Mappers[i]]
  PROVE  ReducerTalks'
<1>1. CASE /\ Made(reducer) \in 0 .. 3 /\ call[reducer] # SendingTo(RootEc)
           /\ Made(reducer) = 0 => call[reducer] # Receiving
           /\ Links /\ Adding
  <2>1. call'[reducer] = call[reducer] /\ eax'[reducer] = eax[reducer]
    BY <1>1
  <2>2. Links'
    BY <1>1, <2>1 DEF Links
  <2>3. Received' = Received /\ Known' = Known
    BY <2>1 DEF Received, Known
  <2>4. \A i \in 1 .. 3 : Count(i)' = Count(i) /\ Adds(i)' = Adds(i)
    BY DEF Count, Adds
  <2>5. SumOf(Received)' = SumOf(Received)
    BY <2>3 DEF SumOf
  <2>6. Adding'
    BY <1>1, <2>3, <2>4, <2>5 DEF Adding
  <2> QED BY <1>1, <2>1, <2>2, <2>6 DEF ReducerTalks
<1>2. CASE /\ Made(reducer) = 4 /\ \A i \in 1 .. 3 : Counted(i)
           /\ call[reducer] = SendingTo(RootEc) => ipc_val[reducer] = Squares
  BY <1>2 DEF ReducerTalks
<1> QED BY <1>1, <1>2 DEF ReducerTalks

\* What leaves main alone.
LEMMA MainKept ==
  ASSUME MainTalks, Made(RootEc)' = Made(RootEc),
         Made(RootEc) = 12 => eax'[RootEc] = eax[RootEc],
         call'[RootEc] = call[RootEc],
         pending_sender'[RootEc] = pending_sender[RootEc],
         ipc_val'[RootEc] = ipc_val[RootEc],
         call'[reducer] = SendingTo(RootEc) <=> call[reducer] = SendingTo(RootEc),
         Made(reducer) = 4 => Made(reducer)' = 4,
         \A i \in 1 .. 3 : Made(Mappers[i]) = 0 /\ Sends(i) =>
                               Made(Mappers[i])' = 0
  PROVE  MainTalks'
<1>1. \A i \in 1 .. 3 : Sends(i)' <=> Sends(i)
  BY DEF Sends
<1>2. \A i \in 1 .. 3 :
          Sends(i)' => /\ Made(RootEc)' = 8 + i /\ Made(Mappers[i])' = 0
                       /\ ipc_val'[RootEc] = Inputs[i]
  BY <1>1 DEF MainTalks
<1>3. Made(RootEc)' < 12 =>
        pending_sender'[RootEc] = If(call'[reducer] = SendingTo(RootEc), reducer)
  BY DEF MainTalks, If
<1>4. Made(RootEc)' >= 12 =>
          \/ /\ Made(RootEc)' = 12 /\ call'[RootEc] = Receiving
             /\ pending_sender'[RootEc] = RootEc
          \/ Made(reducer)' = 4 /\ (Made(RootEc)' = 12 => eax'[RootEc] = Squares)
  BY DEF MainTalks
<1> QED BY <1>2, <1>3, <1>4 DEF MainTalks, If

\* main, before its first send.
LEMMA BuildsTalk ==
  ASSUME Words, Talk, current = RootEc, n < 9,
         results' = [results EXCEPT ![current] = Got],
         UNCHANGED <<call, pending_sender, ipc_val>>,
         \A e \in EC \ {RootEc} : eax'[e] = eax[e]
  PROVE  Talk'
<1>1. /\ Made(RootEc)' = Made(RootEc) + 1 /\ Made(RootEc) \in Nat /\ Made(RootEc) < 8
      /\ \A e \in EC \ {RootEc} : Made(e)' = Made(e) /\ results'[e] = results[e]
  BY Called, ThreeMappers
<1>2. MainTalks /\ (\A i \in 1 .. 3 : MapperTalks(i)) /\ ReducerTalks
  BY DEF Talk
<1>3. \A i \in 1 .. 3 : ~ Sends(i) /\ ~ Sends(i)'
  <2>1. \A i \in 1 .. 3 : Made(RootEc) # 8 + i
    BY <1>1
  <2> QED BY <1>2, <2>1 DEF MainTalks, Sends
<1>4. MainTalks'
  <2>1. Made(RootEc) < 12 /\ Made(RootEc)' < 12 /\ ~(Made(RootEc)' >= 12)
    BY <1>1
  <2>2. pending_sender'[RootEc] = If(call'[reducer] = SendingTo(RootEc), reducer)
    BY <1>2, <2>1 DEF MainTalks, If
  <2> QED BY <1>3, <2>1, <2>2 DEF MainTalks, If
<1>5. ASSUME NEW i \in 1 .. 3 PROVE MapperTalks(i)'
  <2>1. PICK m \in EC \ {RootEc} : m = Mappers[i]
    BY ThreeMappers
  <2>2. /\ Made(m)' = Made(m) /\ results'[m] = results[m] /\ eax'[m] = eax[m]
        /\ Made(RootEc) <= Made(RootEc)' /\ Made(RootEc)' \in Nat
    BY <1>1
  <2> QED BY <1>1, <1>2, <1>3, <2>1, <2>2, MapperKept
<1>6. ReducerTalks'
  <2>1. \A i \in 1 .. 3 : /\ Made(Mappers[i])' = Made(Mappers[i])
    BY <1>1, ThreeMappers
  <2>2. \A i \in 1 .. 3 : /\ Counted(i)' <=> Counted(i)
                          /\ Waiting(i)' <=> Waiting(i)
    BY <2>1 DEF Counted, Waiting
  <2>3. /\ Made(reducer)' = Made(reducer) /\ results'[reducer] = results[reducer]
        /\ eax'[reducer] = eax[reducer]
    BY <1>1, ThreeMappers
  <2> QED BY <1>2, <2>2, <2>3, ReducerKept
<1> QED BY <1>4, <1>5, <1>6 DEF Talk

\* main sends a number to a mapper that waits for it.
LEMMA NumberTaken ==
  ASSUME Words, Steady, Talk, current = RootEc, NEW i \in 1 .. 3, n = 8 + i,
         FastSend(Mappers[i], Inputs[i]),
         call' = [call EXCEPT ![Mappers[i]] = Idle],
         results' = [results EXCEPT ![current] = Got]
  PROVE  Talk'
<1>0. PICK m \in EC : /\ m = Mappers[i] /\ m # RootEc /\ m # reducer
                      /\ \A j \in 1 .. 3 \ {i} : Mappers[j] # m
  BY ThreeMappers
<1>1. /\ Made(RootEc)' = Made(RootEc) + 1 /\ Made(RootEc) = 7 + i
      /\ \A e \in EC \ {RootEc} : Made(e)' = Made(e) /\ results'[e] = results[e]
  BY Called, ThreeMappers
<1>2. MainTalks /\ (\A j \in 1 .. 3 : MapperTalks(j)) /\ ReducerTalks
  BY DEF Talk
<1>3. /\ pending_sender[m] = m
      /\ call[RootEc] = Idle
      /\ \A e \in EC \ {m} : call'[e] = call[e]
      /\ \A e \in EC \ {m} : pending_sender'[e] = pending_sender[e]
      /\ \A e \in EC \ {m, RootEc} : eax'[e] = eax[e]
      /\ eax'[m] = Inputs[i] /\ UNCHANGED ipc_val
  <2>1. May("send")
    BY DEF FastSend
  <2>2. call \in [EC -> Waits] /\ call[RootEc] = Idle
    BY <2>1, SteadyCaller
  <2>3. pending_sender \in [EC -> EC \cup {NULL}] /\ eax \in [EC -> Nat]
    BY DEF Words
  <2>4. eax' = [[eax EXCEPT ![RootEc] = FRAME] EXCEPT ![m] = Inputs[i]]
    BY <1>0 DEF FastSend, Entered
  <2>5. /\ pending_sender[m] = m /\ UNCHANGED ipc_val
        /\ pending_sender' = [pending_sender EXCEPT ![m] = NULL]
    BY <1>0 DEF FastSend
  <2>6. \A e \in EC \ {m} : call'[e] = call[e]
    BY <1>0, <2>2
  <2>7. \A e \in EC \ {m} : pending_sender'[e] = pending_sender[e]
    BY <2>3, <2>5
  <2>8. eax'[m] = Inputs[i] /\ \A e \in EC \ {m, RootEc} : eax'[e] = eax[e]
    BY <1>0, <2>3, <2>4
  <2> QED BY <2>2, <2>5, <2>6, <2>7, <2>8
<1>4. Made(m) = 1
  <2>1. MapperTalks(i) /\ ~(Made(RootEc) >= 8 + i)
    BY <1>1, <1>2
  <2>2. If(Sends(i), RootEc) # m
    BY <1>0, ThreeMappers, QueueAssumption DEF If
  <2> QED BY <1>0, <1>3, <2>1, <2>2 DEF MapperTalks
<1>5. \A j \in 1 .. 3 : ~ Sends(j) /\ ~ Sends(j)'
  BY <1>0, <1>3, ThreeMappers, WaysToWait DEF Sends
<1>6. MainTalks'
  <2>1. Made(RootEc) < 12 /\ Made(RootEc)' < 12 /\ ~(Made(RootEc)' >= 12)
    BY <1>1
  <2>2. pending_sender'[RootEc] = If(call'[reducer] = SendingTo(RootEc), reducer)
    BY <1>0, <1>2, <1>3, <2>1, ThreeMappers DEF MainTalks, If
  <2> QED BY <1>5, <2>1, <2>2 DEF MainTalks, If
<1>7. ASSUME NEW j \in 1 .. 3 \ {i} PROVE MapperTalks(j)'
  <2>1. PICK x \in EC \ {RootEc, m} : x = Mappers[j]
    BY <1>0, ThreeMappers
  <2>2. /\ Made(x)' = Made(x) /\ results'[x] = results[x] /\ eax'[x] = eax[x]
        /\ call'[x] = call[x] /\ pending_sender'[x] = pending_sender[x]
        /\ Made(RootEc) <= Made(RootEc)' /\ Made(RootEc) \in Nat
        /\ Made(RootEc)' \in Nat /\ ipc_val'[x] = ipc_val[x]
    BY <1>1, <1>3, <2>1
  <2> QED BY <1>2, <1>5, <2>1, <2>2, MapperKept
<1>8. MapperTalks(i)'
  <2>1. /\ Made(m)' = 1 /\ Made(RootEc)' >= 8 + i
    BY <1>0, <1>1, <1>4
  <2> QED BY <1>0, <1>3, <2>1 DEF MapperTalks
<1>9. ReducerTalks'
  <2>1. \A j \in 1 .. 3 : Made(Mappers[j])' = Made(Mappers[j])
    BY <1>1, ThreeMappers
  <2>2. \A j \in 1 .. 3 \ {i} : /\ call'[Mappers[j]] = call[Mappers[j]]
                                /\ pending_sender'[Mappers[j]] =
                                   pending_sender[Mappers[j]]
    BY <1>0, <1>3, ThreeMappers
  <2>3. ~ Counted(i) /\ ~ Counted(i)' /\ ~ Waiting(i) /\ ~ Waiting(i)'
    BY <1>0, <1>4, <2>1 DEF Counted, Waiting
  <2>4. \A j \in 1 .. 3 : /\ Counted(j)' <=> Counted(j)
                          /\ Waiting(j)' <=> Waiting(j)
                          /\ Waiting(j) => pending_sender'[Mappers[j]] =
                                           pending_sender[Mappers[j]]
    BY <2>1, <2>2, <2>3 DEF Counted, Waiting
  <2>5. /\ Made(reducer)' = Made(reducer) /\ results'[reducer] = results[reducer]
        /\ eax'[reducer] = eax[reducer] /\ call'[reducer] = call[reducer]
        /\ pending_sender'[reducer] = pending_sender[reducer]
        /\ ipc_val'[reducer] = ipc_val[reducer]
    BY <1>0, <1>1, <1>3, ThreeMappers
  <2> QED BY <1>2, <2>4, <2>5, ReducerKept
<1> QED BY <1>6, <1>7, <1>8, <1>9 DEF Talk

\* main sends a number to a mapper that does not receive yet, and waits.
LEMMA NumberOffered ==
  ASSUME Words, Steady, Talk, current = RootEc, NEW i \in 1 .. 3, n = 8 + i,
         SlowSend(Mappers[i], Inputs[i]),
         call' = [call EXCEPT ![current] = SendingTo(Mappers[i])],
         results' = [results EXCEPT ![current] = Got]
  PROVE  Talk'
<1>0. PICK m \in EC : /\ m = Mappers[i] /\ m # RootEc /\ m # reducer
                      /\ \A j \in 1 .. 3 \ {i} : Mappers[j] # m
  BY ThreeMappers
<1>1. /\ Made(RootEc)' = Made(RootEc) + 1 /\ Made(RootEc) = 7 + i
      /\ \A e \in EC \ {RootEc} : Made(e)' = Made(e) /\ results'[e] = results[e]
  BY Called, ThreeMappers
<1>2. MainTalks /\ (\A j \in 1 .. 3 : MapperTalks(j)) /\ ReducerTalks
  BY DEF Talk
<1>3. /\ pending_sender[m] # m
      /\ call[RootEc] = Idle /\ call'[RootEc] = SendingTo(m)
      /\ \A e \in EC \ {RootEc} : call'[e] = call[e]
      /\ pending_sender'[m] = RootEc /\ pending_sender'[RootEc] = pending_sender[m]
      /\ \A e \in EC \ {m, RootEc} : pending_sender'[e] = pending_sender[e]
      /\ \A e \in EC \ {RootEc} : eax'[e] = eax[e]
      /\ ipc_val'[RootEc] = Inputs[i]
      /\ \A e \in EC \ {RootEc} : ipc_val'[e] = ipc_val[e]
  <2>1. May("send") /\ RootEc \in EC
    BY ThreeMappers DEF SlowSend
  <2>2. call \in [EC -> Waits] /\ call[RootEc] = Idle
    BY <2>1, SteadyCaller
  <2>3. /\ pending_sender \in [EC -> EC \cup {NULL}] /\ eax \in [EC -> Nat]
        /\ ipc_val \in [EC -> Nat]
    BY DEF Words
  <2>4. eax' = [eax EXCEPT ![RootEc] = FRAME]
    BY DEF SlowSend, Entered
  <2>5. /\ pending_sender[m] # m
        /\ pending_sender' = [pending_sender EXCEPT ![RootEc] = pending_sender[m],
                                                    ![m] = RootEc]
        /\ ipc_val' = [ipc_val EXCEPT ![RootEc] = Inputs[i]]
    BY <1>0 DEF SlowSend
  <2>6. call'[RootEc] = SendingTo(m) /\ \A e \in EC \ {RootEc} : call'[e] = call[e]
    BY <1>0, <2>1, <2>2
  <2>7. /\ pending_sender'[m] = RootEc /\ pending_sender'[RootEc] = pending_sender[m]
        /\ \A e \in EC \ {m, RootEc} : pending_sender'[e] = pending_sender[e]
    BY <1>0, <2>1, <2>3, <2>5
  <2>8. /\ \A e \in EC \ {RootEc} : eax'[e] = eax[e]
        /\ \A e \in EC \ {RootEc} : ipc_val'[e] = ipc_val[e]
        /\ ipc_val'[RootEc] = Inputs[i]
    BY <2>1, <2>3, <2>4, <2>5
  <2> QED BY <2>2, <2>5, <2>6, <2>7, <2>8
<1>4. \A j \in 1 .. 3 : ~ Sends(j) /\ (Sends(j)' <=> j = i)
  BY <1>0, <1>3, ThreeMappers, WaysToWait DEF Sends
<1>5. Made(m) = 0 /\ pending_sender[m] = NULL
  <2>1. MapperTalks(i) /\ ~(Made(RootEc) >= 8 + i)
    BY <1>1, <1>2
  <2> QED BY <1>0, <1>3, <1>4, <2>1 DEF MapperTalks, If
<1>6. call[reducer] # SendingTo(RootEc)
  <2>1. ~ Counted(i)
    BY <1>0, <1>5 DEF Counted
  <2> QED BY <1>2, <2>1 DEF ReducerTalks
<1>7. MainTalks'
  <2>1. /\ Made(RootEc)' = 8 + i /\ Made(RootEc)' < 12 /\ ~(Made(RootEc)' >= 12)
        /\ Made(m)' = 0
    BY <1>0, <1>1, <1>5
  <2>2. pending_sender'[RootEc] = If(call'[reducer] = SendingTo(RootEc), reducer)
    BY <1>3, <1>5, <1>6, ThreeMappers DEF If
  <2>3. \A j \in 1 .. 3 :
            Sends(j)' => /\ Made(RootEc)' = 8 + j /\ Made(Mappers[j])' = 0
                         /\ ipc_val'[RootEc] = Inputs[j]
    BY <1>0, <1>3, <1>4, <2>1
  <2> QED BY <2>1, <2>2, <2>3 DEF MainTalks, If
<1>8. ASSUME NEW j \in 1 .. 3 \ {i} PROVE MapperTalks(j)'
  <2>1. PICK x \in EC \ {RootEc, m} : x = Mappers[j]
    BY <1>0, ThreeMappers
  <2>2. /\ Made(x)' = Made(x) /\ results'[x] = results[x] /\ eax'[x] = eax[x]
        /\ call'[x] = call[x] /\ pending_sender'[x] = pending_sender[x]
        /\ Made(RootEc) <= Made(RootEc)' /\ Made(RootEc) \in Nat
        /\ Made(RootEc)' \in Nat /\ ipc_val'[x] = ipc_val[x]
    BY <1>1, <1>3, <2>1
  <2>3. Sends(j)' <=> Sends(j)
    BY <1>4
  <2> QED BY <1>2, <2>1, <2>2, <2>3, MapperKept
<1>9. MapperTalks(i)'
  <2>1. Made(m)' = 0 /\ Sends(i)'
    BY <1>0, <1>1, <1>4, <1>5
  <2> QED BY <1>0, <1>3, <2>1 DEF MapperTalks, If
<1>10. ReducerTalks'
  <2>1. \A j \in 1 .. 3 : /\ Made(Mappers[j])' = Made(Mappers[j])
                          /\ call'[Mappers[j]] = call[Mappers[j]]
    BY <1>1, <1>3, ThreeMappers
  <2>2. \A j \in 1 .. 3 \ {i} : pending_sender'[Mappers[j]] = pending_sender[Mappers[j]]
    BY <1>0, <1>3, ThreeMappers
  <2>3. ~ Waiting(i)
    BY <1>0, <1>5 DEF Waiting
  <2>4. \A j \in 1 .. 3 : /\ Counted(j)' <=> Counted(j)
                          /\ Waiting(j)' <=> Waiting(j)
                          /\ Waiting(j) => pending_sender'[Mappers[j]] =
                                           pending_sender[Mappers[j]]
    BY <2>1, <2>2, <2>3 DEF Counted, Waiting
  <2>5. /\ Made(reducer)' = Made(reducer) /\ results'[reducer] = results[reducer]
        /\ eax'[reducer] = eax[reducer] /\ call'[reducer] = call[reducer]
        /\ pending_sender'[reducer] = pending_sender[reducer]
        /\ ipc_val'[reducer] = ipc_val[reducer]
    BY <1>0, <1>1, <1>3, ThreeMappers
  <2> QED BY <1>2, <2>4, <2>5, ReducerKept
<1> QED BY <1>7, <1>8, <1>9, <1>10 DEF Talk

\* main waits for the sum, or finds the reducer waiting with it.
LEMMA MainReceives ==
  ASSUME Words, Steady, Talk, current = RootEc, n = 12,
         \/ RecvPending
         \/ RecvBlocks /\ call' = [call EXCEPT ![current] = Receiving],
         results' = [results EXCEPT ![current] = Got]
  PROVE  Talk'
<1>1. /\ Made(RootEc)' = 12 /\ Made(RootEc) = 11
      /\ \A e \in EC \ {RootEc} : Made(e)' = Made(e) /\ results'[e] = results[e]
  BY Called, ThreeMappers
<1>2. MainTalks /\ (\A j \in 1 .. 3 : MapperTalks(j)) /\ ReducerTalks
  BY DEF Talk
<1>3. May("recv") /\ RootEc \in EC
  BY ThreeMappers DEF RecvPending, RecvBlocks
<1>4. /\ call \in [EC -> Waits] /\ call[RootEc] = Idle
      /\ pending_sender \in [EC -> EC \cup {NULL}] /\ eax \in [EC -> Nat]
  BY <1>3, SteadyCaller DEF Words
<1>5. pending_sender[RootEc] = If(call[reducer] = SendingTo(RootEc), reducer)
  BY <1>1, <1>2 DEF MainTalks
<1>6. /\ UNCHANGED ipc_val
      /\ \A e \in EC \ {RootEc} : eax'[e] = eax[e]
      /\ \A e \in EC \ {RootEc} : pending_sender'[e] = pending_sender[e]
      /\ \A e \in EC \ {RootEc, reducer} : call'[e] = call[e]
      /\ \/ /\ call[reducer] = SendingTo(RootEc) /\ call'[reducer] = Idle
            /\ call'[RootEc] = call[RootEc] /\ eax'[RootEc] = ipc_val[reducer]
         \/ /\ call'[reducer] = call[reducer] /\ call'[RootEc] = Receiving
            /\ pending_sender'[RootEc] = RootEc
  <2>1. CASE RecvPending
    <3>1. pending_sender[RootEc] = reducer /\ call[reducer] = SendingTo(RootEc)
      BY <1>5, <2>1 DEF RecvPending, If
    <3>2. /\ UNCHANGED ipc_val
          /\ eax' = [eax EXCEPT ![RootEc] = ipc_val[reducer]]
          /\ pending_sender' = [pending_sender EXCEPT ![RootEc] =
                                                       pending_sender[reducer]]
          /\ call' = [call EXCEPT ![reducer] = Idle]
      BY <2>1, <3>1 DEF RecvPending, Result
    <3>3. /\ \A e \in EC \ {RootEc} : eax'[e] = eax[e]
          /\ eax'[RootEc] = ipc_val[reducer]
          /\ \A e \in EC \ {RootEc} : pending_sender'[e] = pending_sender[e]
      BY <1>3, <1>4, <3>2
    <3>4. call'[reducer] = Idle /\ \A e \in EC \ {reducer} : call'[e] = call[e]
      BY <1>4, <3>2, ThreeMappers
    <3> QED BY <3>1, <3>2, <3>3, <3>4, ThreeMappers
  <2>2. CASE RecvBlocks /\ call' = [call EXCEPT ![current] = Receiving]
    <3>1. /\ UNCHANGED ipc_val
          /\ eax' = [eax EXCEPT ![RootEc] = FRAME]
          /\ pending_sender' = [pending_sender EXCEPT ![RootEc] = RootEc]
          /\ call' = [call EXCEPT ![RootEc] = Receiving]
      BY <2>2 DEF RecvBlocks, Entered
    <3> QED BY <1>3, <1>4, <3>1, ThreeMappers
  <2> QED BY <2>1, <2>2
<1>7. \A j \in 1 .. 3 : ~ Sends(j) /\ ~ Sends(j)'
  BY <1>4, <1>6, WaysToWait DEF Sends
<1>8. MainTalks'
  <2>1. CASE call[reducer] = SendingTo(RootEc) /\ eax'[RootEc] = ipc_val[reducer]
    <3>1. Made(reducer) = 4 /\ ipc_val[reducer] = Squares
      BY <1>2, <2>1 DEF ReducerTalks
    <3>2. Made(reducer)' = 4 /\ ~(Made(RootEc)' < 12)
      BY <1>1, <3>1, ThreeMappers
    <3> QED BY <1>1, <1>7, <2>1, <3>1, <3>2 DEF MainTalks
  <2>2. CASE call'[RootEc] = Receiving /\ pending_sender'[RootEc] = RootEc
    <3>1. ~(Made(RootEc)' < 12)
      BY <1>1
    <3> QED BY <1>1, <1>7, <2>2, <3>1 DEF MainTalks
  <2> QED BY <1>6, <2>1, <2>2
<1>9. ASSUME NEW j \in 1 .. 3 PROVE MapperTalks(j)'
  <2>1. PICK x \in EC \ {RootEc, reducer} : x = Mappers[j]
    BY ThreeMappers
  <2>2. /\ Made(x)' = Made(x) /\ results'[x] = results[x] /\ eax'[x] = eax[x]
        /\ call'[x] = call[x] /\ pending_sender'[x] = pending_sender[x]
        /\ Made(RootEc) <= Made(RootEc)' /\ Made(RootEc) \in Nat
        /\ Made(RootEc)' \in Nat /\ ipc_val'[x] = ipc_val[x]
    BY <1>1, <1>6, <2>1
  <2>3. Sends(j)' <=> Sends(j)
    BY <1>7
  <2> QED BY <1>2, <2>1, <2>2, <2>3, MapperKept
<1>10. ReducerTalks'
  <2>1. \A j \in 1 .. 3 : /\ Made(Mappers[j])' = Made(Mappers[j])
                          /\ call'[Mappers[j]] = call[Mappers[j]]
                          /\ pending_sender'[Mappers[j]] = pending_sender[Mappers[j]]
    BY <1>1, <1>6, ThreeMappers
  <2>2. \A j \in 1 .. 3 : /\ Counted(j)' <=> Counted(j)
                          /\ Waiting(j)' <=> Waiting(j)
    BY <2>1 DEF Counted, Waiting
  <2>3. /\ Made(reducer)' = Made(reducer) /\ results'[reducer] = results[reducer]
        /\ eax'[reducer] = eax[reducer]
        /\ pending_sender'[reducer] = pending_sender[reducer]
        /\ ipc_val'[reducer] = ipc_val[reducer]
    BY <1>1, <1>6, ThreeMappers
  <2>4. \/ call'[reducer] = call[reducer]
        \/ Made(reducer) = 4 /\ call'[reducer] # SendingTo(RootEc)
    BY <1>2, <1>6, WaysToWait DEF ReducerTalks
  <2> QED BY <1>2, <2>1, <2>2, <2>3, <2>4, ReducerKept
<1> QED BY <1>8, <1>9, <1>10 DEF Talk

\* A mapper waits for its number, or finds main waiting with it.
LEMMA MapperReceives ==
  ASSUME Words, Steady, Talk, NEW i \in 1 .. 3, NEW m, m = Mappers[i], current = m,
         n = 1,
         \/ RecvPending
         \/ RecvBlocks /\ call' = [call EXCEPT ![current] = Receiving],
         results' = [results EXCEPT ![current] = Got]
  PROVE  Talk'
<1>0. /\ m \in EC /\ m # RootEc /\ m # reducer /\ m # NULL
      /\ \A j \in 1 .. 3 \ {i} : Mappers[j] # m
  BY ThreeMappers
<1>1. /\ Made(m)' = 1 /\ Made(m) = 0
      /\ \A e \in EC : Made(e) \in Nat
      /\ \A e \in EC \ {m} : Made(e)' = Made(e) /\ results'[e] = results[e]
  BY <1>0, Called
<1>2. MainTalks /\ (\A j \in 1 .. 3 : MapperTalks(j)) /\ ReducerTalks
  BY DEF Talk
<1>3. May("recv")
  BY DEF RecvPending, RecvBlocks
<1>4. /\ call \in [EC -> Waits] /\ call[m] = Idle
      /\ pending_sender \in [EC -> EC \cup {NULL}] /\ eax \in [EC -> Nat]
  BY <1>3, SteadyCaller DEF Words
<1>5. pending_sender[m] = If(Sends(i), RootEc)
  BY <1>1, <1>2 DEF MapperTalks
<1>6. /\ UNCHANGED ipc_val
      /\ \A e \in EC \ {m} : eax'[e] = eax[e]
      /\ \A e \in EC \ {m} : pending_sender'[e] = pending_sender[e]
      /\ \A e \in EC \ {m, RootEc} : call'[e] = call[e]
      /\ \/ /\ Sends(i) /\ call'[RootEc] = Idle
            /\ call'[m] = Idle /\ eax'[m] = ipc_val[RootEc]
         \/ /\ ~ Sends(i) /\ call'[RootEc] = call[RootEc]
            /\ call'[m] = Receiving /\ pending_sender'[m] = m
  <2>1. CASE RecvPending
    <3>1. pending_sender[m] = RootEc /\ Sends(i)
      BY <1>5, <2>1 DEF RecvPending, If
    <3>2. /\ UNCHANGED ipc_val
          /\ eax' = [eax EXCEPT ![m] = ipc_val[RootEc]]
          /\ pending_sender' = [pending_sender EXCEPT ![m] = pending_sender[RootEc]]
          /\ call' = [call EXCEPT ![RootEc] = Idle]
      BY <2>1, <3>1 DEF RecvPending, Result
    <3>3. /\ \A e \in EC \ {m} : eax'[e] = eax[e]
          /\ eax'[m] = ipc_val[RootEc]
          /\ \A e \in EC \ {m} : pending_sender'[e] = pending_sender[e]
      BY <1>0, <1>4, <3>2
    <3>4. call'[RootEc] = Idle /\ \A e \in EC \ {RootEc} : call'[e] = call[e]
      BY <1>4, <3>2, ThreeMappers
    <3> QED BY <1>0, <1>4, <3>1, <3>2, <3>3, <3>4
  <2>2. CASE RecvBlocks /\ call' = [call EXCEPT ![current] = Receiving]
    <3>1. /\ UNCHANGED ipc_val
          /\ eax' = [eax EXCEPT ![m] = FRAME]
          /\ pending_sender' = [pending_sender EXCEPT ![m] = m]
          /\ call' = [call EXCEPT ![m] = Receiving]
          /\ pending_sender[m] \in {NULL, m}
      BY <2>2 DEF RecvBlocks, Entered
    <3>2. ~ Sends(i)
      BY <1>0, <1>5, <3>1, ThreeMappers DEF If
    <3> QED BY <1>0, <1>4, <3>1, <3>2, ThreeMappers
  <2> QED BY <2>1, <2>2
<1>7. \A j \in 1 .. 3 \ {i} : Sends(j)' <=> Sends(j)
  <2>1. CASE Sends(i) /\ call'[RootEc] = Idle
    BY <2>1, ThreeMappers, WaysToWait DEF Sends
  <2>2. CASE call'[RootEc] = call[RootEc]
    BY <2>2 DEF Sends
  <2> QED BY <1>6, <2>1, <2>2
<1>8. ~ Sends(i)'
  BY <1>6, WaysToWait DEF Sends
<1>9. call'[reducer] = call[reducer]
  BY <1>0, <1>6, ThreeMappers
<1>10. MainTalks'
  <2>1. /\ Made(RootEc)' = Made(RootEc) /\ eax'[RootEc] = eax[RootEc]
        /\ pending_sender'[RootEc] = pending_sender[RootEc]
        /\ ipc_val'[RootEc] = ipc_val[RootEc] /\ Made(reducer)' = Made(reducer)
    BY <1>0, <1>1, <1>6, ThreeMappers
  <2>2. \A j \in 1 .. 3 \ {i} : Made(Mappers[j])' = Made(Mappers[j])
    BY <1>0, <1>1, ThreeMappers
  <2>3. CASE ~ Sends(i) /\ call'[RootEc] = call[RootEc]
    <3>1. \A j \in 1 .. 3 : Made(Mappers[j]) = 0 /\ Sends(j) => Made(Mappers[j])' = 0
      BY <2>2, <2>3
    <3> QED BY <1>2, <1>9, <2>1, <2>3, <3>1, MainKept
  <2>4. CASE Sends(i)
    <3>1. /\ Made(RootEc)' < 12 /\ ~(Made(RootEc)' >= 12)
          /\ pending_sender'[RootEc] = If(call[reducer] = SendingTo(RootEc), reducer)
      BY <1>2, <2>1, <2>4 DEF MainTalks
    <3>2. \A j \in 1 .. 3 : ~ Sends(j)'
      BY <1>6, <2>4, WaysToWait DEF Sends
    <3> QED BY <1>9, <3>1, <3>2 DEF MainTalks, If
  <2> QED BY <1>6, <2>3, <2>4
<1>11. ASSUME NEW j \in 1 .. 3 \ {i} PROVE MapperTalks(j)'
  <2>1. PICK x \in EC \ {RootEc, m} : x = Mappers[j]
    BY <1>0, ThreeMappers
  <2>2. /\ Made(x)' = Made(x) /\ results'[x] = results[x] /\ eax'[x] = eax[x]
        /\ call'[x] = call[x] /\ pending_sender'[x] = pending_sender[x]
        /\ Made(RootEc) <= Made(RootEc)' /\ Made(RootEc) \in Nat
        /\ Made(RootEc)' \in Nat /\ ipc_val'[x] = ipc_val[x]
    BY <1>0, <1>1, <1>6, <2>1, ThreeMappers
  <2>3. Sends(j)' <=> Sends(j)
    BY <1>7
  <2> QED BY <1>2, <2>1, <2>2, <2>3, MapperKept
<1>12. MapperTalks(i)'
  <2>1. CASE Sends(i) /\ eax'[m] = ipc_val[RootEc]
    <3>1. ipc_val[RootEc] = Inputs[i] /\ Made(RootEc) = 8 + i
      BY <1>2, <2>1 DEF MainTalks
    <3>2. Made(RootEc)' >= 8 + i
      BY <1>0, <1>1, <3>1, ThreeMappers
    <3> QED BY <1>1, <2>1, <3>1, <3>2 DEF MapperTalks
  <2>2. CASE call'[m] = Receiving /\ pending_sender'[m] = m
    BY <1>1, <2>2 DEF MapperTalks
  <2> QED BY <1>6, <2>1, <2>2
<1>13. ReducerTalks'
  <2>1. \A j \in 1 .. 3 \ {i} :
            /\ Made(Mappers[j])' = Made(Mappers[j])
            /\ call'[Mappers[j]] = call[Mappers[j]]
            /\ pending_sender'[Mappers[j]] = pending_sender[Mappers[j]]
    BY <1>0, <1>1, <1>6, ThreeMappers
  <2>2. ~ Counted(i) /\ ~ Counted(i)' /\ ~ Waiting(i) /\ ~ Waiting(i)'
    BY <1>1 DEF Counted, Waiting
  <2>3. \A j \in 1 .. 3 : /\ Counted(j)' <=> Counted(j)
                          /\ Waiting(j)' <=> Waiting(j)
                          /\ Waiting(j) => pending_sender'[Mappers[j]] =
                                           pending_sender[Mappers[j]]
    BY <2>1, <2>2 DEF Counted, Waiting
  <2>4. /\ Made(reducer)' = Made(reducer) /\ results'[reducer] = results[reducer]
        /\ eax'[reducer] = eax[reducer]
        /\ pending_sender'[reducer] = pending_sender[reducer]
        /\ ipc_val'[reducer] = ipc_val[reducer]
    BY <1>0, <1>1, <1>6, ThreeMappers
  <2> QED BY <1>2, <1>9, <2>3, <2>4, ReducerKept
<1> QED BY <1>10, <1>11, <1>12, <1>13 DEF Talk

\* A mapper that has its number yields, once or when it has nothing more to do.
LEMMA MapperYields ==
  ASSUME Words, Steady, Talk, NEW i \in 1 .. 3, NEW m, m = Mappers[i], current = m,
         SysYield, call' = call,
         \/ n = 2 /\ results' = [results EXCEPT ![current] = Got]
         \/ n = 4 /\ UNCHANGED results
  PROVE  Talk'
<1>0. /\ m \in EC /\ m # RootEc /\ m # reducer
      /\ \A j \in 1 .. 3 \ {i} : Mappers[j] # m
  BY ThreeMappers
<1>1. /\ \A e \in EC : Made(e) \in Nat
      /\ \A e \in EC \ {m} : Made(e)' = Made(e) /\ results'[e] = results[e]
      /\ \/ Made(m) = 1 /\ Made(m)' = 2 /\ results'[m] = Got
         \/ Made(m) = 3 /\ Made(m)' = 3 /\ results'[m] = results[m]
  <2>1. CASE n = 2 /\ results' = [results EXCEPT ![current] = Got]
    BY <1>0, <2>1, Called
  <2>2. CASE n = 4 /\ UNCHANGED results
    <3>1. n = Made(m) + 1 /\ Made(m) \in Nat
      BY <1>0, GotIs
    <3>2. Made(m) = 3
      BY <2>2, <3>1
    <3>3. \A e \in EC : Made(e) \in Nat
      BY DEF Words, Made
    <3> QED BY <2>2, <3>2, <3>3 DEF Made
  <2> QED BY <2>1, <2>2
<1>2. MainTalks /\ (\A j \in 1 .. 3 : MapperTalks(j)) /\ ReducerTalks
  BY DEF Talk
<1>3. /\ call[m] = Idle /\ UNCHANGED <<ipc_val, pending_sender>>
      /\ \A e \in EC \ {m} : eax'[e] = eax[e]
  <2>1. May("yield") /\ eax' = [eax EXCEPT ![m] = FRAME]
    BY DEF SysYield, Entered
  <2>2. eax \in [EC -> Nat]
    BY DEF Words
  <2> QED BY <2>1, <2>2, SteadyCaller DEF SysYield, ipcVars
<1>4. \A j \in 1 .. 3 : Sends(j)' <=> Sends(j)
  BY DEF Sends
<1>5. MainTalks'
  <2>1. /\ Made(RootEc)' = Made(RootEc) /\ eax'[RootEc] = eax[RootEc]
        /\ Made(reducer)' = Made(reducer)
    BY <1>0, <1>1, <1>3, ThreeMappers
  <2>2. \A j \in 1 .. 3 : Made(Mappers[j]) = 0 /\ Sends(j) => Made(Mappers[j])' = 0
    BY <1>0, <1>1, ThreeMappers
  <2> QED BY <1>2, <1>3, <2>1, <2>2, MainKept
<1>6. ASSUME NEW j \in 1 .. 3 \ {i} PROVE MapperTalks(j)'
  <2>1. PICK x \in EC \ {RootEc, m} : x = Mappers[j]
    BY <1>0, ThreeMappers
  <2>2. /\ Made(x)' = Made(x) /\ results'[x] = results[x] /\ eax'[x] = eax[x]
        /\ Made(RootEc) <= Made(RootEc)' /\ Made(RootEc) \in Nat
        /\ Made(RootEc)' \in Nat
    BY <1>0, <1>1, <1>3, <2>1, ThreeMappers
  <2> QED BY <1>2, <1>3, <1>4, <2>1, <2>2, MapperKept
<1>7. MapperTalks(i)'
  <2>0. Made(RootEc)' = Made(RootEc)
    BY <1>0, <1>1, ThreeMappers
  <2>1. CASE Made(m) = 1 /\ Made(m)' = 2 /\ results'[m] = Got
    <3>1. Made(RootEc) >= 8 + i /\ Inputs[i] = eax[m]
      BY <1>2, <1>3, <2>1, WaysToWait DEF MapperTalks
    <3>2. Got[2] = eax[m]
      <4>1. n = Made(m) + 1 /\ Got[n] = eax[m]
        BY <1>0, GotIs
      <4> QED BY <2>1, <4>1
    <3> QED BY <2>0, <2>1, <3>1, <3>2 DEF MapperTalks
  <2>2. CASE Made(m) = 3 /\ Made(m)' = 3
    <3>1. Made(RootEc) >= 8 + i
      BY <1>2, <2>2 DEF MapperTalks
    <3> QED BY <1>3, <2>0, <2>2, <3>1 DEF MapperTalks
  <2> QED BY <1>1, <2>1, <2>2
<1>8. ReducerTalks'
  <2>1. /\ \A j \in 1 .. 3 \ {i} : Made(Mappers[j])' = Made(Mappers[j])
        /\ Made(Mappers[i]) = 3 <=> Made(Mappers[i])' = 3
    BY <1>0, <1>1, ThreeMappers
  <2>2. \A j \in 1 .. 3 : /\ Counted(j)' <=> Counted(j)
                          /\ Waiting(j)' <=> Waiting(j)
    BY <2>1 DEF Counted, Waiting
  <2>3. /\ Made(reducer)' = Made(reducer) /\ results'[reducer] = results[reducer]
        /\ eax'[reducer] = eax[reducer]
    BY <1>0, <1>1, <1>3, ThreeMappers
  <2> QED BY <1>2, <1>3, <2>2, <2>3, ReducerKept
<1> QED BY <1>5, <1>6, <1>7, <1>8 DEF Talk

\* The sum over what the reducer received before does not change,
\* and grows by the word that comes next.
LEMMA SumStays ==
  ASSUME NEW k \in 0 .. 3, \A j \in 2 .. k + 1 : Known'[j] = Known[j]
  PROVE  SumOf(k)' = SumOf(k)
<1>1. /\ k > 0 => Known'[2] = Known[2]
      /\ k > 1 => Known'[3] = Known[3]
      /\ k > 2 => Known'[4] = Known[4]
  OBVIOUS
<1>2. k = 0 \/ k = 1 \/ k = 2 \/ k = 3
  OBVIOUS
<1>3. CASE k = 0
  BY <1>3 DEF SumOf
<1>4. CASE k = 1
  BY <1>1, <1>4 DEF SumOf
<1>5. CASE k = 2
  BY <1>1, <1>5 DEF SumOf
<1>6. CASE k = 3
  BY <1>1, <1>6 DEF SumOf
<1> QED BY <1>2, <1>3, <1>4, <1>5, <1>6

LEMMA SumGrows ==
  ASSUME NEW k \in 0 .. 2, \A j \in 2 .. k + 1 : Known'[j] = Known[j],
         \A j \in 2 .. k + 1 : Known[j] \in Nat,
         NEW w \in Nat, Known'[k + 2] = w
  PROVE  SumOf(k + 1)' = SumOf(k) + w
<1>1. /\ k > 0 => Known'[2] = Known[2] /\ Known[2] \in Nat
      /\ k > 1 => Known'[3] = Known[3] /\ Known[3] \in Nat
  OBVIOUS
<1>2. k = 0 \/ k = 1 \/ k = 2
  OBVIOUS
<1>3. CASE k = 0
  <2>1. SumOf(k + 1)' = Known'[2] /\ SumOf(k) = 0 /\ Known'[2] = w
    BY <1>3 DEF SumOf
  <2> QED BY <2>1
<1>4. CASE k = 1
  <2>1. SumOf(k + 1)' = Known'[2] + Known'[3] /\ SumOf(k) = Known[2] /\ Known'[3] = w
    BY <1>4 DEF SumOf
  <2> QED BY <1>1, <1>4, <2>1
<1>5. CASE k = 2
  <2>1. /\ SumOf(k + 1)' = Known'[2] + Known'[3] + Known'[4]
        /\ SumOf(k) = Known[2] + Known[3] /\ Known'[4] = w
    BY <1>5 DEF SumOf
  <2> QED BY <1>1, <1>5, <2>1
<1> QED BY <1>2, <1>3, <1>4, <1>5

\* One more square, of a mapper that was not counted yet.
LEMMA OneMoreCounted ==
  ASSUME NEW i \in 1 .. 3, ~ Counted(i), Counted(i)',
         \A j \in 1 .. 3 \ {i} : Counted(j)' <=> Counted(j)
  PROVE  /\ Count(1)' + Count(2)' + Count(3)' = Count(1) + Count(2) + Count(3) + 1
         /\ Adds(1)' + Adds(2)' + Adds(3)' = Adds(1) + Adds(2) + Adds(3) + Square(i)
<1>1. /\ \A j \in 1 .. 3 : Count(j) \in Nat /\ Adds(j) \in Nat
      /\ \A j \in 1 .. 3 \ {i} : Count(j)' = Count(j) /\ Adds(j)' = Adds(j)
      /\ Count(i) = 0 /\ Adds(i) = 0 /\ Count(i)' = 1 /\ Adds(i)' = Square(i)
  BY ThreeMappers DEF Count, Adds
<1>2. Square(i) \in Nat
  BY ThreeMappers
<1>3. i = 1 \/ i = 2 \/ i = 3
  OBVIOUS
<1>4. CASE i = 1
  BY <1>1, <1>2, <1>4
<1>5. CASE i = 2
  BY <1>1, <1>2, <1>5
<1>6. CASE i = 3
  BY <1>1, <1>2, <1>6
<1> QED BY <1>3, <1>4, <1>5, <1>6

LEMMA SameCounts ==
  ASSUME \A j \in 1 .. 3 : Counted(j)' <=> Counted(j)
  PROVE  /\ Count(1)' + Count(2)' + Count(3)' = Count(1) + Count(2) + Count(3)
         /\ Adds(1)' + Adds(2)' + Adds(3)' = Adds(1) + Adds(2) + Adds(3)
<1>1. \A j \in 1 .. 3 : Count(j)' = Count(j) /\ Adds(j)' = Adds(j)
  BY DEF Count, Adds
<1> QED BY <1>1

\* What the reducer knows, word by word.
LEMMA KnownIs ==
  ASSUME Words
  PROVE  /\ Made(reducer) \in Nat
         /\ \A j \in 1 .. Made(reducer) : Known[j] = results[reducer][j]
         /\ Known[Made(reducer) + 1] = eax[reducer]
         /\ \A j \in 1 .. Made(reducer) + 1 : Known[j] \in Nat
         /\ Known \in Seq(Nat) /\ Len(Known) = Made(reducer) + 1
<1>1. results[reducer] \in Seq(Nat) /\ eax[reducer] \in Nat
  BY ThreeMappers DEF Words
<1> QED BY <1>1 DEF Known, Made

LEMMA KnownNext ==
  ASSUME Words'
  PROVE  /\ Made(reducer)' \in Nat
         /\ \A j \in 1 .. Made(reducer)' : Known'[j] = results'[reducer][j]
         /\ Known'[Made(reducer)' + 1] = eax'[reducer]
<1>1. results'[reducer] \in Seq(Nat) /\ eax'[reducer] \in Nat
  BY ThreeMappers DEF Words
<1> QED BY <1>1 DEF Known, Made

\* A mapper sends its square to a reducer that waits for it.
LEMMA SquareTaken ==
  ASSUME Words, Words', Steady, Talk, NEW i \in 1 .. 3, NEW m, m = Mappers[i],
         current = m, n = 3, FastSend(reducer, Got[2] * Got[2]),
         call' = [call EXCEPT ![reducer] = Idle],
         results' = [results EXCEPT ![current] = Got]
  PROVE  Talk'
<1>0. /\ m \in EC /\ m # RootEc /\ m # reducer
      /\ \A j \in 1 .. 3 \ {i} : Mappers[j] # m
  BY ThreeMappers
<1>1. /\ \A e \in EC : Made(e) \in Nat
      /\ \A e \in EC \ {m} : Made(e)' = Made(e) /\ results'[e] = results[e]
      /\ Made(m) = 2 /\ Made(m)' = 3
  BY <1>0, Called
<1>2. MainTalks /\ (\A j \in 1 .. 3 : MapperTalks(j)) /\ ReducerTalks
  BY DEF Talk
<1>3. Made(RootEc) >= 8 + i /\ Got[2] * Got[2] = Square(i)
  <2>1. Made(RootEc) >= 8 + i /\ Inputs[i] = results[m][2]
    BY <1>1, <1>2 DEF MapperTalks
  <2>2. Got[2] = results[m][2]
    BY <1>0, <1>1, GotIs
  <2> QED BY <2>1, <2>2 DEF Square
<1>4. /\ pending_sender[reducer] = reducer /\ pending_sender'[reducer] = NULL
      /\ call[m] = Idle /\ call'[reducer] = Idle
      /\ \A e \in EC \ {reducer} : call'[e] = call[e]
      /\ \A e \in EC \ {reducer} : pending_sender'[e] = pending_sender[e]
      /\ \A e \in EC \ {m, reducer} : eax'[e] = eax[e]
      /\ eax'[reducer] = Square(i) /\ UNCHANGED ipc_val
  <2>1. May("send") /\ reducer \in EC
    BY ThreeMappers DEF FastSend
  <2>2. call \in [EC -> Waits] /\ call[m] = Idle
    BY <2>1, SteadyCaller
  <2>3. pending_sender \in [EC -> EC \cup {NULL}] /\ eax \in [EC -> Nat]
    BY DEF Words
  <2>4. eax' = [[eax EXCEPT ![m] = FRAME] EXCEPT ![reducer] = Square(i)]
    BY <1>3 DEF FastSend, Entered
  <2>5. /\ pending_sender[reducer] = reducer /\ UNCHANGED ipc_val
        /\ pending_sender' = [pending_sender EXCEPT ![reducer] = NULL]
    BY DEF FastSend
  <2>6. call'[reducer] = Idle /\ \A e \in EC \ {reducer} : call'[e] = call[e]
    BY <2>1, <2>2
  <2>7. /\ pending_sender'[reducer] = NULL
        /\ \A e \in EC \ {reducer} : pending_sender'[e] = pending_sender[e]
    BY <2>1, <2>3, <2>5
  <2>8. /\ eax'[reducer] = Square(i)
        /\ \A e \in EC \ {m, reducer} : eax'[e] = eax[e]
    BY <2>1, <2>3, <2>4
  <2> QED BY <2>2, <2>5, <2>6, <2>7, <2>8
<1>5. ~ Counted(i) /\ ~ Waiting(i) /\ Counted(i)' /\ ~ Waiting(i)'
  BY <1>0, <1>1, <1>4, WaysToWait DEF Counted, Waiting
<1>6. /\ Made(reducer) \in 0 .. 3 /\ Made(reducer) # 0
      /\ call[reducer] = Receiving /\ Links /\ Adding
  <2>1. /\ Made(reducer) \in 0 .. 3 /\ Links /\ Adding
        /\ Made(reducer) = 0 => call[reducer] # Receiving
    BY <1>2, <1>5 DEF ReducerTalks
  <2> QED BY <1>4, <2>1 DEF Links
<1>7. \A j \in 1 .. 3 : Sends(j)' <=> Sends(j)
  BY <1>4, ThreeMappers DEF Sends
<1>8. MainTalks'
  <2>1. /\ Made(RootEc)' = Made(RootEc) /\ eax'[RootEc] = eax[RootEc]
        /\ Made(reducer)' = Made(reducer) /\ call'[RootEc] = call[RootEc]
        /\ pending_sender'[RootEc] = pending_sender[RootEc]
        /\ ipc_val'[RootEc] = ipc_val[RootEc]
    BY <1>0, <1>1, <1>4, ThreeMappers
  <2>2. \A j \in 1 .. 3 : Made(Mappers[j]) = 0 /\ Sends(j) => Made(Mappers[j])' = 0
    BY <1>0, <1>1, ThreeMappers
  <2>3. call'[reducer] # SendingTo(RootEc) /\ call[reducer] # SendingTo(RootEc)
    BY <1>4, <1>6, WaysToWait
  <2> QED BY <1>2, <2>1, <2>2, <2>3, MainKept
<1>9. ASSUME NEW j \in 1 .. 3 \ {i} PROVE MapperTalks(j)'
  <2>1. PICK x \in EC \ {RootEc, m, reducer} : x = Mappers[j]
    BY <1>0, ThreeMappers
  <2>2. /\ Made(x)' = Made(x) /\ results'[x] = results[x] /\ eax'[x] = eax[x]
        /\ call'[x] = call[x] /\ pending_sender'[x] = pending_sender[x]
        /\ Made(RootEc) <= Made(RootEc)' /\ Made(RootEc) \in Nat
        /\ Made(RootEc)' \in Nat /\ ipc_val'[x] = ipc_val[x]
    BY <1>0, <1>1, <1>4, <2>1, ThreeMappers
  <2> QED BY <1>2, <1>7, <2>1, <2>2, MapperKept
<1>10. MapperTalks(i)'
  <2>1. Made(RootEc)' = Made(RootEc) /\ call'[m] = Idle
    BY <1>0, <1>1, <1>4, ThreeMappers
  <2> QED BY <1>1, <1>3, <2>1 DEF MapperTalks
<1>11. \A j \in 1 .. 3 \ {i} : /\ Counted(j)' <=> Counted(j)
                               /\ Waiting(j)' <=> Waiting(j)
                               /\ pending_sender'[Mappers[j]] =
                                  pending_sender[Mappers[j]]
  BY <1>0, <1>1, <1>4, ThreeMappers DEF Counted, Waiting
<1>12. Links'
  <2>1. call'[reducer] # Receiving /\ pending_sender'[reducer] # reducer
    BY <1>4, ThreeMappers, WaysToWait
  <2>2. ASSUME NEW j \in 1 .. 3, Waiting(j)', pending_sender'[Mappers[j]] # NULL
        PROVE  /\ \E k \in 1 .. 3 : /\ Waiting(k)'
                                    /\ pending_sender'[Mappers[j]] = Mappers[k]
               /\ \A k \in 1 .. 3 \ {j} :
                    Waiting(k)' => pending_sender'[Mappers[k]] #
                                   pending_sender'[Mappers[j]]
    <3>1. j # i /\ Waiting(j) /\ pending_sender[Mappers[j]] # NULL
      BY <1>5, <1>11, <2>2
    <3>2. /\ \E k \in 1 .. 3 : Waiting(k) /\ pending_sender[Mappers[j]] = Mappers[k]
          /\ \A k \in 1 .. 3 \ {j} :
                Waiting(k) => pending_sender[Mappers[k]] # pending_sender[Mappers[j]]
      BY <1>6, <3>1 DEF Links
    <3> QED BY <1>5, <1>11, <3>1, <3>2
  <2> QED BY <1>4, <2>1, <2>2 DEF Links
<1>13. Adding'
  <2>1. PICK k \in 0 .. 2 : k = Made(reducer) - 1
    BY <1>6
  <2>2. Received = k /\ Received' = k + 1 /\ Made(reducer) = k + 1
    <3>1. Made(reducer)' = Made(reducer)
      BY <1>0, <1>1, ThreeMappers
    <3> QED BY <1>4, <1>6, <2>1, <3>1, WaysToWait DEF Received
  <2>3. /\ \A j \in 2 .. k + 1 : Known'[j] = Known[j]
        /\ \A j \in 2 .. k + 1 : Known[j] \in Nat
        /\ Known'[k + 2] = Square(i)
    <3>1. results'[reducer] = results[reducer] /\ Made(reducer)' = k + 1
      BY <1>0, <1>1, <2>2, ThreeMappers
    <3>2. /\ \A j \in 1 .. k + 1 : Known'[j] = results'[reducer][j]
          /\ Known'[k + 1 + 1] = eax'[reducer]
      BY <3>1, KnownNext
    <3>3. /\ \A j \in 1 .. k + 1 : Known[j] = results[reducer][j]
          /\ \A j \in 1 .. k + 1 : Known[j] \in Nat
      BY <2>2, KnownIs
    <3>4. k + 1 + 1 = k + 2 /\ \A j \in 2 .. k + 1 : j \in 1 .. k + 1
      OBVIOUS
    <3> QED BY <1>4, <3>1, <3>2, <3>3, <3>4
  <2>4. SumOf(k + 1)' = SumOf(k) + Square(i)
    BY <2>3, ThreeMappers, SumGrows
  <2>5. /\ Received = Count(1) + Count(2) + Count(3)
        /\ SumOf(k) = Adds(1) + Adds(2) + Adds(3)
    BY <1>6, <2>2 DEF Adding
  <2>6. /\ Count(1)' + Count(2)' + Count(3)' = Count(1) + Count(2) + Count(3) + 1
        /\ Adds(1)' + Adds(2)' + Adds(3)' = Adds(1) + Adds(2) + Adds(3) + Square(i)
    BY <1>5, <1>11, OneMoreCounted
  <2>7. SumOf(Received)' = SumOf(k + 1)'
    BY <2>2 DEF SumOf
  <2> QED BY <2>2, <2>4, <2>5, <2>6, <2>7 DEF Adding
<1>14. ReducerTalks'
  <2>1. /\ Made(reducer)' \in 0 .. 3 /\ Made(reducer)' # 0
        /\ call'[reducer] # SendingTo(RootEc)
    BY <1>0, <1>1, <1>4, <1>6, ThreeMappers, WaysToWait
  <2> QED BY <1>12, <1>13, <2>1 DEF ReducerTalks
<1> QED BY <1>8, <1>9, <1>10, <1>14 DEF Talk

\* A mapper sends its square to a reducer that does not receive yet, and waits.
LEMMA SquareOffered ==
  ASSUME Words, Steady, Talk, NEW i \in 1 .. 3, NEW m, m = Mappers[i],
         current = m, n = 3, SlowSend(reducer, Got[2] * Got[2]),
         call' = [call EXCEPT ![current] = SendingTo(reducer)],
         results' = [results EXCEPT ![current] = Got]
  PROVE  Talk'
<1>0. /\ m \in EC /\ m # RootEc /\ m # reducer /\ m # NULL
      /\ \A j \in 1 .. 3 \ {i} : Mappers[j] # m
  BY ThreeMappers
<1>1. /\ \A e \in EC : Made(e) \in Nat
      /\ \A e \in EC \ {m} : Made(e)' = Made(e) /\ results'[e] = results[e]
      /\ Made(m) = 2 /\ Made(m)' = 3
  BY <1>0, Called
<1>2. MainTalks /\ (\A j \in 1 .. 3 : MapperTalks(j)) /\ ReducerTalks
  BY DEF Talk
<1>3. Made(RootEc) >= 8 + i /\ Got[2] * Got[2] = Square(i)
  <2>1. Made(RootEc) >= 8 + i /\ Inputs[i] = results[m][2]
    BY <1>1, <1>2 DEF MapperTalks
  <2>2. Got[2] = results[m][2]
    BY <1>0, <1>1, GotIs
  <2> QED BY <2>1, <2>2 DEF Square
<1>4. /\ pending_sender[reducer] # reducer /\ pending_sender'[reducer] = m
      /\ pending_sender'[m] = pending_sender[reducer]
      /\ call[m] = Idle /\ call'[m] = SendingTo(reducer)
      /\ \A e \in EC \ {m} : call'[e] = call[e]
      /\ \A e \in EC \ {m, reducer} : pending_sender'[e] = pending_sender[e]
      /\ \A e \in EC \ {m} : eax'[e] = eax[e]
      /\ ipc_val'[m] = Square(i) /\ \A e \in EC \ {m} : ipc_val'[e] = ipc_val[e]
  <2>1. May("send") /\ reducer \in EC
    BY ThreeMappers DEF SlowSend
  <2>2. call \in [EC -> Waits] /\ call[m] = Idle
    BY <2>1, SteadyCaller
  <2>3. /\ pending_sender \in [EC -> EC \cup {NULL}] /\ eax \in [EC -> Nat]
        /\ ipc_val \in [EC -> Nat]
    BY DEF Words
  <2>4. eax' = [eax EXCEPT ![m] = FRAME] /\ ipc_val' = [ipc_val EXCEPT ![m] = Square(i)]
    BY <1>3 DEF SlowSend, Entered
  <2>5. /\ pending_sender[reducer] # reducer
        /\ pending_sender' = [pending_sender EXCEPT ![m] = pending_sender[reducer],
                                                    ![reducer] = m]
    BY DEF SlowSend
  <2>6. call'[m] = SendingTo(reducer) /\ \A e \in EC \ {m} : call'[e] = call[e]
    BY <1>0, <2>2
  <2>7. /\ pending_sender'[reducer] = m /\ pending_sender'[m] = pending_sender[reducer]
        /\ \A e \in EC \ {m, reducer} : pending_sender'[e] = pending_sender[e]
    BY <1>0, <2>1, <2>3, <2>5
  <2>8. /\ \A e \in EC \ {m} : eax'[e] = eax[e]
        /\ ipc_val'[m] = Square(i) /\ \A e \in EC \ {m} : ipc_val'[e] = ipc_val[e]
    BY <1>0, <2>3, <2>4
  <2> QED BY <2>2, <2>5, <2>6, <2>7, <2>8
<1>5. ~ Counted(i) /\ ~ Waiting(i) /\ ~ Counted(i)' /\ Waiting(i)'
  BY <1>0, <1>1, <1>4, WaysToWait DEF Counted, Waiting
<1>6. /\ Made(reducer) \in 0 .. 3 /\ call[reducer] # Receiving
      /\ call[reducer] # SendingTo(RootEc) /\ Links /\ Adding
  <2>1. /\ Made(reducer) \in 0 .. 3 /\ Links /\ Adding
        /\ call[reducer] # SendingTo(RootEc)
    BY <1>2, <1>5 DEF ReducerTalks
  <2> QED BY <1>4, <2>1 DEF Links
<1>7. \A j \in 1 .. 3 : Sends(j)' <=> Sends(j)
  BY <1>0, <1>4, ThreeMappers DEF Sends
<1>8. MainTalks'
  <2>1. /\ Made(RootEc)' = Made(RootEc) /\ eax'[RootEc] = eax[RootEc]
        /\ Made(reducer)' = Made(reducer) /\ call'[RootEc] = call[RootEc]
        /\ pending_sender'[RootEc] = pending_sender[RootEc]
        /\ ipc_val'[RootEc] = ipc_val[RootEc] /\ call'[reducer] = call[reducer]
    BY <1>0, <1>1, <1>4, ThreeMappers
  <2>2. \A j \in 1 .. 3 : Made(Mappers[j]) = 0 /\ Sends(j) => Made(Mappers[j])' = 0
    BY <1>0, <1>1, ThreeMappers
  <2> QED BY <1>2, <2>1, <2>2, MainKept
<1>9. ASSUME NEW j \in 1 .. 3 \ {i} PROVE MapperTalks(j)'
  <2>1. PICK x \in EC \ {RootEc, m, reducer} : x = Mappers[j]
    BY <1>0, ThreeMappers
  <2>2. /\ Made(x)' = Made(x) /\ results'[x] = results[x] /\ eax'[x] = eax[x]
        /\ call'[x] = call[x] /\ pending_sender'[x] = pending_sender[x]
        /\ Made(RootEc) <= Made(RootEc)' /\ Made(RootEc) \in Nat
        /\ Made(RootEc)' \in Nat /\ ipc_val'[x] = ipc_val[x]
    BY <1>0, <1>1, <1>4, <2>1, ThreeMappers
  <2> QED BY <1>2, <1>7, <2>1, <2>2, MapperKept
<1>10. MapperTalks(i)'
  <2>1. Made(RootEc)' = Made(RootEc)
    BY <1>0, <1>1, ThreeMappers
  <2> QED BY <1>1, <1>3, <1>4, <2>1 DEF MapperTalks
<1>11. \A j \in 1 .. 3 \ {i} : /\ Counted(j)' <=> Counted(j)
                               /\ Waiting(j)' <=> Waiting(j)
                               /\ pending_sender'[Mappers[j]] =
                                  pending_sender[Mappers[j]]
  BY <1>0, <1>1, <1>4, ThreeMappers DEF Counted, Waiting
<1>12. Links'
  <2>1. call'[reducer] # Receiving /\ pending_sender'[reducer] # reducer
    BY <1>0, <1>4, <1>6, ThreeMappers
  <2>2. \E k \in 1 .. 3 : Waiting(k)' /\ pending_sender'[reducer] = Mappers[k]
    BY <1>4, <1>5
  <2>3. \A k \in 1 .. 3 : Waiting(k) => k # i /\ Waiting(k)' /\ Mappers[k] # m
    BY <1>0, <1>5, <1>11
  <2>4. ASSUME NEW j \in 1 .. 3, Waiting(j)', pending_sender'[Mappers[j]] # NULL
        PROVE  /\ \E k \in 1 .. 3 : /\ Waiting(k)'
                                    /\ pending_sender'[Mappers[j]] = Mappers[k]
               /\ pending_sender'[Mappers[j]] # pending_sender'[reducer]
               /\ \A k \in 1 .. 3 \ {j} :
                    Waiting(k)' => pending_sender'[Mappers[k]] #
                                   pending_sender'[Mappers[j]]
    <3>1. CASE j = i
      <4>1. pending_sender[reducer] # NULL /\ pending_sender'[m] = pending_sender[reducer]
        BY <1>4, <2>4, <3>1
      <4>2. PICK k \in 1 .. 3 : Waiting(k) /\ pending_sender[reducer] = Mappers[k]
        BY <1>4, <1>6, <4>1 DEF Links
      <4>3. ASSUME NEW l \in 1 .. 3 \ {i}, Waiting(l)'
            PROVE  pending_sender'[Mappers[l]] # pending_sender'[m]
        <5>1. Waiting(l) /\ pending_sender'[Mappers[l]] = pending_sender[Mappers[l]]
          BY <1>11, <4>3
        <5>2. \/ pending_sender[Mappers[l]] = NULL
              \/ pending_sender[Mappers[l]] # pending_sender[reducer]
          BY <1>6, <5>1 DEF Links
        <5> QED BY <4>1, <5>1, <5>2
      <4>4. pending_sender'[Mappers[i]] = Mappers[k] /\ Waiting(k)' /\ Mappers[k] # m
        BY <2>3, <4>1, <4>2
      <4> QED BY <1>4, <3>1, <4>3, <4>4
    <3>2. CASE j # i
      <4>1. /\ Waiting(j) /\ pending_sender[Mappers[j]] # NULL
            /\ pending_sender'[Mappers[j]] = pending_sender[Mappers[j]]
        BY <1>11, <2>4, <3>2
      <4>2. /\ \E k \in 1 .. 3 : Waiting(k) /\ pending_sender[Mappers[j]] = Mappers[k]
            /\ pending_sender[Mappers[j]] # pending_sender[reducer]
            /\ \A k \in 1 .. 3 \ {j} :
                Waiting(k) => pending_sender[Mappers[k]] # pending_sender[Mappers[j]]
        BY <1>6, <4>1 DEF Links
      <4>3. PICK k \in 1 .. 3 : Waiting(k) /\ pending_sender[Mappers[j]] = Mappers[k]
        BY <4>2
      <4>4. pending_sender'[Mappers[j]] # pending_sender'[reducer]
        BY <1>4, <2>3, <4>1, <4>3
      <4>5. ASSUME NEW l \in 1 .. 3 \ {j}, Waiting(l)'
            PROVE  pending_sender'[Mappers[l]] # pending_sender'[Mappers[j]]
        <5>1. CASE l = i
          BY <1>4, <4>1, <4>2, <5>1
        <5>2. CASE l # i
          BY <1>11, <4>1, <4>2, <4>5, <5>2
        <5> QED BY <5>1, <5>2
      <4> QED BY <2>3, <4>1, <4>3, <4>4, <4>5
    <3> QED BY <3>1, <3>2
  <2> QED BY <2>1, <2>2, <2>4 DEF Links
<1>13. /\ Made(reducer)' = Made(reducer) /\ results'[reducer] = results[reducer]
       /\ eax'[reducer] = eax[reducer] /\ call'[reducer] = call[reducer]
  BY <1>0, <1>1, <1>4, ThreeMappers
<1>14. Adding'
  <2>1. Received' = Received /\ Known' = Known
    BY <1>13 DEF Received, Known
  <2>2. SumOf(Received)' = SumOf(Received)
    BY <2>1 DEF SumOf
  <2>3. \A j \in 1 .. 3 : Counted(j)' <=> Counted(j)
    BY <1>5, <1>11
  <2> QED BY <1>6, <2>1, <2>2, <2>3, SameCounts DEF Adding
<1>15. ReducerTalks'
  BY <1>6, <1>12, <1>13, <1>14 DEF ReducerTalks
<1> QED BY <1>8, <1>9, <1>10, <1>15 DEF Talk

\* The reducer takes the square of the mapper at the head of its list.
LEMMA SquareFetched ==
  ASSUME Words, Words', Steady, Talk, current = reducer, n \in 1 .. 3, RecvPending,
         results' = [results EXCEPT ![current] = Got]
  PROVE  Talk'
<1>1. /\ \A e \in EC : Made(e) \in Nat
      /\ \A e \in EC \ {reducer} : Made(e)' = Made(e) /\ results'[e] = results[e]
      /\ Made(reducer) = n - 1 /\ Made(reducer)' = n /\ results'[reducer] = Got
  BY Called, ThreeMappers
<1>2. MainTalks /\ (\A j \in 1 .. 3 : MapperTalks(j)) /\ ReducerTalks
  BY DEF Talk
<1>3. /\ May("recv") /\ call \in [EC -> Waits] /\ call[reducer] = Idle
      /\ pending_sender \in [EC -> EC \cup {NULL}] /\ eax \in [EC -> Nat]
  BY SteadyCaller DEF RecvPending, Words
<1>4. Links /\ Adding /\ call[reducer] # SendingTo(RootEc)
  <2>1. Made(reducer) # 4
    BY <1>1
  <2> QED BY <1>2, <2>1 DEF ReducerTalks
<1>5. PICK i \in 1 .. 3 : Waiting(i) /\ pending_sender[reducer] = Mappers[i]
  BY <1>4 DEF RecvPending, Links
<1>6. PICK m \in EC : /\ m = Mappers[i] /\ m # RootEc /\ m # reducer /\ m # NULL
                      /\ \A j \in 1 .. 3 \ {i} : Mappers[j] # m
  BY ThreeMappers
<1>7. Made(m) = 3 /\ Made(RootEc) >= 8 + i /\ ipc_val[m] = Square(i)
  <2>1. Made(m) = 3 /\ call[m] # Idle
    BY <1>5, <1>6, WaysToWait DEF Waiting
  <2> QED BY <1>2, <1>6, <2>1 DEF MapperTalks
<1>8. /\ UNCHANGED ipc_val /\ eax'[reducer] = Square(i)
      /\ \A e \in EC \ {reducer} : eax'[e] = eax[e]
      /\ \A e \in EC \ {reducer} : pending_sender'[e] = pending_sender[e]
      /\ pending_sender'[reducer] = pending_sender[m]
      /\ call'[m] = Idle /\ \A e \in EC \ {m} : call'[e] = call[e]
  <2>1. /\ UNCHANGED ipc_val
        /\ eax' = [eax EXCEPT ![reducer] = Square(i)]
        /\ pending_sender' = [pending_sender EXCEPT ![reducer] = pending_sender[m]]
        /\ call' = [call EXCEPT ![m] = Idle]
    BY <1>5, <1>6, <1>7 DEF RecvPending, Result
  <2> QED BY <1>3, <2>1, ThreeMappers
<1>9. ~ Counted(i) /\ Counted(i)' /\ ~ Waiting(i)'
  BY <1>1, <1>5, <1>6, <1>7, <1>8, WaysToWait DEF Counted, Waiting
<1>10. \A j \in 1 .. 3 \ {i} : /\ Counted(j)' <=> Counted(j)
                               /\ Waiting(j)' <=> Waiting(j)
  BY <1>1, <1>6, <1>8, ThreeMappers DEF Counted, Waiting
<1>11. \A j \in 1 .. 3 : pending_sender'[Mappers[j]] = pending_sender[Mappers[j]]
  BY <1>8, ThreeMappers
<1>12. \A j \in 1 .. 3 : Sends(j)' <=> Sends(j)
  BY <1>6, <1>8, ThreeMappers DEF Sends
<1>13. MainTalks'
  <2>1. /\ Made(RootEc)' = Made(RootEc) /\ eax'[RootEc] = eax[RootEc]
        /\ call'[RootEc] = call[RootEc]
        /\ pending_sender'[RootEc] = pending_sender[RootEc]
        /\ ipc_val'[RootEc] = ipc_val[RootEc] /\ call'[reducer] = call[reducer]
        /\ Made(reducer) # 4
    BY <1>1, <1>6, <1>8, ThreeMappers
  <2>2. \A j \in 1 .. 3 : Made(Mappers[j]) = 0 /\ Sends(j) => Made(Mappers[j])' = 0
    BY <1>1, ThreeMappers
  <2> QED BY <1>2, <2>1, <2>2, MainKept
<1>14. ASSUME NEW j \in 1 .. 3 PROVE MapperTalks(j)'
  <2>1. PICK x \in EC \ {RootEc, reducer} : x = Mappers[j]
    BY ThreeMappers
  <2>2. /\ Made(x)' = Made(x) /\ results'[x] = results[x] /\ eax'[x] = eax[x]
        /\ pending_sender'[x] = pending_sender[x]
        /\ Made(RootEc) <= Made(RootEc)' /\ Made(RootEc) \in Nat
        /\ Made(RootEc)' \in Nat /\ ipc_val'[x] = ipc_val[x]
    BY <1>1, <1>8, <2>1, ThreeMappers
  <2>3. call'[x] = call[x] \/ (Made(x) = 3 /\ call'[x] = Idle)
    BY <1>7, <1>8, <2>1
  <2> QED BY <1>2, <1>12, <2>1, <2>2, <2>3, MapperKept
<1>15. Links'
  <2>1. /\ pending_sender[m] # NULL =>
              /\ \E k \in 1 .. 3 : Waiting(k) /\ pending_sender[m] = Mappers[k]
              /\ pending_sender[m] # m
              /\ \A k \in 1 .. 3 \ {i} : Waiting(k) => pending_sender[Mappers[k]] #
                                                       pending_sender[m]
    BY <1>4, <1>5, <1>6 DEF Links
  <2>2. pending_sender'[reducer] # NULL =>
           \E k \in 1 .. 3 : Waiting(k)' /\ pending_sender'[reducer] = Mappers[k]
    BY <1>6, <1>8, <1>10, <2>1
  <2>3. call'[reducer] # Receiving /\ pending_sender'[reducer] # reducer
    BY <1>3, <1>6, <1>8, <2>1, ThreeMappers, WaysToWait
  <2>4. ASSUME NEW j \in 1 .. 3, Waiting(j)', pending_sender'[Mappers[j]] # NULL
        PROVE  /\ \E k \in 1 .. 3 : /\ Waiting(k)'
                                    /\ pending_sender'[Mappers[j]] = Mappers[k]
               /\ pending_sender'[Mappers[j]] # pending_sender'[reducer]
               /\ \A k \in 1 .. 3 \ {j} :
                    Waiting(k)' => pending_sender'[Mappers[k]] #
                                   pending_sender'[Mappers[j]]
    <3>1. /\ j # i /\ Waiting(j) /\ pending_sender[Mappers[j]] # NULL
          /\ pending_sender'[Mappers[j]] = pending_sender[Mappers[j]]
      BY <1>9, <1>10, <1>11, <2>4
    <3>2. /\ \E k \in 1 .. 3 : Waiting(k) /\ pending_sender[Mappers[j]] = Mappers[k]
          /\ pending_sender[Mappers[j]] # pending_sender[reducer]
          /\ \A k \in 1 .. 3 \ {j} :
                Waiting(k) => pending_sender[Mappers[k]] # pending_sender[Mappers[j]]
      BY <1>4, <3>1 DEF Links
    <3>3. PICK k \in 1 .. 3 : Waiting(k) /\ pending_sender[Mappers[j]] = Mappers[k]
      BY <3>2
    <3>4. k # i /\ Waiting(k)'
      BY <1>5, <1>10, <3>2, <3>3
    <3>5. pending_sender'[Mappers[j]] # pending_sender'[reducer]
      BY <1>5, <1>6, <1>8, <3>1, <3>2
    <3>6. \A l \in 1 .. 3 \ {j} :
             Waiting(l)' => pending_sender'[Mappers[l]] # pending_sender'[Mappers[j]]
      BY <1>9, <1>10, <1>11, <3>1, <3>2
    <3> QED BY <3>1, <3>3, <3>4, <3>5, <3>6
  <2> QED BY <2>2, <2>3, <2>4 DEF Links
<1>16. Adding'
  <2>1. PICK k \in 0 .. 2 : k = Made(reducer)
    BY <1>1
  <2>2. Received = k /\ Received' = k + 1 /\ Made(reducer)' = k + 1
    <3>1. call'[reducer] # Receiving /\ call[reducer] # Receiving
      BY <1>3, <1>6, <1>8, ThreeMappers, WaysToWait
    <3> QED BY <1>1, <2>1, <3>1 DEF Received
  <2>3. /\ \A j \in 2 .. k + 1 : Known'[j] = Known[j]
        /\ \A j \in 2 .. k + 1 : Known[j] \in Nat
        /\ Known'[k + 2] = Square(i)
    <3>1. results'[reducer] = Known
      BY <1>1 DEF Known, Got
    <3>2. /\ \A j \in 1 .. k + 1 : Known'[j] = results'[reducer][j]
          /\ Known'[k + 1 + 1] = eax'[reducer]
      BY <2>2, KnownNext
    <3>3. \A j \in 1 .. k + 1 : Known[j] \in Nat
      BY <2>1, KnownIs
    <3>4. k + 1 + 1 = k + 2 /\ \A j \in 2 .. k + 1 : j \in 1 .. k + 1
      OBVIOUS
    <3> QED BY <1>8, <3>1, <3>2, <3>3, <3>4
  <2>4. SumOf(k + 1)' = SumOf(k) + Square(i)
    BY <2>3, ThreeMappers, SumGrows
  <2>5. /\ Received = Count(1) + Count(2) + Count(3)
        /\ SumOf(k) = Adds(1) + Adds(2) + Adds(3)
    BY <1>4, <2>2 DEF Adding
  <2>6. /\ Count(1)' + Count(2)' + Count(3)' = Count(1) + Count(2) + Count(3) + 1
        /\ Adds(1)' + Adds(2)' + Adds(3)' = Adds(1) + Adds(2) + Adds(3) + Square(i)
    BY <1>9, <1>10, OneMoreCounted
  <2>7. SumOf(Received)' = SumOf(k + 1)'
    BY <2>2 DEF SumOf
  <2> QED BY <2>2, <2>4, <2>5, <2>6, <2>7 DEF Adding
<1>17. ReducerTalks'
  <2>1. /\ Made(reducer)' \in 0 .. 3 /\ Made(reducer)' # 0
        /\ call'[reducer] # SendingTo(RootEc)
    BY <1>1, <1>4, <1>6, <1>8, ThreeMappers
  <2> QED BY <1>15, <1>16, <2>1 DEF ReducerTalks
<1> QED BY <1>13, <1>14, <1>17 DEF Talk

\* The reducer finds no mapper in its list, and waits for one.
LEMMA ReducerWaits ==
  ASSUME Words, Words', Steady, Talk, current = reducer, n \in 1 .. 3, RecvBlocks,
         call' = [call EXCEPT ![current] = Receiving],
         results' = [results EXCEPT ![current] = Got]
  PROVE  Talk'
<1>1. /\ \A e \in EC : Made(e) \in Nat
      /\ \A e \in EC \ {reducer} : Made(e)' = Made(e) /\ results'[e] = results[e]
      /\ Made(reducer) = n - 1 /\ Made(reducer)' = n /\ results'[reducer] = Got
  BY Called, ThreeMappers
<1>2. MainTalks /\ (\A j \in 1 .. 3 : MapperTalks(j)) /\ ReducerTalks
  BY DEF Talk
<1>3. /\ May("recv") /\ call \in [EC -> Waits] /\ call[reducer] = Idle
      /\ pending_sender \in [EC -> EC \cup {NULL}] /\ eax \in [EC -> Nat]
  BY SteadyCaller DEF RecvBlocks, Words
<1>4. Links /\ Adding /\ call[reducer] # SendingTo(RootEc)
  <2>1. Made(reducer) # 4
    BY <1>1
  <2> QED BY <1>2, <2>1 DEF ReducerTalks
<1>5. /\ UNCHANGED ipc_val
      /\ \A e \in EC \ {reducer} : eax'[e] = eax[e]
      /\ \A e \in EC \ {reducer} : pending_sender'[e] = pending_sender[e]
      /\ pending_sender'[reducer] = reducer
      /\ call'[reducer] = Receiving /\ \A e \in EC \ {reducer} : call'[e] = call[e]
  <2>1. /\ UNCHANGED ipc_val
        /\ eax' = [eax EXCEPT ![reducer] = FRAME]
        /\ pending_sender' = [pending_sender EXCEPT ![reducer] = reducer]
        /\ call' = [call EXCEPT ![reducer] = Receiving]
    BY DEF RecvBlocks, Entered
  <2> QED BY <1>3, <2>1, ThreeMappers
<1>6. \A j \in 1 .. 3 :
         /\ Counted(j)' <=> Counted(j)
         /\ Waiting(j)' <=> Waiting(j)
         /\ Sends(j)' <=> Sends(j)
         /\ pending_sender'[Mappers[j]] = pending_sender[Mappers[j]]
  BY <1>1, <1>5, ThreeMappers DEF Counted, Waiting, Sends
<1>7. MainTalks'
  <2>1. /\ Made(RootEc)' = Made(RootEc) /\ eax'[RootEc] = eax[RootEc]
        /\ call'[RootEc] = call[RootEc]
        /\ pending_sender'[RootEc] = pending_sender[RootEc]
        /\ ipc_val'[RootEc] = ipc_val[RootEc] /\ Made(reducer) # 4
        /\ call'[reducer] # SendingTo(RootEc)
    BY <1>1, <1>5, ThreeMappers, WaysToWait
  <2>2. \A j \in 1 .. 3 : Made(Mappers[j]) = 0 /\ Sends(j) => Made(Mappers[j])' = 0
    BY <1>1, ThreeMappers
  <2> QED BY <1>2, <1>4, <2>1, <2>2, MainKept
<1>8. ASSUME NEW j \in 1 .. 3 PROVE MapperTalks(j)'
  <2>1. PICK x \in EC \ {RootEc, reducer} : x = Mappers[j]
    BY ThreeMappers
  <2>2. /\ Made(x)' = Made(x) /\ results'[x] = results[x] /\ eax'[x] = eax[x]
        /\ call'[x] = call[x] /\ pending_sender'[x] = pending_sender[x]
        /\ Made(RootEc) <= Made(RootEc)' /\ Made(RootEc) \in Nat
        /\ Made(RootEc)' \in Nat /\ ipc_val'[x] = ipc_val[x]
    BY <1>1, <1>5, <2>1, ThreeMappers
  <2> QED BY <1>2, <1>6, <2>1, <2>2, MapperKept
<1>9. Links'
  <2>1. ASSUME NEW j \in 1 .. 3, Waiting(j)', pending_sender'[Mappers[j]] # NULL
        PROVE  /\ \E k \in 1 .. 3 : /\ Waiting(k)'
                                    /\ pending_sender'[Mappers[j]] = Mappers[k]
               /\ pending_sender'[Mappers[j]] # pending_sender'[reducer]
               /\ \A k \in 1 .. 3 \ {j} :
                    Waiting(k)' => pending_sender'[Mappers[k]] #
                                   pending_sender'[Mappers[j]]
    <3>1. Waiting(j) /\ pending_sender[Mappers[j]] # NULL
      BY <1>6, <2>1
    <3>2. /\ \E k \in 1 .. 3 : Waiting(k) /\ pending_sender[Mappers[j]] = Mappers[k]
          /\ \A k \in 1 .. 3 \ {j} :
                Waiting(k) => pending_sender[Mappers[k]] # pending_sender[Mappers[j]]
      BY <1>4, <3>1 DEF Links
    <3>3. PICK k \in 1 .. 3 : Waiting(k) /\ pending_sender[Mappers[j]] = Mappers[k]
      BY <3>2
    <3>4. pending_sender'[Mappers[j]] # pending_sender'[reducer]
      BY <1>5, <1>6, <3>3, ThreeMappers
    <3> QED BY <1>6, <3>2, <3>3, <3>4
  <2> QED BY <1>5, <2>1 DEF Links
<1>10. Adding'
  <2>1. PICK k \in 0 .. 2 : k = Made(reducer)
    BY <1>1
  <2>2. Received = k /\ Received' = k /\ Made(reducer)' = k + 1
    <3>1. call'[reducer] = Receiving /\ call[reducer] # Receiving
      BY <1>3, <1>5, WaysToWait
    <3> QED BY <1>1, <2>1, <3>1 DEF Received
  <2>3. \A j \in 2 .. k + 1 : Known'[j] = Known[j]
    <3>1. results'[reducer] = Known
      BY <1>1 DEF Known, Got
    <3>2. \A j \in 1 .. k + 1 : Known'[j] = results'[reducer][j]
      BY <2>2, KnownNext
    <3> QED BY <3>1, <3>2
  <2>4. SumOf(k)' = SumOf(k)
    <3>1. k \in 0 .. 3
      OBVIOUS
    <3> QED BY <2>3, <3>1, SumStays
  <2>5. /\ Received = Count(1) + Count(2) + Count(3)
        /\ SumOf(k) = Adds(1) + Adds(2) + Adds(3)
    BY <1>4, <2>2 DEF Adding
  <2>6. SumOf(Received)' = SumOf(k)'
    BY <2>2 DEF SumOf
  <2> QED BY <1>6, <2>2, <2>4, <2>5, <2>6, SameCounts DEF Adding
<1>11. ReducerTalks'
  <2>1. /\ Made(reducer)' \in 0 .. 3 /\ Made(reducer)' # 0
        /\ call'[reducer] # SendingTo(RootEc)
    BY <1>1, <1>5, WaysToWait
  <2> QED BY <1>9, <1>10, <2>1 DEF ReducerTalks
<1> QED BY <1>7, <1>8, <1>11 DEF Talk

\* When the reducer has received three words, it has the square of each mapper.
LEMMA AllCounted ==
  ASSUME Words, Talk, current = reducer, call[reducer] = Idle, n = 4
  PROVE  /\ Made(reducer) = 3 /\ \A i \in 1 .. 3 : Counted(i)
         /\ Got[2] + Got[3] + Got[4] = Squares
<1>1. Made(reducer) = 3
  <2>1. n = Made(reducer) + 1 /\ Made(reducer) \in Nat
    BY GotIs, ThreeMappers
  <2> QED BY <2>1
<1>2. Adding
  <2>1. Made(reducer) # 4
    BY <1>1
  <2> QED BY <2>1 DEF Talk, ReducerTalks
<1>3. Received = 3
  BY <1>1, WaysToWait DEF Received
<1>4. Count(1) + Count(2) + Count(3) = 3 /\ SumOf(3) = Adds(1) + Adds(2) + Adds(3)
  BY <1>2, <1>3 DEF Adding
<1>5. Counted(1) /\ Counted(2) /\ Counted(3)
  <2>1. \A i \in 1 .. 3 : Count(i) \in {0, 1} /\ (Count(i) = 1 => Counted(i))
    BY DEF Count
  <2>2. Count(1) = 1 /\ Count(2) = 1 /\ Count(3) = 1
    BY <1>4, <2>1
  <2> QED BY <2>1, <2>2
<1>6. Adds(1) = Square(1) /\ Adds(2) = Square(2) /\ Adds(3) = Square(3)
  BY <1>5 DEF Adds
<1>7. SumOf(3) = Got[2] + Got[3] + Got[4]
  BY DEF SumOf, Known, Got
<1>8. \A i \in 1 .. 3 : i = 1 \/ i = 2 \/ i = 3
  OBVIOUS
<1> QED BY <1>1, <1>4, <1>5, <1>6, <1>7, <1>8, ThreeMappers

\* The reducer sends the sum to main, which waits for it or will find it.
LEMMA SumSent ==
  ASSUME Words, Steady, Talk, current = reducer, n = 4,
         \/ /\ FastSend(RootEc, Got[2] + Got[3] + Got[4])
            /\ call' = [call EXCEPT ![RootEc] = Idle]
         \/ /\ SlowSend(RootEc, Got[2] + Got[3] + Got[4])
            /\ call' = [call EXCEPT ![current] = SendingTo(RootEc)],
         results' = [results EXCEPT ![current] = Got]
  PROVE  Talk'
<1>1. /\ \A e \in EC : Made(e) \in Nat
      /\ \A e \in EC \ {reducer} : Made(e)' = Made(e) /\ results'[e] = results[e]
      /\ Made(reducer) = 3 /\ Made(reducer)' = 4
  BY Called, ThreeMappers
<1>2. MainTalks /\ (\A j \in 1 .. 3 : MapperTalks(j)) /\ ReducerTalks
  BY DEF Talk
<1>3. /\ May("send") /\ call \in [EC -> Waits] /\ call[reducer] = Idle
      /\ pending_sender \in [EC -> EC \cup {NULL}] /\ eax \in [EC -> Nat]
      /\ ipc_val \in [EC -> Nat]
  BY SteadyCaller DEF FastSend, SlowSend, Words
<1>4. Got[2] + Got[3] + Got[4] = Squares /\ \A i \in 1 .. 3 : Counted(i)
  BY <1>3, AllCounted
<1>5. \/ /\ Made(RootEc) < 12 /\ pending_sender[RootEc] = NULL
      \/ /\ Made(RootEc) = 12 /\ call[RootEc] = Receiving
         /\ pending_sender[RootEc] = RootEc
  <2>1. CASE Made(RootEc) < 12
    BY <1>2, <1>3, <2>1, WaysToWait DEF MainTalks, If
  <2>2. CASE Made(RootEc) >= 12
    BY <1>1, <1>2, <2>2 DEF MainTalks
  <2> QED BY <1>1, <2>1, <2>2, ThreeMappers
<1>6. /\ \A e \in EC \ {reducer, RootEc} :
             /\ call'[e] = call[e] /\ eax'[e] = eax[e]
             /\ pending_sender'[e] = pending_sender[e]
      /\ \A e \in EC \ {reducer} : ipc_val'[e] = ipc_val[e]
      /\ \/ /\ Made(RootEc) = 12 /\ call[RootEc] = Receiving
            /\ call'[RootEc] = Idle /\ eax'[RootEc] = Squares
            /\ call'[reducer] = Idle
         \/ /\ Made(RootEc) < 12 /\ call'[RootEc] = call[RootEc]
            /\ pending_sender'[RootEc] = reducer
            /\ call'[reducer] = SendingTo(RootEc) /\ ipc_val'[reducer] = Squares
  <2>1. CASE FastSend(RootEc, Squares) /\ call' = [call EXCEPT ![RootEc] = Idle]
    <3>1. /\ UNCHANGED ipc_val
          /\ eax' = [[eax EXCEPT ![reducer] = FRAME] EXCEPT ![RootEc] = Squares]
          /\ pending_sender[RootEc] = RootEc
          /\ pending_sender' = [pending_sender EXCEPT ![RootEc] = NULL]
      BY <2>1 DEF FastSend, Entered
    <3>2. /\ eax'[RootEc] = Squares
          /\ \A e \in EC \ {reducer, RootEc} : eax'[e] = eax[e]
      BY <1>3, <3>1, ThreeMappers
    <3>3. call'[RootEc] = Idle /\ \A e \in EC \ {RootEc} : call'[e] = call[e]
      BY <1>3, <2>1, ThreeMappers
    <3>4. \A e \in EC \ {RootEc} : pending_sender'[e] = pending_sender[e]
      BY <1>3, <3>1
    <3> QED BY <1>3, <1>5, <3>1, <3>2, <3>3, <3>4, ThreeMappers
  <2>2. CASE /\ SlowSend(RootEc, Squares)
             /\ call' = [call EXCEPT ![current] = SendingTo(RootEc)]
    <3>1. /\ ipc_val' = [ipc_val EXCEPT ![reducer] = Squares]
          /\ eax' = [eax EXCEPT ![reducer] = FRAME]
          /\ pending_sender[RootEc] # RootEc
          /\ pending_sender' = [pending_sender EXCEPT
                                   ![reducer] = pending_sender[RootEc],
                                   ![RootEc] = reducer]
          /\ call' = [call EXCEPT ![reducer] = SendingTo(RootEc)]
      BY <2>2 DEF SlowSend, Entered
    <3>2. /\ ipc_val'[reducer] = Squares
          /\ \A e \in EC \ {reducer} : ipc_val'[e] = ipc_val[e]
          /\ \A e \in EC \ {reducer} : eax'[e] = eax[e]
      BY <1>3, <3>1, ThreeMappers
    <3>3. /\ call'[reducer] = SendingTo(RootEc)
          /\ \A e \in EC \ {reducer} : call'[e] = call[e]
      BY <1>3, <3>1, ThreeMappers
    <3>4. /\ pending_sender'[RootEc] = reducer
          /\ \A e \in EC \ {reducer, RootEc} : pending_sender'[e] = pending_sender[e]
      BY <1>3, <3>1, ThreeMappers
    <3> QED BY <1>5, <3>1, <3>2, <3>3, <3>4, ThreeMappers
  <2> QED BY <1>4, <2>1, <2>2
<1>7. \A j \in 1 .. 3 : ~ Sends(j) /\ ~ Sends(j)'
  <2>1. \A j \in 1 .. 3 : ~ Sends(j)
    BY <1>2, <1>4 DEF MainTalks, Counted
  <2>2. \A j \in 1 .. 3 : ~ Sends(j)'
    BY <1>6, <2>1, WaysToWait DEF Sends
  <2> QED BY <2>1, <2>2
<1>8. MainTalks'
  <2>1. Made(RootEc)' = Made(RootEc) /\ Made(RootEc) \in Nat
    BY <1>1, ThreeMappers
  <2>2. CASE Made(RootEc) = 12 /\ eax'[RootEc] = Squares
    <3>1. ~(Made(RootEc)' < 12)
      BY <2>1, <2>2
    <3> QED BY <1>1, <1>7, <2>2, <3>1 DEF MainTalks
  <2>3. CASE /\ Made(RootEc) < 12 /\ pending_sender'[RootEc] = reducer
             /\ call'[reducer] = SendingTo(RootEc)
    <3>1. ~(Made(RootEc)' >= 12)
      BY <2>1, <2>3
    <3> QED BY <1>7, <2>3, <3>1 DEF MainTalks, If
  <2> QED BY <1>6, <2>2, <2>3
<1>9. ASSUME NEW j \in 1 .. 3 PROVE MapperTalks(j)'
  <2>1. PICK x \in EC \ {RootEc, reducer} : x = Mappers[j]
    BY ThreeMappers
  <2>2. /\ Made(x)' = Made(x) /\ results'[x] = results[x] /\ eax'[x] = eax[x]
        /\ call'[x] = call[x] /\ pending_sender'[x] = pending_sender[x]
        /\ Made(RootEc) <= Made(RootEc)' /\ Made(RootEc) \in Nat
        /\ Made(RootEc)' \in Nat /\ ipc_val'[x] = ipc_val[x]
    BY <1>1, <1>6, <2>1, ThreeMappers
  <2>3. Sends(j)' <=> Sends(j)
    BY <1>7
  <2> QED BY <1>2, <2>1, <2>2, <2>3, MapperKept
<1>10. ReducerTalks'
  <2>1. \A j \in 1 .. 3 : Counted(j)'
    BY <1>1, <1>4, <1>6, ThreeMappers DEF Counted
  <2>2. call'[reducer] = SendingTo(RootEc) => ipc_val'[reducer] = Squares
    BY <1>6, WaysToWait
  <2> QED BY <1>1, <2>1, <2>2 DEF ReducerTalks
<1> QED BY <1>8, <1>9, <1>10 DEF Talk

\* The reducer has sent the sum and yields for ever.
LEMMA ReducerYields ==
  ASSUME Words, Steady, Talk, current = reducer, n = 5, SysYield, call' = call,
         UNCHANGED results
  PROVE  Talk'
<1>1. /\ Made(reducer) = 4 /\ \A e \in EC : Made(e)' = Made(e)
      /\ Made(RootEc) \in Nat
  <2>1. n = Made(reducer) + 1 /\ Made(reducer) \in Nat
    BY GotIs, ThreeMappers
  <2>2. Made(RootEc) \in Nat
    BY ThreeMappers DEF Words, Made
  <2>3. Made(reducer) = 4
    BY <2>1
  <2>4. \A e \in EC : Made(e)' = Made(e)
    BY DEF Made
  <2> QED BY <2>2, <2>3, <2>4
<1>2. MainTalks /\ (\A j \in 1 .. 3 : MapperTalks(j)) /\ ReducerTalks
  BY DEF Talk
<1>3. UNCHANGED <<ipc_val, pending_sender>> /\ \A e \in EC \ {reducer} : eax'[e] = eax[e]
  <2>1. eax' = [eax EXCEPT ![reducer] = FRAME] /\ eax \in [EC -> Nat]
    BY DEF SysYield, Entered, Words
  <2> QED BY <2>1 DEF SysYield, ipcVars
<1>4. \A j \in 1 .. 3 : /\ Sends(j)' <=> Sends(j)
                        /\ Counted(j)' <=> Counted(j)
                        /\ Waiting(j)' <=> Waiting(j)
                        /\ Made(Mappers[j])' = Made(Mappers[j])
  BY <1>1, ThreeMappers DEF Sends, Counted, Waiting
<1>5. MainTalks'
  <2>1. /\ Made(RootEc)' = Made(RootEc) /\ eax'[RootEc] = eax[RootEc]
        /\ Made(reducer)' = Made(reducer)
    BY <1>1, <1>3, ThreeMappers
  <2> QED BY <1>2, <1>3, <1>4, <2>1, MainKept
<1>6. ASSUME NEW j \in 1 .. 3 PROVE MapperTalks(j)'
  <2>1. PICK x \in EC \ {RootEc, reducer} : x = Mappers[j]
    BY ThreeMappers
  <2>2. /\ Made(x)' = Made(x) /\ results'[x] = results[x] /\ eax'[x] = eax[x]
        /\ Made(RootEc) <= Made(RootEc)' /\ Made(RootEc)' \in Nat
    BY <1>1, <1>3, <2>1, ThreeMappers
  <2> QED BY <1>1, <1>2, <1>3, <1>4, <2>1, <2>2, MapperKept
<1>7. ReducerTalks'
  <2>1. Made(reducer)' = Made(reducer) /\ results'[reducer] = results[reducer]
    BY <1>1, ThreeMappers
  <2> QED BY <1>1, <1>2, <1>3, <1>4, <2>1, ReducerKept
<1> QED BY <1>5, <1>6, <1>7 DEF Talk

\* main prints what it received.
LEMMA MainReports ==
  ASSUME Words, Steady, Talk, Report
  PROVE  Talk' /\ Steady' /\ final' = Squares
<1>1. /\ current = RootEc /\ n = 13 /\ sched.halted = "no" /\ UNCHANGED vars
      /\ results' = [results EXCEPT ![current] = Got] /\ final' = Got[n]
  BY DEF Report
<1>2. /\ UNCHANGED <<sched, current, pending_sender, saved_priority, ipc_val>>
      /\ UNCHANGED <<eax, created, call, base>>
  BY <1>1 DEF vars, ecVars, ipcVars
<1>3. /\ \A e \in EC : Made(e) \in Nat
      /\ \A e \in EC \ {RootEc} : Made(e)' = Made(e) /\ results'[e] = results[e]
      /\ Made(RootEc) = 12 /\ Made(RootEc)' = 13
  BY <1>1, Called, ThreeMappers
<1>4. MainTalks /\ (\A j \in 1 .. 3 : MapperTalks(j)) /\ ReducerTalks
  BY DEF Talk
<1>5. call[RootEc] = Idle
  <2>1. Wide!CurrentsAgree /\ Wide!Sound(sched) /\ sched.current_ec # NULL
    BY <1>1 DEF Steady, Wide!SInv
  <2>2. sched.current_ec = RootEc
    BY <1>1, <2>1 DEF Wide!CurrentsAgree
  <2>3. RootEc \notin Wide!Asleep(sched)
    BY <2>1, <2>2 DEF Wide!Sound, Wide!OnePlace, Wide!Asleep
  <2> QED BY <2>3, ThreeMappers, SameQueueOps DEF Steady, Wide!FlagsAgree
<1>6. Made(reducer) = 4 /\ eax[RootEc] = Squares
  <2>1. Made(RootEc) >= 12
    BY <1>3
  <2> QED BY <1>3, <1>4, <1>5, <2>1, WaysToWait DEF MainTalks
<1>7. final' = Squares
  <2>1. Got[n] = eax[RootEc]
    BY <1>1, GotIs, ThreeMappers
  <2> QED BY <1>1, <1>6, <2>1
<1>8. Steady'
  BY <1>2 DEF Steady, Wide!SInv, Wide!FieldsOK, Wide!CurrentsAgree,
              Wide!StopsOnlyIdle, Wide!FlagsAgree
<1>9. \A j \in 1 .. 3 : /\ Sends(j)' <=> Sends(j)
                        /\ Counted(j)' <=> Counted(j)
                        /\ Waiting(j)' <=> Waiting(j)
  BY <1>2, <1>3, ThreeMappers DEF Sends, Counted, Waiting
<1>10. MainTalks'
  <2>1. \A j \in 1 .. 3 : ~ Sends(j)'
    BY <1>5, <1>9, WaysToWait DEF Sends
  <2>2. ~(Made(RootEc)' < 12) /\ Made(RootEc)' # 12 /\ Made(reducer)' = 4
    BY <1>3, <1>6, ThreeMappers
  <2> QED BY <2>1, <2>2 DEF MainTalks
<1>11. ASSUME NEW j \in 1 .. 3 PROVE MapperTalks(j)'
  <2>1. PICK x \in EC \ {RootEc, reducer} : x = Mappers[j]
    BY ThreeMappers
  <2>2. /\ Made(x)' = Made(x) /\ results'[x] = results[x] /\ Made(RootEc) \in Nat
        /\ Made(RootEc) <= Made(RootEc)' /\ Made(RootEc)' \in Nat
    BY <1>3, <2>1, ThreeMappers
  <2> QED BY <1>2, <1>4, <1>9, <2>1, <2>2, MapperKept
<1>12. ReducerTalks'
  <2>1. Made(reducer)' = Made(reducer) /\ results'[reducer] = results[reducer]
    BY <1>3, ThreeMappers
  <2> QED BY <1>2, <1>4, <1>9, <2>1, ReducerKept
<1> QED BY <1>7, <1>8, <1>10, <1>11, <1>12 DEF Talk

\* A create_ec of main, as far as the message system goes.
LEMMA CreateECSteps ==
  ASSUME Steady, NEW e \in EC, NEW prio \in Wide!Levels, NEW slot, NEW idx,
         CreateEC(e, prio, slot, idx), eax \in [EC -> Nat], eax' \in [EC -> Nat],
         sched'.halted = "no"
  PROVE  /\ Steady' /\ UNCHANGED <<call, ipcVars>>
         /\ \E w \in Nat : eax' = [eax EXCEPT ![current] = w]
<1>0. /\ May("create_ec") /\ FRAME \in Nat /\ current \in EC
      /\ Wide!Sound(sched) /\ eax' \in [EC -> Int]
  BY SteadyCaller, FiveEcs DEF CreateEC
<1>1. CASE CreateRefused(slot, idx)
  BY <1>0, <1>1, SteadyResult DEF CreateRefused, Entered
<1>2. CASE CreateOutOfRange(idx)
  <2>1. /\ UNCHANGED <<sched, current, ipcVars, created, call, base>>
        /\ eax' = [eax EXCEPT ![current] = -1]
    BY <1>2 DEF CreateOutOfRange, Result
  <2>2. eax'[current] = -1 /\ eax'[current] \in Nat
    BY <1>0, <2>1
  <2> QED BY <2>2
<1>3. CASE CreateFaults(slot, idx)
  <2>1. sched' = [sched EXCEPT !.halted = "page fault"] /\ sched \in Wide!SchedulerState
    BY <1>0, <1>3 DEF CreateFaults, Wide!Sound
  <2>2. sched'.halted = "page fault"
    BY <2>1 DEF Wide!SchedulerState
  <2> QED BY <2>2
<1>4. CASE CreateDone(e, prio, slot, idx)
  <2>1. Spawn(e, prio) /\ UNCHANGED ipcVars
    BY <1>4 DEF CreateDone
  <2>2. Steady' /\ call' = call
    BY <1>0, <2>1, SteadySpawn
  <2>3. \E w : eax' = [eax EXCEPT ![current] = w]
    BY <1>4 DEF CreateDone, Result
  <2>4. PICK w : eax' = [eax EXCEPT ![current] = w]
    BY <2>3
  <2>5. eax'[current] = w /\ eax'[current] \in Nat
    BY <1>0, <2>4
  <2> QED BY <2>1, <2>2, <2>4, <2>5
<1> QED BY <1>1, <1>2, <1>3, <1>4 DEF CreateEC

\* main builds, and talks to nobody.
LEMMA MainBuilds ==
  ASSUME PInv, PInv', Steady, Talk, reducer_priority \in ReducerPriority,
         current = RootEc, MainCalls, n < 9,
         results' = [results EXCEPT ![current] = Got], sched'.halted = "no"
  PROVE  Steady' /\ Talk'
<1>0. /\ Words /\ Words' /\ eax \in [EC -> Nat] /\ eax' \in [EC -> Nat]
      /\ eax' \in [EC -> Int] /\ n \in Nat /\ current \in EC
  <2>1. Words /\ Words' /\ current \in EC
    BY FiveEcs DEF PInv
  <2>2. eax \in [EC -> Nat] /\ eax' \in [EC -> Nat]
    BY <2>1 DEF Words
  <2>3. n \in Nat
    BY <2>1, GotIs
  <2>4. eax' \in [EC -> Int]
    BY <2>2
  <2> QED BY <2>1, <2>2, <2>3, <2>4
<1>1. PICK prio : prio = reducer_priority
  OBVIOUS
<1>2. prio \in Wide!Levels /\ 0 \in Wide!Levels
  BY <1>1, WideAssumptions, DemoAssumption
<1>3. \/ \E child \in PD : CreatePD(child)
      \/ \E idx, src, dst : DelegateCap(idx, src, dst)
      \/ \E e \in EC, p \in {prio, 0} : \E slot, idx : CreateEC(e, p, slot, idx)
  <2>1. ASSUME NEW i \in 1 .. NUM_MAPPERS PROVE Mappers[i] \in EC /\ ~(n = 8 + i)
    BY <1>0, ThreeMappers DEF NUM_MAPPERS
  <2>2. n # 12 /\ reducer \in EC
    BY <1>0, FiveEcs
  <2> QED BY <1>1, <2>1, <2>2 DEF MainCalls
<1>4. ASSUME NEW child \in PD, CreatePD(child)
      PROVE  /\ UNCHANGED <<sched, current, ipcVars, created, call, base>>
             /\ \E w : eax' = [eax EXCEPT ![current] = w]
  BY <1>4 DEF CreatePD, Result
<1>5. ASSUME NEW idx, NEW src, NEW dst, DelegateCap(idx, src, dst)
      PROVE  /\ UNCHANGED <<sched, current, ipcVars, created, call, base>>
             /\ \E w : eax' = [eax EXCEPT ![current] = w]
  BY <1>5 DEF DelegateCap, Result
<1>6. ASSUME NEW e \in EC, NEW p \in {prio, 0}, NEW slot, NEW idx,
             CreateEC(e, p, slot, idx)
      PROVE  /\ Steady' /\ UNCHANGED <<call, ipcVars>>
             /\ \E w : eax' = [eax EXCEPT ![current] = w]
  <2>1. p \in Wide!Levels
    BY <1>2
  <2> QED BY <1>0, <1>6, <2>1, CreateECSteps
<1>7. /\ Steady' /\ UNCHANGED <<call, ipcVars>>
      /\ \E w : eax' = [eax EXCEPT ![current] = w]
  BY <1>0, <1>3, <1>4, <1>5, <1>6, SteadyResult
<1>8. \A e \in EC \ {RootEc} : eax'[e] = eax[e]
  BY <1>0, <1>7
<1>9. UNCHANGED <<call, pending_sender, ipc_val>>
  BY <1>7 DEF ipcVars
<1> QED BY <1>0, <1>7, <1>8, <1>9, BuildsTalk

\* A message or a yield keeps the message system sound.
LEMMA SteadyMessage ==
  ASSUME Steady, sched'.halted = "no"
  PROVE  /\ SysYield => Steady' /\ call' = call
         /\ \A t \in EC, v \in Nat : IpcSend(t, v) =>
               /\ Steady'
               /\ \/ FastSend(t, v) /\ call' = [call EXCEPT ![t] = Idle]
                  \/ /\ SlowSend(t, v)
                     /\ call' = [call EXCEPT ![current] = SendingTo(t)]
         /\ IpcRecv =>
               /\ Steady'
               /\ \/ RecvPending
                  \/ RecvBlocks /\ call' = [call EXCEPT ![current] = Receiving]
<1>1. SysYield => Steady' /\ call' = call
  BY SteadyYield
<1>2. ASSUME NEW t \in EC, NEW v \in Nat, IpcSend(t, v)
      PROVE  /\ Steady'
             /\ \/ FastSend(t, v) /\ call' = [call EXCEPT ![t] = Idle]
                \/ /\ SlowSend(t, v)
                   /\ call' = [call EXCEPT ![current] = SendingTo(t)]
  <2>1. FastSend(t, v) \/ SlowSend(t, v)
    BY <1>2, FiveEcs DEF IpcSend
  <2> QED BY <2>1, SteadyFastSend, SteadySlowSend
<1>3. ASSUME IpcRecv
      PROVE  /\ Steady'
             /\ \/ RecvPending
                \/ RecvBlocks /\ call' = [call EXCEPT ![current] = Receiving]
  BY <1>3, SteadyRecvPending, SteadyRecvBlocks DEF IpcRecv
<1> QED BY <1>1, <1>2, <1>3

\* A message of main.
LEMMA MainMessages ==
  ASSUME PInv, Steady, Talk, current = RootEc, MainCalls, n > 8,
         results' = [results EXCEPT ![current] = Got], sched'.halted = "no"
  PROVE  Steady' /\ Talk'
<1>0. Words /\ n \in Nat /\ n = Made(RootEc) + 1 /\ Made(RootEc) \in Nat
  BY FiveEcs, GotIs DEF PInv
<1>1. GetCap(2) = mapper0 /\ GetCap(3) = mapper1 /\ GetCap(4) = mapper2
  <2>1. Made(RootEc) > 7
    BY <1>0
  <2> QED BY <2>1, TargetsFound
<1>2. \/ \E i \in 1 .. 3 : n = 8 + i /\ ipc_send(MAPPER_SLOTS[i], Inputs[i])
      \/ n = 12 /\ ipc_recv
  <2>1. /\ n \notin {1, 2} /\ n # 3 /\ n # 4 /\ n # 8
        /\ \A i \in 1 .. 3 : n # 4 + i
    BY <1>0
  <2> QED BY <2>1 DEF MainCalls, NUM_MAPPERS
<1>3. ASSUME NEW i \in 1 .. 3, n = 8 + i, ipc_send(MAPPER_SLOTS[i], Inputs[i])
      PROVE  Steady' /\ Talk'
  <2>1. GetCap(MAPPER_SLOTS[i]) = Mappers[i]
    BY <1>1 DEF MAPPER_SLOTS, Mappers
  <2>2. IpcSend(Mappers[i], Inputs[i])
    BY <1>3, <2>1 DEF ipc_send
  <2>3. PICK t \in EC, v \in Nat : t = Mappers[i] /\ v = Inputs[i]
    BY ThreeMappers
  <2>4. /\ Steady'
        /\ \/ FastSend(t, v) /\ call' = [call EXCEPT ![t] = Idle]
           \/ /\ SlowSend(t, v)
              /\ call' = [call EXCEPT ![current] = SendingTo(t)]
    BY <2>2, <2>3, SteadyMessage
  <2> QED BY <1>0, <1>3, <2>3, <2>4, NumberTaken, NumberOffered
<1>4. CASE n = 12 /\ ipc_recv
  <2>1. /\ Steady'
        /\ \/ RecvPending
           \/ RecvBlocks /\ call' = [call EXCEPT ![current] = Receiving]
    BY <1>4, SteadyMessage DEF ipc_recv
  <2> QED BY <1>0, <1>4, <2>1, MainReceives
<1> QED BY <1>2, <1>3, <1>4

\* Every step of a mapper.
LEMMA MapperTalksOn ==
  ASSUME PInv, PInv', Steady, Talk, NEW i \in 1 .. 3, NEW m, m = Mappers[i],
         current = m, sched'.halted = "no",
         \/ MapperCalls /\ results' = [results EXCEPT ![current] = Got]
         \/ n = 4 /\ yield /\ UNCHANGED results
  PROVE  Steady' /\ Talk'
<1>0. /\ Words /\ Words' /\ current \in EC /\ current # RootEc
      /\ current \in {mapper0, mapper1, mapper2}
  BY ThreeMappers DEF PInv
<1>1. GetCap(REDUCER_SLOT) = reducer
  BY <1>0, OthersLater, TargetsFound DEF REDUCER_SLOT
<1>2. CASE n = 1 /\ ipc_recv /\ results' = [results EXCEPT ![current] = Got]
  <2>1. /\ Steady'
        /\ \/ RecvPending
           \/ RecvBlocks /\ call' = [call EXCEPT ![current] = Receiving]
    BY <1>2, SteadyMessage DEF ipc_recv
  <2> QED BY <1>0, <1>2, <2>1, MapperReceives
<1>3. CASE \/ n = 2 /\ yield /\ results' = [results EXCEPT ![current] = Got]
           \/ n = 4 /\ yield /\ UNCHANGED results
  <2>1. SysYield /\ Steady' /\ call' = call
    BY <1>3, SteadyMessage DEF yield
  <2> QED BY <1>0, <1>3, <2>1, MapperYields
<1>4. CASE /\ n = 3 /\ ipc_send(REDUCER_SLOT, Got[2] * Got[2])
           /\ results' = [results EXCEPT ![current] = Got]
  <2>1. Got[2] * Got[2] \in Nat /\ reducer \in EC
    BY <1>0, <1>4, GotIs, FiveEcs
  <2>2. PICK t \in EC, v \in Nat : t = reducer /\ v = Got[2] * Got[2]
    BY <2>1
  <2>3. IpcSend(t, v)
    BY <1>1, <1>4, <2>2 DEF ipc_send
  <2>4. /\ Steady'
        /\ \/ FastSend(t, v) /\ call' = [call EXCEPT ![t] = Idle]
           \/ /\ SlowSend(t, v)
              /\ call' = [call EXCEPT ![current] = SendingTo(t)]
    BY <2>3, SteadyMessage
  <2> QED BY <1>0, <1>4, <2>2, <2>4, SquareTaken, SquareOffered
<1> QED BY <1>2, <1>3, <1>4 DEF MapperCalls

\* Every step of the reducer.
LEMMA ReducerTalksOn ==
  ASSUME PInv, PInv', Steady, Talk, current = reducer, sched'.halted = "no",
         \/ ReducerCalls /\ results' = [results EXCEPT ![current] = Got]
         \/ n = 5 /\ yield /\ UNCHANGED results
  PROVE  Steady' /\ Talk'
<1>0. Words /\ Words' /\ current \in EC /\ current # RootEc
  BY FiveEcs DEF PInv
<1>1. GetCap(MAIN_SLOT) = RootEc
  BY <1>0, OthersLater, TargetsFound DEF MAIN_SLOT
<1>2. CASE n \in 1 .. 3 /\ ipc_recv /\ results' = [results EXCEPT ![current] = Got]
  <2>1. /\ Steady'
        /\ \/ RecvPending
           \/ RecvBlocks /\ call' = [call EXCEPT ![current] = Receiving]
    BY <1>2, SteadyMessage DEF ipc_recv
  <2> QED BY <1>0, <1>2, <2>1, SquareFetched, ReducerWaits
<1>3. CASE n = 5 /\ yield /\ UNCHANGED results
  <2>1. SysYield /\ Steady' /\ call' = call
    BY <1>3, SteadyMessage DEF yield
  <2> QED BY <1>0, <1>3, <2>1, ReducerYields
<1>4. CASE /\ n = 4 /\ ipc_send(MAIN_SLOT, Got[2] + Got[3] + Got[4])
           /\ results' = [results EXCEPT ![current] = Got]
  <2>1. Got[2] + Got[3] + Got[4] \in Nat /\ RootEc \in EC
    BY <1>0, <1>4, GotIs, FiveEcs
  <2>2. PICK t \in EC, v \in Nat : t = RootEc /\ v = Got[2] + Got[3] + Got[4]
    BY <2>1
  <2>3. IpcSend(t, v)
    BY <1>1, <1>4, <2>2 DEF ipc_send
  <2>4. /\ Steady'
        /\ \/ FastSend(t, v) /\ call' = [call EXCEPT ![t] = Idle]
           \/ /\ SlowSend(t, v)
              /\ call' = [call EXCEPT ![current] = SendingTo(t)]
    BY <2>3, SteadyMessage
  <2> QED BY <1>0, <1>4, <2>2, <2>4, SumSent
<1> QED BY <1>2, <1>3, <1>4 DEF ReducerCalls, NUM_MAPPERS

\* What none of the five ECs takes part in.
LEMMA TalkKept ==
  ASSUME Talk, UNCHANGED <<results, call, pending_sender, ipc_val>>,
         eax'[RootEc] = eax[RootEc], eax'[reducer] = eax[reducer],
         \A i \in 1 .. 3 : eax'[Mappers[i]] = eax[Mappers[i]]
  PROVE  Talk'
<1>1. MainTalks'
  BY DEF Talk, MainTalks, Sends, Made
<1>2. ASSUME NEW i \in 1 .. 3 PROVE MapperTalks(i)'
  BY DEF Talk, MapperTalks, Sends, Made
<1>3. /\ \A i \in 1 .. 3 : /\ Counted(i)' <=> Counted(i)
                           /\ Waiting(i)' <=> Waiting(i)
      /\ Made(reducer)' = Made(reducer)
  BY DEF Counted, Waiting, Made
<1>4. ReducerTalks
  BY DEF Talk
<1>5. ReducerTalks'
  BY <1>3, <1>4, ReducerKept
<1> QED BY <1>1, <1>2, <1>5 DEF Talk

LEMMA NextTInv == TInv /\ [DemoNext]_demoVars => TInv'
<1> SUFFICES ASSUME TInv, [DemoNext]_demoVars PROVE TInv'
  OBVIOUS
<1>1. /\ PInv /\ PInv' /\ OnlyTheSum /\ reducer_priority \in ReducerPriority
      /\ Words /\ RootEc \in EC
  BY NextPInv, FiveEcs DEF TInv, PInv
<1>2. reducer_priority' = reducer_priority
  BY DEF DemoNext, Calling, Report, Retire, demoVars
<1>3. ASSUME Calling \/ Retire PROVE TInv'
  <2>1. OnlyTheSum'
    BY <1>1, <1>3 DEF Calling, Retire, OnlyTheSum
  <2>2. ASSUME sched'.halted = "no" PROVE Steady' /\ Talk'
    <3>1. sched.halted = "no"
      BY <1>3 DEF Calling, Retire, yield, SysYield, MainCalls, MapperCalls,
                  ReducerCalls, CreatePD, DelegateCap, CreateEC, ipc_send,
                  ipc_recv, IpcSend, IpcRecv, SendNowhere, FastSend, SlowSend,
                  RecvPending, RecvBlocks, May
    <3>2. Steady /\ Talk
      BY <3>1 DEF TInv
    <3>3. CASE current = RootEc /\ Calling
      <4>1. MainCalls /\ results' = [results EXCEPT ![current] = Got]
        BY <3>3, FiveEcs DEF Calling
      <4>2. n < 9 \/ n > 8
        BY <1>1, <3>3, GotIs
      <4> QED BY <1>1, <2>2, <3>2, <3>3, <4>1, <4>2, MainBuilds, MainMessages
    <3>4. CASE current = reducer
      <4>1. \/ ReducerCalls /\ results' = [results EXCEPT ![current] = Got]
            \/ n = 5 /\ yield /\ UNCHANGED results
        BY <1>3, <3>4, FiveEcs DEF Calling, Retire
      <4> QED BY <1>1, <2>2, <3>2, <3>4, <4>1, ReducerTalksOn
    <3>5. CASE current \in {mapper0, mapper1, mapper2}
      <4>1. PICK i \in 1 .. 3 : current = Mappers[i]
        BY <3>5, ThreeMappers
      <4>2. PICK m : m = Mappers[i]
        OBVIOUS
      <4>3. \/ MapperCalls /\ results' = [results EXCEPT ![current] = Got]
            \/ n = 4 /\ yield /\ UNCHANGED results
        BY <1>3, <3>5, FiveEcs DEF Calling, Retire
      <4> QED BY <1>1, <2>2, <3>2, <4>1, <4>2, <4>3, MapperTalksOn
    <3>6. CASE Retire /\ current \notin {RootEc, reducer, mapper0, mapper1, mapper2}
      <4>1. SysYield /\ UNCHANGED results
        BY <3>6 DEF Retire, yield
      <4>2. Steady' /\ call' = call
        BY <2>2, <3>2, <4>1, SteadyYield
      <4>3. UNCHANGED <<pending_sender, ipc_val>> /\ eax' = [eax EXCEPT ![current] = FRAME]
        BY <4>1 DEF SysYield, Entered, ipcVars
      <4>4. /\ eax'[RootEc] = eax[RootEc] /\ eax'[reducer] = eax[reducer]
            /\ \A i \in 1 .. 3 : eax'[Mappers[i]] = eax[Mappers[i]]
        <5>1. eax \in [EC -> Nat]
          BY <1>1 DEF Words
        <5>2. \A e \in EC \ {current} : eax'[e] = eax[e]
          BY <4>3, <5>1
        <5> QED BY <3>6, <5>2, ThreeMappers
      <4> QED BY <3>2, <4>1, <4>2, <4>3, <4>4, TalkKept
    <3> QED BY <1>3, <3>3, <3>4, <3>5, <3>6 DEF Calling, Retire
  <2> QED BY <1>1, <1>2, <2>1, <2>2 DEF TInv
<1>4. CASE Report
  <2>1. Steady /\ Talk
    BY <1>4 DEF TInv, Report
  <2>2. Talk' /\ Steady' /\ final' = Squares
    BY <1>1, <1>4, <2>1, MainReports
  <2> QED BY <1>1, <1>2, <2>2 DEF TInv, OnlyTheSum
<1>5. CASE UNCHANGED demoVars
  <2>1. /\ UNCHANGED <<sched, current, ipcVars, created, call, base, eax>>
        /\ UNCHANGED <<results, final>>
    BY <1>5 DEF demoVars, vars, ecVars
  <2>2. OnlyTheSum'
    BY <1>1, <2>1 DEF OnlyTheSum
  <2>3. ASSUME Steady, Talk PROVE Steady' /\ Talk'
    <3>1. eax' \in [EC -> Int]
      BY <1>1, <2>1 DEF Words
    <3>2. Steady'
      BY <2>1, <2>3, <3>1, SteadyResult
    <3>3. Talk'
      BY <2>1, <2>3, TalkKept DEF ipcVars
    <3> QED BY <3>2, <3>3
  <2> QED BY <1>1, <1>2, <2>1, <2>2, <2>3 DEF TInv
<1> QED BY <1>3, <1>4, <1>5 DEF DemoNext

\* bootstrap() leaves one EC, which runs, and every queue empty.
LEMMA InitSteady == DemoInit /\ sched.halted = "no" => Steady
<1> SUFFICES ASSUME DemoInit, sched.halted = "no" PROVE Steady
  OBVIOUS
<1>1. PICK t : t = Scheduled(EmptyScheduler, RootEc)
  OBVIOUS
<1> DEFINE none == << >>
<1>2. none \in Seq(Entry) /\ Len(none) = 0 /\ none = << >>
  OBVIOUS
<1>3. FieldsInit
      /\ sched = [t EXCEPT !.queues = [p \in 0 .. LAST_PRIORITY |->
                                         IF p \in Levels THEN @[p] ELSE none]]
  BY <1>1 DEF DemoInit
<1> HIDE DEF none
<1>4. /\ t \in SchedulerState /\ OnePlace(t) /\ Members(t) = {RootEc}
      /\ t.halted = "no" => t.current_ec = RootEc
  BY <1>1, RootScheduled DEF Sound
<1>5. /\ sched.queues = [p \in 0 .. LAST_PRIORITY |->
                            IF p \in Levels THEN t.queues[p] ELSE none]
      /\ sched.current_ec = t.current_ec /\ sched.priority = t.priority
      /\ sched.halted = t.halted
  BY <1>3, <1>4 DEF SchedulerState
<1>6. sched.current_ec = RootEc
  BY <1>4, <1>5
<1>7. \A p \in Levels : t.queues[p] = none
  <2> SUFFICES ASSUME NEW p \in Levels PROVE t.queues[p] = none
    OBVIOUS
  <2>1. t.queues[p] \in Seq(Entry)
    BY <1>4 DEF SchedulerState
  <2>2. ASSUME NEW k \in 1 .. Len(t.queues[p]) PROVE FALSE
    <3>0. t.queues[p][k] \in Entry
      BY <2>1
    <3>1. t.queues[p][k].ec \in EC /\ t.queues[p][k].ec # RootEc
      <4>1. t.queues[p][k].ec \in EC
        BY <3>0 DEF Entry
      <4>2. t.queues[p][k].ec # t.current_ec
        BY <1>4 DEF OnePlace
      <4> QED BY <1>5, <1>6, <4>1, <4>2
    <3>2. t.queues[p][k].ec \in Queued(t)
      BY <3>1 DEF Queued
    <3> QED BY <1>4, <3>1, <3>2 DEF Members
  <2>3. Len(t.queues[p]) = 0
    BY <2>1, <2>2
  <2> QED BY <1>2, <2>1, <2>3
<1>8. \A p \in Wide!Levels : sched.queues[p] = none
  BY <1>5, <1>7, WideAssumptions
<1>9. Wide!Entry = Entry /\ Wide!Halts = Halts
  BY DEF Wide!Entry, Entry, Wide!Halts, Halts
<1>10. sched \in Wide!SchedulerState
  <2> DEFINE q == [p \in 0 .. LAST_PRIORITY |->
                      IF p \in Levels THEN t.queues[p] ELSE none]
  <2>1. q \in [Wide!Levels -> Seq(Wide!Entry)]
    BY <1>2, <1>7, <1>9, WideAssumptions
  <2>2. /\ sched = [t EXCEPT !.queues = q] /\ t.current_ec \in EC \cup {NULL}
        /\ t.priority \in [EC -> Wide!Levels] /\ t.halted \in Wide!Halts
    BY <1>3, <1>4, <1>9, WideAssumptions DEF SchedulerState
  <2> HIDE DEF q
  <2> QED BY <1>4, <2>1, <2>2 DEF SchedulerState, Wide!SchedulerState
<1>11. Wide!OnePlace(sched) /\ Wide!Asleep(sched) = {} /\ Wide!Queued(sched) = {}
  BY <1>2, <1>8 DEF Wide!OnePlace, Wide!Asleep, Wide!Queued
<1>12. Wide!Members(sched) = {RootEc} /\ RootEc # NULL /\ RootEc \in EC
  BY <1>6, <1>11, FiveEcs DEF Wide!Members
<1>13. Wide!FieldsOK
  <2>1. 0 \in Wide!Levels
    BY WideAssumptions
  <2> QED BY <1>3, <2>1 DEF FieldsInit, Wide!FieldsOK
<1>14. Wide!Idle = Idle /\ Wide!Waits = Waits
  BY SameQueueOps
<1>15. Wide!SInv
  BY <1>3, <1>6, <1>10, <1>11, <1>12, <1>13, <1>14
     DEF FieldsInit, Wide!SInv, Wide!Sound, Wide!CurrentsAgree,
         Wide!StopsOnlyIdle, Waits
<1>16. Wide!FlagsAgree
  BY <1>3, <1>11, <1>14 DEF FieldsInit, Wide!FlagsAgree
<1> QED BY <1>15, <1>16 DEF Steady

LEMMA InitTInv == DemoInit => TInv
<1> SUFFICES ASSUME DemoInit PROVE TInv
  OBVIOUS
<1>1. /\ PInv /\ OnlyTheSum /\ reducer_priority \in ReducerPriority
      /\ sched.halted = "no" => Steady
  BY InitPInv, InitSteady DEF DemoInit, OnlyTheSum
<1>2. \A e \in EC : /\ Made(e) = 0 /\ call[e] = Idle /\ pending_sender[e] = NULL
                    /\ eax[e] = 0
  BY DEF DemoInit, FieldsInit, Made
<1>3. /\ Made(RootEc) = 0 /\ call[RootEc] = Idle /\ pending_sender[RootEc] = NULL
      /\ Made(reducer) = 0 /\ call[reducer] = Idle /\ pending_sender[reducer] = NULL
      /\ \A i \in 1 .. 3 : /\ Made(Mappers[i]) = 0 /\ ~ Sends(i)
                           /\ pending_sender[Mappers[i]] = NULL
                           /\ ~ Waiting(i) /\ ~ Counted(i)
  BY <1>2, ThreeMappers, WaysToWait DEF Sends, Waiting, Counted
<1>4. MainTalks
  BY <1>3, WaysToWait DEF MainTalks, If
<1>5. ASSUME NEW i \in 1 .. 3 PROVE MapperTalks(i)
  BY <1>3 DEF MapperTalks, If
<1>6. ReducerTalks
  <2>1. Links
    BY <1>3, WaysToWait, ThreeMappers DEF Links
  <2>2. Adding
    BY <1>3, WaysToWait DEF Adding, Received, SumOf, Count, Adds
  <2> QED BY <1>3, <2>1, <2>2, WaysToWait DEF ReducerTalks
<1> QED BY <1>1, <1>4, <1>5, <1>6 DEF TInv, Talk

\* Whatever the three numbers are, as long as the sum of their squares is a
\* word, and whatever priority the reducer has, one without a queue included,
\* main prints that sum or nothing (user.cc:123): each number meets its own
\* mapper and each square is added once, on the fast path or out of a list of
\* senders, boosted or not.
THEOREM DemoPrintsTheSum == DemoSpec => []OnlyTheSum
<1>1. TInv => OnlyTheSum
  BY DEF TInv
<1> QED BY <1>1, InitTInv, NextTInv, PTL DEF DemoSpec
===============================================================================
