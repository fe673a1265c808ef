------------------------------ MODULE Syscalls -------------------------------
(***************************************************************************)
(* The handlers of the system calls that schedule and communicate          *)
(* (kern/src/syscall.cc), over the scheduler of RunQueues and the IPC      *)
(* fields of class Ec. A handler runs on one processor with interrupts off *)
(* from sysenter to sysexit or iret: it is one step. It takes the EC that  *)
(* the capability lookup gave; modules Ipc and Kernel say what that is.    *)
(***************************************************************************)
EXTENDS RunQueues

CONSTANTS
    RootEc,  \* the EC bootstrap() creates
    Values,  \* the words user programs send
    FRAME,   \* the address of a syscall frame, as a number
    Program  \* the system calls each EC may make

Calls == {"yield", "block", "unblock", "unblock_all", "send", "recv",
          "create_ec", "create_pd", "delegate_cap"}

\* A frame lies in user memory: as a signed word it is positive.
ASSUME SyscallAssumption == /\ RootEc \in EC
                            /\ Values \in SUBSET Nat
                            /\ FRAME \in Nat
                            /\ Program \in [EC -> SUBSET Calls]

VARIABLES
    sched,          \* Scheduler::sched, and Ec::priority
    current,        \* Ec::current
    pending_sender, \* head of an EC's sender list, and its link in another's
    saved_priority, \* the priority from before a boost; 0: not boosted
    ipc_val,        \* the word a waiting sender sends
    eax,            \* saved eax of every EC: the result of its last call
    created,        \* the ECs that exist
    call,           \* history: what an EC waits for in the kernel
    base            \* history: the priority an EC was created with

ipcVars == <<pending_sender, saved_priority, ipc_val>>
ecVars  == <<sched, current, ipcVars, eax, created, call, base>>

Idle       == <<"none">>
Receiving  == <<"recv">>
SendingTo(t) == <<"send", t>>
Waits == {Idle, Receiving} \cup {SendingTo(t) : t \in EC}

\* The running EC is at user level and makes call c.
May(c) == sched.halted = "no" /\ c \in Program[current]

\* entry_sysenter saves the registers: eax still holds the frame's address,
\* and is what the caller sees unless the handler writes a result.
Entered == [eax EXCEPT ![current] = FRAME]

Result(w) == [eax EXCEPT ![current] = w]

\* next->make_current(): the EC the scheduler picked returns to user level.
Switch(s, waits) ==
    /\ sched' = s
    /\ IF s.halted = "no"
       THEN /\ current' = s.current_ec
            /\ call' = [waits EXCEPT ![s.current_ec] = Idle]
       ELSE UNCHANGED current /\ call' = waits

\* The handler returns to the EC that called.
Return(s) == sched' = s /\ UNCHANGED <<current, call>>

-----------------------------------------------------------------------------

\* SyscallYield::handle
SysYield ==
    /\ May("yield")
    /\ Switch(Yielded(sched), call)
    /\ eax' = Entered
    /\ UNCHANGED <<ipcVars, created, base>>

\* Mutant: the EC that yield() picked is not made current.
SysBlockNoSwitch(target) ==
    /\ May("block")
    /\ Return(IF target = NULL THEN sched ELSE Blocked(sched, target))
    /\ eax' = Entered
    /\ UNCHANGED <<ipcVars, created, base>>

\* SyscallBlock::handle, target already looked up
SysBlock(target) ==
    /\ May("block")
    /\ IF target = NULL THEN Return(sched)
       ELSE IF target = sched.current_ec THEN Switch(Blocked(sched, target), call)
       ELSE Return(Blocked(sched, target))
    /\ eax' = Entered
    /\ UNCHANGED <<ipcVars, created, base>>

\* SyscallUnblock::handle with a capability
SysUnblock(target) ==
    /\ May("unblock")
    /\ Return(IF target = NULL THEN sched ELSE Unblocked(sched, target))
    /\ eax' = Entered
    /\ UNCHANGED <<ipcVars, created, base>>

\* SyscallUnblock::handle with argc = 0
SysUnblockAll ==
    /\ May("unblock_all")
    /\ Return(AllUnblocked(sched))
    /\ eax' = Entered
    /\ UNCHANGED <<ipcVars, created, base>>

\* SyscallIpcSend::handle, no EC behind the capability
SendNowhere ==
    /\ May("send")
    /\ eax' = Result(-1)
    /\ UNCHANGED <<sched, current, ipcVars, created, call, base>>

\* Mutant: the receiver is not woken (syscall.cc:206).
FastSendNoWake(target, value) ==
    /\ May("send")
    /\ pending_sender[target] = target
    /\ pending_sender' = [pending_sender EXCEPT ![target] = NULL]
    /\ eax' = [Entered EXCEPT ![target] = value]
    /\ Switch(Yielded(sched), call)
    /\ UNCHANGED <<saved_priority, ipc_val, created, base>>

\* SyscallIpcSend::handle, fast path: the word goes straight into the
\* receiver's eax, the caller yields.
FastSend(target, value) ==
    /\ May("send")
    /\ pending_sender[target] = target
    /\ pending_sender' = [pending_sender EXCEPT ![target] = NULL]
    /\ eax' = [Entered EXCEPT ![target] = value]
    /\ Switch(Yielded(Unblocked(sched, target)), [call EXCEPT ![target] = Idle])
    /\ UNCHANGED <<saved_priority, ipc_val, created, base>>

\* Mutant: the comparison the wrong way round.
BoostsLower(target) == sched.priority[current] > sched.priority[target]

\* The target of a sender of higher priority inherits that priority.
Boosts(target) == sched.priority[current] < sched.priority[target]

\* Mutant: the rest of the list is not linked (syscall.cc:223).
SlowSendUnlinked(target, value) ==
    /\ May("send")
    /\ pending_sender[target] # target
    /\ ipc_val' = [ipc_val EXCEPT ![current] = value]
    /\ pending_sender' = [pending_sender EXCEPT ![target] = current]
    /\ Switch(Blocked(sched, current), [call EXCEPT ![current] = SendingTo(target)])
    /\ eax' = Entered
    /\ UNCHANGED <<saved_priority, created, base>>

\* Mutant: saved_priority counts from one, to tell priority 0 from no boost.
SlowSendSavesNext(target, value) ==
    /\ May("send")
    /\ pending_sender[target] # target
    /\ ipc_val' = [ipc_val EXCEPT ![current] = value]
    /\ saved_priority' = IF Boosts(target)
                         THEN [saved_priority EXCEPT
                                  ![target] = sched.priority[target] + 1]
                         ELSE saved_priority
    /\ pending_sender' = [pending_sender EXCEPT
                             ![current] = pending_sender[target],
                             ![target]  = current]
    /\ LET s == IF Boosts(target)
                THEN Reprioritized(sched, target, sched.priority[current])
                ELSE sched
       IN  Switch(Blocked(s, current), [call EXCEPT ![current] = SendingTo(target)])
    /\ eax' = Entered
    /\ UNCHANGED <<created, base>>

\* SyscallIpcSend::handle, slow path: the caller becomes the head of the
\* target's sender list and blocks.
SlowSend(target, value) ==
    /\ May("send")
    /\ pending_sender[target] # target
    /\ ipc_val' = [ipc_val EXCEPT ![current] = value]
    /\ saved_priority' = IF Boosts(target)
                         THEN [saved_priority EXCEPT
                                  ![target] = sched.priority[target]]
                         ELSE saved_priority
    /\ pending_sender' = [pending_sender EXCEPT
                             ![current] = pending_sender[target],
                             ![target]  = current]
    /\ LET s == IF Boosts(target)
                THEN Reprioritized(sched, target, sched.priority[current])
                ELSE sched
       IN  Switch(Blocked(s, current), [call EXCEPT ![current] = SendingTo(target)])
    /\ eax' = Entered
    /\ UNCHANGED <<created, base>>

IpcSend(target, value) ==
    \/ target = NULL /\ SendNowhere
    \/ target # NULL /\ (FastSend(target, value) \/ SlowSend(target, value))

\* Mutant: saved_priority is cleared, the priority stays.
RestoredNot == sched

\* The scheduler once the running EC has given a boost back.
Restored ==
    IF saved_priority[current] # 0
    THEN Reprioritized(sched, current, saved_priority[current])
    ELSE sched

\* Mutant: the sender is not woken (syscall.cc:251).
RecvPendingNoWake ==
    /\ May("recv")
    /\ pending_sender[current] \notin {NULL, current}
    /\ LET sender == pending_sender[current]
       IN  /\ pending_sender' = [pending_sender EXCEPT
                                    ![current] = pending_sender[sender]]
           /\ eax' = Result(ipc_val[sender])
           /\ call' = [call EXCEPT ![sender] = Idle]
    /\ UNCHANGED <<sched, current, saved_priority, ipc_val, created, base>>

\* Mutant: a boost outlives its senders (syscall.cc:244-249).
RecvPendingBoosted ==
    /\ May("recv")
    /\ pending_sender[current] \notin {NULL, current}
    /\ LET sender == pending_sender[current]
       IN  /\ pending_sender' = [pending_sender EXCEPT
                                    ![current] = pending_sender[sender]]
           /\ eax' = Result(ipc_val[sender])
           /\ sched' = Unblocked(sched, sender)
           /\ call' = [call EXCEPT ![sender] = Idle]
    /\ UNCHANGED <<current, saved_priority, ipc_val, created, base>>

\* Mutant: the receiver reads its own ipc_val (syscall.cc:242).
RecvPendingOwnValue ==
    /\ May("recv")
    /\ pending_sender[current] \notin {NULL, current}
    /\ LET sender  == pending_sender[current]
           emptied == pending_sender[sender] = NULL
       IN  /\ pending_sender' = [pending_sender EXCEPT
                                    ![current] = pending_sender[sender]]
           /\ eax' = Result(ipc_val[current])
           /\ saved_priority' = IF emptied
                                THEN [saved_priority EXCEPT ![current] = 0]
                                ELSE saved_priority
           /\ sched' = Unblocked(IF emptied THEN Restored ELSE sched, sender)
           /\ call' = [call EXCEPT ![sender] = Idle]
    /\ UNCHANGED <<current, ipc_val, created, base>>

\* SyscallIpcRecv::handle, a sender waits: the last one to come is taken.
RecvPending ==
    /\ May("recv")
    /\ pending_sender[current] \notin {NULL, current}
    /\ LET sender  == pending_sender[current]
           emptied == pending_sender[sender] = NULL
       IN  /\ pending_sender' = [pending_sender EXCEPT
                                    ![current] = pending_sender[sender]]
           /\ eax' = Result(ipc_val[sender])
           /\ saved_priority' = IF emptied
                                THEN [saved_priority EXCEPT ![current] = 0]
                                ELSE saved_priority
           /\ sched' = Unblocked(IF emptied THEN Restored ELSE sched, sender)
           /\ call' = [call EXCEPT ![sender] = Idle]
    /\ UNCHANGED <<current, ipc_val, created, base>>

\* Mutant: the receiver does not say that it waits (syscall.cc:260).
RecvBlocksUnmarked ==
    /\ May("recv")
    /\ pending_sender[current] \in {NULL, current}
    /\ saved_priority' = [saved_priority EXCEPT ![current] = 0]
    /\ Switch(Blocked(Restored, current), [call EXCEPT ![current] = Receiving])
    /\ eax' = Entered
    /\ UNCHANGED <<pending_sender, ipc_val, created, base>>

\* SyscallIpcRecv::handle, no sender yet: an EC that waits points to itself.
RecvBlocks ==
    /\ May("recv")
    /\ pending_sender[current] \in {NULL, current}
    /\ saved_priority' = [saved_priority EXCEPT ![current] = 0]
    /\ pending_sender' = [pending_sender EXCEPT ![current] = current]
    /\ Switch(Blocked(Restored, current), [call EXCEPT ![current] = Receiving])
    /\ eax' = Entered
    /\ UNCHANGED <<ipc_val, created, base>>

IpcRecv == RecvPending \/ RecvBlocks

\* Mutant: the new EC is not scheduled (syscall.cc:75).
SpawnUnscheduled(e, prio) ==
    /\ e \notin created
    /\ Return([sched EXCEPT !.priority[e] = prio])
    /\ created' = created \cup {e}
    /\ base' = [base EXCEPT ![e] = prio]

\* The constructor of class Ec and Scheduler::schedule(), the part of
\* SyscallCreateEC::handle that concerns the new EC.
Spawn(e, prio) ==
    /\ e \notin created
    /\ Return(Scheduled([sched EXCEPT !.priority[e] = prio], e))
    /\ created' = IF sched'.halted = "queue full" THEN created
                                                  ELSE created \cup {e}
    /\ base' = [base EXCEPT ![e] = prio]

-----------------------------------------------------------------------------

\* The constructors of class Ec, and what bootstrap() leaves in Ec::current.
FieldsInit ==
    /\ current = RootEc
    /\ pending_sender = [e \in EC |-> NULL]
    /\ saved_priority = [e \in EC |-> 0]
    /\ ipc_val = [e \in EC |-> 0]
    /\ eax = [e \in EC |-> 0]
    /\ created = {RootEc}
    /\ call = [e \in EC |-> Idle]
    /\ base = [e \in EC |-> 0]

\* The state once bootstrap() has made the root EC current and root_invoke()
\* has scheduled it: schedule() finds nothing running and dispatches it.
EcInit == sched = Scheduled(EmptyScheduler, RootEc) /\ FieldsInit

-----------------------------------------------------------------------------
\* Safety, whatever the programs do and whatever the lookups give.

\* The state is well formed: scheduler.h:11-18, ec.h:48-62.
EcTypeOK ==
    /\ sched \in SchedulerState
    /\ current \in EC
    /\ pending_sender \in [EC -> EC \cup {NULL}]
    /\ saved_priority \in [EC -> Levels]
    /\ ipc_val \in [EC -> Nat]
    /\ eax \in [EC -> Int]
    /\ created \in SUBSET EC
    /\ call \in [EC -> Waits]
    /\ base \in [EC -> Levels]

\* Ec::current and Scheduler::current_ec, two variables that every handler
\* must keep in step by hand, name the same EC whenever user code runs: the
\* code after "if (next)" is UNREACHED only then (syscall.cc:207-210, 225-228,
\* 261-264).
CurrentsAgree == sched.halted = "no" => current = sched.current_ec

\* The run queues hold every EC but the running one exactly once, each in the
\* queue of its present priority, through every boost and restore: the loops
\* of unblock and reprioritize look nowhere else (scheduler.cc:90, 112).
Accounting == OnePlace(sched) /\ created = Members(sched)

\* The machine stops for want of an EC to run only when every EC is blocked,
\* as user.cc:15 says, and never while one is left that could run.
StopsOnlyIdle ==
    sched.halted = "no ECs to run" =>
        \A e \in created : ~Ready(sched, e) /\ e # sched.current_ec

\* Priority inheritance never loses an EC's own priority: not boosted, an EC
\* has the priority it was created with; boosted, it runs above it and
\* saved_priority has it (syscall.cc:217-220, 245-249, 256-259). This needs
\* that there are only two priorities: with three, an EC that is boosted already
\* can be boosted again, and the second boost overwrites what the first saved.
BaseOrSaved ==
    \A e \in created :
        IF saved_priority[e] = 0
        THEN sched.priority[e] = base[e]
        ELSE saved_priority[e] = base[e] /\ sched.priority[e] < base[e]
==============================================================================
