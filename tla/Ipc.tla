--------------------------------- MODULE Ipc ---------------------------------
(***************************************************************************)
(* Synchronous IPC between ECs whose capabilities no longer change and who *)
(* leave block and unblock alone: the IPC calls of Syscalls, with the      *)
(* lookup caller->pd->get_cap(slot) abstracted to a set of ECs the caller  *)
(* can name. An EC makes the calls its Program lists, in any order; an EC  *)
(* may be created at any time by one whose program says create_ec. Here    *)
(* are the properties that need programs to keep to roles; module Kernel   *)
(* has the capability tables and programs that may do anything.            *)
(***************************************************************************)
EXTENDS Syscalls, FiniteSets

CONSTANTS
    Reach,        \* the ECs each EC holds capabilities to
    BasePriority  \* the priority each EC is created with

ASSUME IpcAssumption == /\ Reach \in [EC -> SUBSET (EC \cup {NULL})]
                        /\ BasePriority \in [EC -> Levels]
                        /\ BasePriority[RootEc] = 0

\* What get_cap() can return: an EC that exists, or nullptr for a slot the
\* caller got wrong or that is not filled yet.
Lookup == {t \in Reach[current] : t \in created \/ t = NULL}

\* SyscallCreateEC::handle when both capability slots are free.
CreateEC(e) ==
    /\ May("create_ec")
    /\ Spawn(e, BasePriority[e])
    /\ eax' = Result(0)
    /\ UNCHANGED ipcVars

Init == EcInit

Next ==
    \/ SysYield
    \/ \E t \in Lookup, v \in Values : IpcSend(t, v)
    \/ IpcRecv
    \/ \E e \in EC : CreateEC(e)

Spec == Init /\ [][Next]_ecVars

\* The EC that runs makes its next system call some day: user programs do not
\* spin, and nothing but a call makes the kernel switch.
FairSpec == Spec /\ WF_ecVars(Next)

-----------------------------------------------------------------------------
\* Safety, where clients only send and servers only receive.

\* The chain of pending_sender pointers from t: its n-th element.
Link(t) == LET nth[n \in 0 .. Cardinality(EC)] ==
                  IF n = 0 THEN t
                  ELSE IF nth[n - 1] = NULL THEN NULL
                  ELSE pending_sender[nth[n - 1]]
           IN  nth

\* The senders t will take one after the other.
Senders(t) ==
    IF pending_sender[t] = t THEN {}
    ELSE {Link(t)[n] : n \in 1 .. Cardinality(EC)} \ {NULL}

\* The sender list of an EC that receives is exactly the ECs that wait in a
\* send to it: none is lost, none is on a list it left or never joined, and
\* every list ends (syscall.cc:222-224, 239-240).
SenderListExact ==
    \A t \in created : "recv" \in Program[t] =>
        /\ Senders(t) = {e \in EC : call[e] = SendingTo(t)}
        /\ pending_sender[t] # t => Link(t)[Cardinality(EC)] = NULL

\* pending_sender says "waits for a message" exactly of the ECs that do
\* (syscall.cc:201, 260).
ReceiverMarked == \A e \in EC : pending_sender[e] = e <=> call[e] = Receiving

\* An EC waits in the kernel exactly as long as its queue entry is blocked:
\* no wake-up is lost and none comes early (syscall.cc:206, 225, 251, 261).
WaitsWhileBlocked ==
    \A p \in Levels : \A i \in 1 .. Len(sched.queues[p]) :
        sched.queues[p][i].blocked <=> call[sched.queues[p][i].ec] # Idle

\* No priority inversion: an EC never runs at a lower priority than an EC
\* that waits for it to receive (syscall.cc:216-220, 244-249).
PriorityInheritance ==
    \A e, t \in created :
        call[e] = SendingTo(t) => sched.priority[t] <= sched.priority[e]

\* A boost ends with the senders that caused it (syscall.cc:244, 256).
BoostNeedsSender ==
    \A e \in created : saved_priority[e] # 0 => pending_sender[e] \notin {NULL, e}

\* Whoever waits in a send is on the target's sender list, as the comment of
\* syscall.cc:222 says, so that a receive can find it.
SendersRegistered ==
    \A e, t \in EC : call[e] = SendingTo(t) => e \in Senders(t)

\* Clients and servers never stop the kernel: somebody can always run.
NeverHalts == sched.halted = "no"

-----------------------------------------------------------------------------
\* The refinement, where clients only send and servers only receive.

\* What each EC waits for as its caller sees it: a sender brings its word.
Waiting == [e \in EC |-> IF call[e] \in {Idle, Receiving} THEN call[e]
                         ELSE <<"send", call[e][2], ipc_val[e]>>]

Promise == INSTANCE Rendezvous WITH waits  <- Waiting,
                                    result <- eax,
                                    exists <- created

\* Every call does what Rendezvous promises. A send ends only in the receive
\* that takes its word, at once or later; a receive waits only if nobody sends
\* to it, and a send only if its target does not wait; each word arrives once,
\* with its receiver, and stays in its saved eax until it has run, through
\* boosts, list updates and wake-ups (syscall.cc:200-228, 239-264).
ImplementsRendezvous == Promise!Spec

-----------------------------------------------------------------------------
\* Liveness, where servers only receive and clients send or yield.

WaitsInSend(e) == call[e] \notin {Idle, Receiving}

\* The send of an EC of the highest priority completes: the receiver inherits
\* the priority, so no other EC of that priority can starve it.
TopSendCompletes ==
    \A e \in EC : (base[e] = 0 /\ WaitsInSend(e)) ~> ~WaitsInSend(e)
==============================================================================
