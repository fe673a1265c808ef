------------------------------ MODULE IpcProofs ------------------------------
(***************************************************************************)
(* Synchronous IPC for any number of clients, servers, words and           *)
(* priorities: nobody waits in vain or is woken early, no sender is lost,  *)
(* no EC runs below one that waits for it, and every call does what        *)
(* Rendezvous promises.                                                    *)
(***************************************************************************)
EXTENDS Ipc, SyscallsProofs, FiniteSetTheorems

Client(e) == "send" \in Program[e]

\* Nobody both sends and receives, and no client can name a client.
Roles == \A e \in EC : Client(e) =>
            /\ "recv" \notin Program[e]
            /\ \A t \in Reach[e] \ {NULL} : ~ Client(t)

Sending(e) == \E t \in EC : call[e] = SendingTo(t)

\* Clients wait in sends, servers in receives, with a word to give.
WaitAsRole ==
    /\ \A e, t \in EC : call[e] = SendingTo(t) =>
          /\ Client(e) /\ ~ Client(t) /\ e \in created /\ t \in created
          /\ ipc_val[e] \in Values
    /\ \A e \in EC : call[e] = Receiving => ~ Client(e)

\* What a server's pending_sender, and those of the clients that wait, lead to.
Linked ==
    /\ \A t \in EC : ~ Client(t) /\ pending_sender[t] \notin {NULL, t} =>
          call[pending_sender[t]] = SendingTo(t)
    /\ \A e, t \in EC : call[e] = SendingTo(t) /\ pending_sender[e] # NULL =>
          call[pending_sender[e]] = SendingTo(t)

\* An EC whose pending_sender means something.
Live(e) == ~ Client(e) \/ Sending(e)

\* No two of them lead to the same EC.
OnePredecessor ==
    \A x, y \in EC : /\ Live(x) /\ Live(y)
                     /\ pending_sender[x] = pending_sender[y]
                     /\ pending_sender[x] # NULL
                     => x = y

\* The lists do not run in circles.
Ranked == \E rank \in [EC -> Nat] : \A e \in EC :
             Sending(e) /\ pending_sender[e] # NULL =>
                rank[pending_sender[e]] < rank[e]

\* The senders to t are on one list, which is empty if it seems so.
OneList ==
    /\ \A t, x, y \in EC :
          /\ call[x] = SendingTo(t) /\ pending_sender[x] = NULL
          /\ call[y] = SendingTo(t) /\ pending_sender[y] = NULL
          => x = y
    /\ \A t \in EC : pending_sender[t] \in {NULL, t} =>
          \A e \in EC : call[e] # SendingTo(t)

ListInv == /\ WaitAsRole /\ ReceiverMarked /\ Linked /\ OnePredecessor
           /\ Ranked /\ OneList

\* Only servers are boosted, and only as long as somebody waits for them.
BoostInv == /\ PriorityInheritance
            /\ BoostNeedsSender
            /\ \A e \in EC : Client(e) => saved_priority[e] = 0
            /\ \A e \in EC \ created : saved_priority[e] = 0

IInv == SInv /\ FlagsAgree /\ ListInv /\ BoostInv

-----------------------------------------------------------------------------

LEMMA CreateEffect ==
    ASSUME IInv, NEW e \in EC, CreateEC(e)
    PROVE  /\ FlagsAgree' /\ call' = call
           /\ \A x \in EC \ {e} : sched'.priority[x] = sched.priority[x]
           /\ created' \in {created, created \cup {e}}
           /\ sched.halted = "no" /\ e \notin created
  <1>1. /\ sched.halted = "no" /\ Spawn(e, BasePriority[e])
        /\ e \notin created
    BY DEF CreateEC, Spawn, May
  <1>2. BasePriority[e] \in Levels
    BY IpcAssumption
  <1> QED  BY <1>1, <1>2, SpawnEffect DEF IInv

-----------------------------------------------------------------------------
\* The sender lists, through every call.

\* No list leads to an EC that does not wait in a send.
LEMMA ListsLeadToSenders ==
    ASSUME IInv, NEW x \in EC, Live(x), NEW y \in EC, y # x, ~ Sending(y)
    PROVE  pending_sender[x] # y
  <1>1. SUFFICES ASSUME pending_sender[x] = y PROVE FALSE
    OBVIOUS
  <1>2. y # NULL
    BY QueueAssumption
  <1>3. CASE ~ Client(x)
    BY <1>1, <1>2, <1>3 DEF IInv, ListInv, Linked, Sending
  <1>4. CASE Sending(x)
    BY <1>1, <1>2, <1>4 DEF IInv, ListInv, Linked, Sending
  <1> QED  BY <1>3, <1>4 DEF Live

LEMMA SendersDistinct ==
    ASSUME IInv, NEW e \in EC, Sending(e)
    PROVE  Client(e) /\ call[e] \notin {Idle, Receiving} /\ pending_sender[e] # e
  BY WaysToWait DEF IInv, ListInv, WaitAsRole, ReceiverMarked, Sending

\* A server whose sender list has one element has one sender.
LEMMA LastOne ==
    ASSUME IInv, NEW c \in EC, ~ Client(c), call[c] = Idle,
           NEW s \in EC, pending_sender[c] = s, s # c,
           pending_sender[s] = NULL
    PROVE  \A x \in EC \ {s} : call[x] # SendingTo(c)
  <1> DEFINE S == {x \in EC \ {s} : call[x] = SendingTo(c)}
  <1>1. SUFFICES ASSUME S # {} PROVE FALSE
    OBVIOUS
  <1>2. call[s] = SendingTo(c) /\ s # NULL
    BY QueueAssumption DEF IInv, ListInv, Linked
  <1>3. ~ Sending(c)
    BY WaysToWait DEF Sending
  <1>4. ASSUME NEW x \in S
        PROVE  pending_sender[x] # NULL /\ pending_sender[x] \in S
    <2>1. pending_sender[x] # NULL
      BY <1>2 DEF IInv, ListInv, OneList
    <2>2. call[pending_sender[x]] = SendingTo(c)
      BY <2>1 DEF IInv, ListInv, Linked
    <2>3. x # c
      BY <1>3 DEF Sending
    <2>4. pending_sender[x] # s
      BY <1>2, <2>3 DEF IInv, ListInv, OnePredecessor, Live, Sending
    <2>5. pending_sender[x] \in EC
      BY <2>1 DEF IInv, SInv, FieldsOK
    <2> QED  BY <2>1, <2>2, <2>4, <2>5
  <1>5. PICK rank \in [EC -> Nat] : \A e \in EC :
             Sending(e) /\ pending_sender[e] # NULL =>
                rank[pending_sender[e]] < rank[e]
    BY DEF IInv, ListInv, Ranked
  <1> DEFINE R == {rank[x] : x \in S}
  <1>6. R \in SUBSET Nat /\ R # {}
    BY <1>1
  <1>7. ASSUME NEW x \in S PROVE Sending(x) /\ x \in EC
    BY DEF Sending
  <1> HIDE DEF S, R
  <1>8. FirstOf(R) \in R /\ \A j \in R : FirstOf(R) <= j
    BY <1>6, FirstOfExists
  <1>9. PICK x \in S : \A y \in S : rank[x] <= rank[y]
    BY <1>8 DEF R
  <1>10. rank[pending_sender[x]] < rank[x]
    BY <1>4, <1>5, <1>7
  <1>11. rank[x] \in Nat /\ rank[pending_sender[x]] \in Nat
    BY <1>4, <1>5, <1>7
  <1> QED  BY <1>4, <1>9, <1>10, <1>11

\* Calls that touch no list.
LEMMA ListUntouched ==
    ASSUME IInv, UNCHANGED <<pending_sender, call, ipc_val>>, created \subseteq created'
    PROVE  ListInv'
  <1>1. WaitAsRole' /\ ReceiverMarked'
    BY DEF IInv, ListInv, WaitAsRole, ReceiverMarked
  <1>2. Linked' /\ OnePredecessor'
    BY DEF IInv, ListInv, Linked, OnePredecessor, Live, Sending
  <1>3. Ranked' /\ OneList'
    BY DEF IInv, ListInv, Ranked, Sending, OneList
  <1> QED  BY <1>1, <1>2, <1>3 DEF ListInv

\* Nobody sends to a server that finds no sender.
LEMMA NoneSendsTo ==
    ASSUME IInv, NEW t \in EC, pending_sender[t] \in {NULL, t}
    PROVE  \A e \in EC : call[e] # SendingTo(t)
  BY DEF IInv, ListInv, OneList

LEMMA RecvBlocksLists ==
    ASSUME IInv, Roles, RecvBlocks
    PROVE  ListInv'
  <1> DEFINE c == current
  <1>1. /\ c \in EC /\ call[c] = Idle /\ ~ Client(c) /\ ~ Sending(c)
        /\ pending_sender[c] \in {NULL, c}
        /\ \A e \in EC : call[e] # SendingTo(c)
    BY CallerFree, NoneSendsTo, WaysToWait
       DEF IInv, RecvBlocks, Roles, May, Sending, Client
  <1>2. /\ call \in [EC -> Waits] /\ pending_sender \in [EC -> EC \cup {NULL}]
        /\ call' = [call EXCEPT ![c] = Receiving]
        /\ pending_sender' = [pending_sender EXCEPT ![c] = c]
        /\ ipc_val' = ipc_val /\ created' = created
    BY RecvBlocksEffect DEF RecvBlocks, IInv, SInv, FieldsOK
  <1> HIDE DEF c
  <1>3. \A e, t \in EC : call'[e] = SendingTo(t) <=> call[e] = SendingTo(t)
    BY <1>1, <1>2, WaysToWait
  <1>4. \A e \in EC : /\ Sending(e)' <=> Sending(e)
                      /\ Live(e)' <=> Live(e)
    BY <1>3 DEF Sending, Live, Client
  <1>5. \A e \in EC \ {c} : Live(e) => pending_sender[e] # c
    BY <1>1, ListsLeadToSenders
  <1>6. WaitAsRole'
    BY <1>1, <1>2, <1>3 DEF IInv, ListInv, WaitAsRole
  <1>7. ReceiverMarked'
    BY <1>1, <1>2 DEF IInv, ListInv, ReceiverMarked
  <1>8. Linked'
    BY <1>1, <1>2, <1>3 DEF IInv, ListInv, Linked
  <1>9. OnePredecessor'
    BY <1>2, <1>4, <1>5 DEF IInv, ListInv, OnePredecessor
  <1>10. Ranked'
    BY <1>1, <1>2, <1>4 DEF IInv, ListInv, Ranked
  <1>11. OneList'
    BY <1>1, <1>2, <1>3 DEF IInv, ListInv, OneList, Sending
  <1> QED  BY <1>6, <1>7, <1>8, <1>9, <1>10, <1>11 DEF ListInv

LEMMA FastSendLists ==
    ASSUME IInv, Roles, NEW t \in EC, NEW value \in Values, FastSend(t, value)
    PROVE  ListInv'
  <1>1. /\ pending_sender[t] = t /\ call[t] = Receiving /\ ~ Client(t)
        /\ ~ Sending(t) /\ t # NULL
        /\ \A e \in EC : call[e] # SendingTo(t)
    BY NoneSendsTo, WaysToWait, QueueAssumption
    DEF FastSend, IInv, ListInv, ReceiverMarked, WaitAsRole, Sending
  <1>2. /\ call \in [EC -> Waits] /\ pending_sender \in [EC -> EC \cup {NULL}]
        /\ call' = [call EXCEPT ![t] = Idle]
        /\ pending_sender' = [pending_sender EXCEPT ![t] = NULL]
        /\ ipc_val' = ipc_val /\ created' = created
    BY FastSendEffect, SyscallAssumption DEF FastSend, IInv, SInv, FieldsOK
  <1>3. \A e, u \in EC : call'[e] = SendingTo(u) <=> call[e] = SendingTo(u)
    BY <1>1, <1>2, WaysToWait
  <1>4. \A e \in EC : /\ Sending(e)' <=> Sending(e)
                      /\ Live(e)' <=> Live(e)
    BY <1>3 DEF Sending, Live, Client
  <1>5. WaitAsRole'
    BY <1>1, <1>2, <1>3, WaysToWait DEF IInv, ListInv, WaitAsRole
  <1>6. ReceiverMarked'
    BY <1>1, <1>2, WaysToWait DEF IInv, ListInv, ReceiverMarked
  <1>7. Linked'
    BY <1>1, <1>2, <1>3 DEF IInv, ListInv, Linked
  <1>8. OnePredecessor'
    BY <1>2, <1>4 DEF IInv, ListInv, OnePredecessor
  <1>9. Ranked'
    BY <1>1, <1>2, <1>4 DEF IInv, ListInv, Ranked
  <1>10. OneList'
    BY <1>1, <1>2, <1>3 DEF IInv, ListInv, OneList, Sending
  <1> QED  BY <1>5, <1>6, <1>7, <1>8, <1>9, <1>10 DEF ListInv

LEMMA RecvPendingLists ==
    ASSUME IInv, Roles, RecvPending
    PROVE  ListInv'
  <1> DEFINE c == current
             s == pending_sender[c]
  <1>1. /\ c \in EC /\ call[c] = Idle /\ ~ Client(c) /\ ~ Sending(c)
        /\ s \in EC /\ s # c
    BY CallerFree, RecvPendingEffect, WaysToWait
    DEF IInv, RecvPending, Roles, May, Sending, Client
  <1>2. /\ call \in [EC -> Waits] /\ pending_sender \in [EC -> EC \cup {NULL}]
        /\ call' = [call EXCEPT ![s] = Idle]
        /\ pending_sender' = [pending_sender EXCEPT ![c] = pending_sender[s]]
        /\ ipc_val' = ipc_val /\ created' = created
    BY RecvPendingEffect DEF RecvPending, IInv, SInv, FieldsOK
  <1>3. /\ call[s] = SendingTo(c) /\ Sending(s) /\ Client(s)
        /\ pending_sender[s] # s /\ s # NULL
    BY <1>1, SendersDistinct, QueueAssumption
    DEF IInv, ListInv, Linked, Sending
  <1>4. pending_sender[s] # c
    BY <1>1, <1>3, ListsLeadToSenders DEF Live
  <1>5. pending_sender[s] = NULL => \A x \in EC \ {s} : call[x] # SendingTo(c)
    BY <1>1, LastOne
  <1>6. \A x \in EC \ {c} : Live(x) => pending_sender[x] # s
    BY <1>1, <1>3 DEF IInv, ListInv, OnePredecessor, Live
  <1>7. pending_sender[c] = s
    OBVIOUS
  <1> HIDE DEF c, s
  <1>8. \A e, u \in EC : call'[e] = SendingTo(u) <=> e # s /\ call[e] = SendingTo(u)
    BY <1>1, <1>2, WaysToWait
  <1>9. \A e \in EC : /\ Sending(e)' => Sending(e) /\ e # s /\ e # c
                      /\ Live(e)' => Live(e) /\ e # s
    BY <1>1, <1>3, <1>8 DEF Sending, Live, Client
  <1>10. WaitAsRole'
    BY <1>1, <1>2, <1>8, WaysToWait DEF IInv, ListInv, WaitAsRole
  <1>11. ReceiverMarked'
    BY <1>1, <1>2, <1>3, <1>4, WaysToWait DEF IInv, ListInv, ReceiverMarked
  <1>12. Linked'
    <2>1. ASSUME NEW u \in EC, ~ Client(u), pending_sender'[u] \notin {NULL, u}
          PROVE  call'[pending_sender'[u]] = SendingTo(u)
      <3>1. CASE u = c
        <4>1. pending_sender'[c] = pending_sender[s] /\ pending_sender[s] # NULL
          BY <1>1, <1>2, <2>1, <3>1
        <4>2. call[pending_sender[s]] = SendingTo(c) /\ pending_sender[s] \in EC
          BY <1>1, <1>2, <1>3, <4>1 DEF IInv, ListInv, Linked
        <4> QED  BY <1>2, <1>3, <3>1, <4>1, <4>2
      <3>2. CASE u # c
        BY <1>2, <1>6, <2>1, <3>2 DEF IInv, ListInv, Linked, Live
      <3> QED  BY <3>1, <3>2
    <2>2. ASSUME NEW e \in EC, NEW u \in EC,
                 call'[e] = SendingTo(u), pending_sender'[e] # NULL
          PROVE  call'[pending_sender'[e]] = SendingTo(u)
      <3>1. call[e] = SendingTo(u) /\ e # c /\ e # s
        BY <1>8, <1>9, <2>2 DEF Sending
      <3>2. pending_sender'[e] = pending_sender[e] /\ pending_sender[e] # s
        BY <1>2, <1>6, <3>1 DEF Live, Sending
      <3>3. call[pending_sender[e]] = SendingTo(u)
        BY <2>2, <3>1, <3>2 DEF IInv, ListInv, Linked
      <3> QED  BY <1>2, <2>2, <3>2, <3>3
    <2> QED  BY <2>1, <2>2 DEF Linked, Client
  <1>13. OnePredecessor'
    <2>1. Live(s) /\ Live(c)
      BY <1>1, <1>3 DEF Live
    <2>2. \A x \in EC : pending_sender'[x] = pending_sender[IF x = c THEN s ELSE x]
      BY <1>1, <1>2
    <2>3. \A x, y \in EC : /\ Live(x) /\ Live(y)
                           /\ pending_sender[x] = pending_sender[y]
                           /\ pending_sender[x] # NULL
                           => x = y
      BY DEF IInv, ListInv, OnePredecessor
    <2>4. SUFFICES ASSUME NEW x \in EC, NEW y \in EC, Live(x)', Live(y)',
                          pending_sender'[x] = pending_sender'[y],
                          pending_sender'[x] # NULL
                   PROVE  x = y
      BY DEF OnePredecessor
    <2>5. Live(x) /\ Live(y) /\ x # s /\ y # s
      BY <1>9, <2>4
    <2> QED  BY <1>1, <1>3, <2>1, <2>2, <2>3, <2>4, <2>5
  <1>14. Ranked'
    BY <1>1, <1>2, <1>9 DEF IInv, ListInv, Ranked
  <1>15. OneList'
    <2>1. \A u, x, y \in EC :
              /\ call'[x] = SendingTo(u) /\ pending_sender'[x] = NULL
              /\ call'[y] = SendingTo(u) /\ pending_sender'[y] = NULL
              => x = y
      BY <1>2, <1>8, <1>9 DEF IInv, ListInv, OneList, Sending
    <2>2. ASSUME NEW u \in EC, pending_sender'[u] \in {NULL, u}, NEW e \in EC
          PROVE  call'[e] # SendingTo(u)
      <3>1. CASE u = c
        BY <1>1, <1>2, <1>4, <1>5, <1>8, <2>2, <3>1
      <3>2. CASE u # c
        BY <1>2, <1>8, <2>2, <3>2 DEF IInv, ListInv, OneList
      <3> QED  BY <3>1, <3>2
    <2> QED  BY <2>1, <2>2 DEF OneList
  <1> QED  BY <1>10, <1>11, <1>12, <1>13, <1>14, <1>15 DEF ListInv

\* Whom a client may send to.
LEMMA TargetIsServer ==
    ASSUME IInv, Roles, May("send"), NEW t \in EC, t \in Lookup
    PROVE  Client(current) /\ ~ Client(t) /\ t \in created /\ t # current
  <1>1. current \in EC /\ Client(current)
    BY CallerFree DEF IInv, May, Client
  <1>2. t # NULL /\ t \in created /\ t \in Reach[current]
    BY QueueAssumption DEF Lookup
  <1> QED  BY <1>1, <1>2 DEF Roles

LEMMA SlowSendLists ==
    ASSUME IInv, Roles, NEW t \in EC, t \in Lookup, NEW value \in Values,
           SlowSend(t, value)
    PROVE  ListInv'
  <1> DEFINE c == current
             head == pending_sender[t]
  <1>1. /\ c \in EC /\ c # NULL /\ call[c] = Idle /\ ~ Sending(c) /\ Client(c)
        /\ c \in created /\ t \in created /\ ~ Client(t) /\ t # c /\ ~ Sending(t)
        /\ head # t
    BY CallerFree, TargetIsServer, SendersDistinct, WaysToWait, QueueAssumption
    DEF IInv, SlowSend, Sending
  <1>2. /\ call \in [EC -> Waits] /\ pending_sender \in [EC -> EC \cup {NULL}]
        /\ ipc_val \in [EC -> Nat]
        /\ call' = [call EXCEPT ![c] = SendingTo(t)]
        /\ pending_sender' = [pending_sender EXCEPT ![c] = head, ![t] = c]
        /\ ipc_val' = [ipc_val EXCEPT ![c] = value] /\ created' = created
    BY SlowSendEffect, SyscallAssumption DEF SlowSend, IInv, SInv, FieldsOK
  <1>3. head # c /\ (head # NULL => call[head] = SendingTo(t) /\ head \in EC)
    <2>1. head # c
      BY <1>1, ListsLeadToSenders DEF Live
    <2> QED  BY <1>1, <1>2, <2>1 DEF IInv, ListInv, Linked
  <1>4. head = NULL => \A e \in EC : call[e] # SendingTo(t)
    BY NoneSendsTo
  <1>5. \A x \in EC \ {c} : Live(x) => pending_sender[x] # c
    BY <1>1, ListsLeadToSenders
  <1>6. \A x \in EC \ {t} : Live(x) /\ head # NULL => pending_sender[x] # head
    BY <1>1 DEF IInv, ListInv, OnePredecessor, Live
  <1>7. \A u \in EC : call[t] # SendingTo(u)
    BY <1>1 DEF Sending
  <1>8. \A e, u \in EC : call[e] = SendingTo(u) => ~ Client(u) /\ e # c /\ e # t
    BY <1>1, <1>7, WaysToWait DEF IInv, ListInv, WaitAsRole
  <1>9. pending_sender[t] = head
    OBVIOUS
  <1> HIDE DEF c, head
  <1>10. \A e, u \in EC : call'[e] = SendingTo(u) <=>
                             \/ e = c /\ u = t
                             \/ e # c /\ call[e] = SendingTo(u)
    BY <1>1, <1>2, WaysToWait
  <1>11. \A e \in EC : /\ Sending(e)' => Sending(e) \/ e = c
                       /\ Live(e)' => Live(e) \/ e = c
    BY <1>10 DEF Sending, Live, Client
  <1>12. \A e \in EC \ {c, t} : pending_sender'[e] = pending_sender[e]
    BY <1>2
  <1>13. pending_sender'[c] = head /\ pending_sender'[t] = c
    BY <1>1, <1>2
  <1>14. WaitAsRole'
    BY <1>1, <1>2, <1>10, WaysToWait DEF IInv, ListInv, WaitAsRole, Client
  <1>15. ReceiverMarked'
    <2>1. call[t] # Receiving
      BY <1>1, <1>9 DEF IInv, ListInv, ReceiverMarked
    <2> QED  BY <1>1, <1>2, <1>3, <1>12, <1>13, <2>1, WaysToWait
             DEF IInv, ListInv, ReceiverMarked
  <1>16. Linked'
    <2>1. ASSUME NEW u \in EC, ~ Client(u), pending_sender'[u] \notin {NULL, u}
          PROVE  call'[pending_sender'[u]] = SendingTo(u)
      <3>1. CASE u = t
        BY <1>1, <1>2, <1>13, <3>1
      <3>2. CASE u # t
        <4>1. pending_sender'[u] = pending_sender[u] /\ pending_sender[u] # c
          BY <1>1, <1>5, <1>12, <2>1, <3>2 DEF Live
        <4>2. call[pending_sender[u]] = SendingTo(u)
          BY <2>1, <4>1 DEF IInv, ListInv, Linked
        <4>3. pending_sender[u] \in EC
          BY <1>2, <2>1, <4>1
        <4> QED  BY <1>2, <4>1, <4>2, <4>3
      <3> QED  BY <3>1, <3>2
    <2>2. ASSUME NEW e \in EC, NEW u \in EC,
                 call'[e] = SendingTo(u), pending_sender'[e] # NULL
          PROVE  call'[pending_sender'[e]] = SendingTo(u)
      <3>1. CASE e = c
        BY <1>1, <1>2, <1>3, <1>10, <1>13, <2>2, <3>1
      <3>2. CASE e # c
        <4>1. call[e] = SendingTo(u) /\ e # t
          BY <1>8, <1>10, <2>2, <3>2
        <4>2. pending_sender'[e] = pending_sender[e] /\ pending_sender[e] # c
          BY <1>5, <1>12, <3>2, <4>1 DEF Live, Sending
        <4>3. call[pending_sender[e]] = SendingTo(u) /\ pending_sender[e] \in EC
          BY <1>2, <2>2, <4>1, <4>2 DEF IInv, ListInv, Linked
        <4> QED  BY <1>2, <4>2, <4>3
      <3> QED  BY <3>1, <3>2
    <2> QED  BY <2>1, <2>2 DEF Linked, Client
  <1>17. OnePredecessor'
    <2>1. SUFFICES ASSUME NEW x \in EC, NEW y \in EC, Live(x)', Live(y)',
                          pending_sender'[x] = pending_sender'[y],
                          pending_sender'[x] # NULL
                   PROVE  x = y
      BY DEF OnePredecessor
    <2>2. \A z \in EC \ {c, t} : Live(z)' =>
             /\ pending_sender'[z] = pending_sender[z]
             /\ pending_sender[z] # c
             /\ head # NULL => pending_sender[z] # head
             /\ Live(z)
      BY <1>5, <1>6, <1>11, <1>12
    <2>3. \A v, w \in EC : /\ Live(v) /\ Live(w)
                           /\ pending_sender[v] = pending_sender[w]
                           /\ pending_sender[v] # NULL
                           => v = w
      BY DEF IInv, ListInv, OnePredecessor
    <2> QED  BY <1>3, <1>13, <2>1, <2>2, <2>3
  <1>18. Ranked'
    <2>1. PICK rank \in [EC -> Nat] : \A e \in EC :
             Sending(e) /\ pending_sender[e] # NULL =>
                rank[pending_sender[e]] < rank[e]
      BY DEF IInv, ListInv, Ranked
    <2> DEFINE top == IF head = NULL THEN 0 ELSE rank[head] + 1
               ranks == [rank EXCEPT ![c] = top]
    <2>2. top \in Nat /\ (head # NULL => rank[head] < top)
      <3>1. head # NULL => rank[head] \in Nat
        BY <1>3, <2>1
      <3> QED  BY <3>1
    <2> HIDE DEF top
    <2>3. ranks \in [EC -> Nat]
      BY <2>1, <2>2
    <2>4. ASSUME NEW e \in EC, Sending(e)', pending_sender'[e] # NULL
          PROVE  ranks[pending_sender'[e]] < ranks[e]
      <3>1. CASE e = c
        BY <1>1, <1>3, <1>13, <2>1, <2>2, <2>4, <3>1
      <3>2. CASE e # c
        <4>1. Sending(e) /\ e # t
          BY <1>1, <1>11, <2>4, <3>2
        <4>2. pending_sender'[e] = pending_sender[e] /\ pending_sender[e] # c
              /\ pending_sender[e] \in EC
          BY <1>2, <1>5, <1>12, <2>4, <3>2, <4>1 DEF Live
        <4> QED  BY <2>1, <2>4, <3>2, <4>1, <4>2
      <3> QED  BY <3>1, <3>2
    <2> HIDE DEF ranks
    <2> QED  BY <2>3, <2>4 DEF Ranked
  <1>19. OneList'
    <2>1. ASSUME NEW u \in EC, NEW x \in EC, NEW y \in EC,
                 call'[x] = SendingTo(u), pending_sender'[x] = NULL,
                 call'[y] = SendingTo(u), pending_sender'[y] = NULL
          PROVE  x = y
      <3>1. \A z \in {x, y} : z = c \/ /\ call[z] = SendingTo(u) /\ z # t
                                       /\ pending_sender[z] = NULL
        BY <1>8, <1>10, <1>12, <2>1
      <3>2. x = c \/ y = c => u = t /\ head = NULL
        BY <1>8, <1>10, <1>13, <2>1
      <3> QED  BY <1>4, <2>1, <3>1, <3>2 DEF IInv, ListInv, OneList
    <2>2. ASSUME NEW u \in EC, pending_sender'[u] \in {NULL, u}, NEW e \in EC,
                 call'[e] = SendingTo(u)
          PROVE  FALSE
      <3>1. u # t
        BY <1>1, <1>13, <2>2
      <3>2. call[e] = SendingTo(u) /\ u # c
        BY <1>1, <1>8, <1>10, <2>2, <3>1
      <3>3. pending_sender[u] \in {NULL, u}
        BY <1>12, <2>2, <3>1, <3>2
      <3> QED  BY <3>2, <3>3, NoneSendsTo
    <2> QED  BY <2>1, <2>2 DEF OneList
  <1> QED  BY <1>14, <1>15, <1>16, <1>17, <1>18, <1>19 DEF ListInv

-----------------------------------------------------------------------------
\* Boosts and their ends, through every call.

LEMMA PrioritiesAreNumbers ==
    ASSUME IInv
    PROVE  \A e \in EC : sched.priority[e] \in Int
  BY QueueAssumption DEF IInv, SInv, Sound, SchedulerState, Levels

LEMMA SendersCreated ==
    ASSUME IInv, NEW e \in EC, NEW t \in EC, call[e] = SendingTo(t)
    PROVE  e \in created /\ t \in created /\ Client(e) /\ ~ Client(t)
  BY DEF IInv, ListInv, WaitAsRole

\* Calls that boost nobody and end no boost.
LEMMA BoostUntouched ==
    ASSUME IInv, UNCHANGED <<pending_sender, call, saved_priority>>,
           created \subseteq created', created' \in SUBSET EC,
           \A e \in created : sched'.priority[e] = sched.priority[e]
    PROVE  BoostInv'
  <1>1. PriorityInheritance'
    <2>1. ASSUME NEW e \in created', NEW t \in created', call'[e] = SendingTo(t)
          PROVE  sched'.priority[t] <= sched'.priority[e]
      BY <2>1, SendersCreated DEF IInv, BoostInv, PriorityInheritance
    <2> QED  BY <2>1 DEF PriorityInheritance
  <1>2. BoostNeedsSender'
    BY DEF IInv, BoostInv, BoostNeedsSender
  <1> QED  BY <1>1, <1>2 DEF IInv, BoostInv, Client

LEMMA FastSendBoosts ==
    ASSUME IInv, NEW t \in EC, NEW value \in Values, FastSend(t, value)
    PROVE  BoostInv'
  <1>1. /\ call' = [call EXCEPT ![t] = Idle] /\ call \in [EC -> Waits]
        /\ sched'.priority = sched.priority
        /\ pending_sender \in [EC -> EC \cup {NULL}] /\ created \in SUBSET EC
        /\ pending_sender[t] = t
        /\ pending_sender' = [pending_sender EXCEPT ![t] = NULL]
        /\ UNCHANGED <<saved_priority, created>>
    BY FastSendEffect, SyscallAssumption DEF FastSend, IInv, SInv, FieldsOK
  <1>2. t \in created => saved_priority[t] = 0
    BY <1>1 DEF IInv, BoostInv, BoostNeedsSender
  <1>3. PriorityInheritance'
    BY <1>1, WaysToWait DEF IInv, BoostInv, PriorityInheritance
  <1>4. BoostNeedsSender'
    BY <1>1, <1>2 DEF IInv, BoostInv, BoostNeedsSender
  <1> QED  BY <1>1, <1>3, <1>4 DEF IInv, BoostInv, Client

LEMMA SlowSendBoosts ==
    ASSUME IInv, Roles, NEW t \in EC, t \in Lookup, NEW value \in Values,
           SlowSend(t, value)
    PROVE  BoostInv'
  <1> DEFINE c == current
             prio == sched.priority
  <1>1. /\ c \in EC /\ c # NULL /\ Client(c) /\ ~ Client(t) /\ t # c
        /\ t \in created /\ c \in created /\ created \in SUBSET EC
    BY CallerFree, TargetIsServer, QueueAssumption DEF SlowSend, IInv, SInv
  <1>2. /\ call \in [EC -> Waits] /\ call' = [call EXCEPT ![c] = SendingTo(t)]
        /\ pending_sender \in [EC -> EC \cup {NULL}]
        /\ pending_sender' = [pending_sender EXCEPT ![c] = pending_sender[t],
                                                    ![t] = c]
        /\ saved_priority \in [EC -> Levels] /\ UNCHANGED created
        /\ \A e \in EC \ {t} : saved_priority'[e] = saved_priority[e]
    BY SlowSendEffect, SyscallAssumption DEF SlowSend, IInv, SInv, FieldsOK
  <1>3. /\ \A e \in EC : prio[e] \in Int
        /\ prio \in [EC -> Levels]
        /\ sched'.priority = IF Boosts(t) THEN [prio EXCEPT ![t] = prio[c]] ELSE prio
    BY SlowSendEffect, SyscallAssumption, PrioritiesAreNumbers
       DEF SlowSend, IInv, SInv, Sound, SchedulerState
  <1>4. Boosts(t) <=> prio[c] < prio[t]
    BY DEF Boosts
  <1> HIDE DEF c, prio
  <1>5. /\ \A e \in EC \ {t} : sched'.priority[e] = prio[e]
        /\ sched'.priority[t] <= prio[t] /\ sched'.priority[t] <= prio[c]
        /\ \A e \in EC : sched'.priority[e] \in Int
    BY <1>1, <1>3, <1>4
  <1>6. PriorityInheritance'
    <2>1. ASSUME NEW e \in created, NEW u \in created, call'[e] = SendingTo(u)
          PROVE  sched'.priority[u] <= sched'.priority[e]
      <3>1. CASE e = c
        BY <1>1, <1>2, <1>5, <2>1, <3>1, WaysToWait
      <3>2. CASE e # c
        <4>1. call[e] = SendingTo(u) /\ e # t /\ e \in EC /\ u \in EC
          BY <1>1, <1>2, <2>1, <3>2, SendersCreated
        <4>2. prio[u] <= prio[e]
          BY <4>1 DEF IInv, BoostInv, PriorityInheritance, prio
        <4>3. sched'.priority[u] <= prio[u]
          BY <1>3, <1>5, <4>1
        <4>4. sched'.priority[e] = prio[e]
          BY <1>5, <4>1
        <4> QED  BY <1>3, <1>5, <4>1, <4>2, <4>3, <4>4
      <3> QED  BY <3>1, <3>2
    <2> QED  BY <1>2, <2>1 DEF PriorityInheritance
  <1>7. saved_priority'[c] = 0
    BY <1>1, <1>2 DEF IInv, BoostInv
  <1>8. BoostNeedsSender'
    BY <1>1, <1>2, <1>7 DEF IInv, BoostInv, BoostNeedsSender
  <1> QED  BY <1>1, <1>2, <1>6, <1>8 DEF IInv, BoostInv, Client

\* The end of a boost, or of no boost, where nobody sends to the caller.
LEMMA UnboostedInherits ==
    ASSUME IInv, NEW c \in EC, UNCHANGED created,
           \A e, t \in EC : call'[e] = SendingTo(t) => call[e] = SendingTo(t)
                                                       /\ e # c /\ t # c,
           \A e \in EC \ {c} : sched'.priority[e] = sched.priority[e]
    PROVE  PriorityInheritance'
  <1>1. created \in SUBSET EC
    BY DEF IInv, SInv
  <1>2. ASSUME NEW e \in created, NEW t \in created, call'[e] = SendingTo(t)
        PROVE  sched'.priority[t] <= sched'.priority[e]
    BY <1>1, <1>2 DEF IInv, BoostInv, PriorityInheritance
  <1> QED  BY <1>2 DEF PriorityInheritance

LEMMA RecvBlocksBoosts ==
    ASSUME IInv, Roles, RecvBlocks
    PROVE  BoostInv'
  <1>1. /\ current \in EC /\ call[current] = Idle
        /\ \A e \in EC : call[e] # SendingTo(current)
        /\ created \in SUBSET EC
    BY CallerFree, NoneSendsTo DEF RecvBlocks, IInv, SInv
  <1>2. /\ call \in [EC -> Waits] /\ call' = [call EXCEPT ![current] = Receiving]
        /\ \A e \in EC \ {current} : sched'.priority[e] = sched.priority[e]
        /\ pending_sender \in [EC -> EC \cup {NULL}]
        /\ pending_sender' = [pending_sender EXCEPT ![current] = current]
        /\ saved_priority \in [EC -> Levels] /\ UNCHANGED created
        /\ saved_priority' = [saved_priority EXCEPT ![current] = 0]
    BY RecvBlocksEffect DEF RecvBlocks, IInv, SInv, FieldsOK
  <1>3. PriorityInheritance'
    BY <1>1, <1>2, UnboostedInherits, WaysToWait
  <1>4. BoostNeedsSender'
    BY <1>1, <1>2 DEF IInv, BoostInv, BoostNeedsSender
  <1> QED  BY <1>1, <1>2, <1>3, <1>4 DEF IInv, BoostInv, Client

LEMMA RecvPendingBoosts ==
    ASSUME IInv, Roles, RecvPending
    PROVE  BoostInv'
  <1> DEFINE c == current
             s == pending_sender[c]
  <1>1. /\ c \in EC /\ call[c] = Idle /\ ~ Client(c) /\ s \in EC /\ s # c
        /\ call[s] = SendingTo(c) /\ s # NULL /\ created \in SUBSET EC
    BY CallerFree, RecvPendingEffect, QueueAssumption
    DEF RecvPending, Roles, May, Client, IInv, SInv, ListInv, Linked
  <1>2. /\ call \in [EC -> Waits] /\ call' = [call EXCEPT ![s] = Idle]
        /\ \A e \in EC \ {c} : sched'.priority[e] = sched.priority[e]
        /\ pending_sender[s] # NULL => sched'.priority = sched.priority
        /\ pending_sender \in [EC -> EC \cup {NULL}]
        /\ pending_sender' = [pending_sender EXCEPT ![c] = pending_sender[s]]
        /\ saved_priority \in [EC -> Levels] /\ UNCHANGED created
        /\ saved_priority' = IF pending_sender[s] = NULL
                             THEN [saved_priority EXCEPT ![c] = 0]
                             ELSE saved_priority
    BY RecvPendingEffect DEF RecvPending, IInv, SInv, FieldsOK
  <1>3. pending_sender[s] = NULL => \A x \in EC \ {s} : call[x] # SendingTo(c)
    BY <1>1, LastOne
  <1>4. pending_sender[s] # c
    BY <1>1, ListsLeadToSenders, WaysToWait DEF Live, Sending
  <1> HIDE DEF c, s
  <1>5. PriorityInheritance'
    <2>1. CASE pending_sender[s] = NULL
      BY <1>1, <1>2, <1>3, <2>1, UnboostedInherits, WaysToWait
    <2>2. CASE pending_sender[s] # NULL
      BY <1>1, <1>2, <2>2, WaysToWait DEF IInv, BoostInv, PriorityInheritance
    <2> QED  BY <2>1, <2>2
  <1>6. BoostNeedsSender'
    BY <1>1, <1>2, <1>4 DEF IInv, BoostInv, BoostNeedsSender
  <1> QED  BY <1>1, <1>2, <1>5, <1>6 DEF IInv, BoostInv, Client

-----------------------------------------------------------------------------
\* The invariant.

\* The scheduler that knows the root EC only has it running, or is stopped.
LEMMA InitIInv == Init => IInv
  <1> SUFFICES ASSUME Init PROVE IInv
    OBVIOUS
  <1>1. SInv
    BY EcInitInv DEF Init
  <1>2. /\ call = [e \in EC |-> Idle] /\ pending_sender = [e \in EC |-> NULL]
        /\ saved_priority = [e \in EC |-> 0] /\ RootEc \in EC
    BY SyscallAssumption DEF Init, EcInit, FieldsInit
  <1>3. Asleep(sched) = {}
    <2>1. Asleep(EmptyScheduler) = {}
      BY DEF Asleep, EmptyScheduler
    <2>2. Sound(EmptyScheduler) /\ RootEc \notin Members(EmptyScheduler)
      BY EmptySound
    <2>3. EmptyScheduler.halted = "no"
      BY DEF EmptyScheduler
    <2> QED  BY <1>2, <2>1, <2>2, <2>3, ScheduledAsleep DEF Init, EcInit
  <1>4. FlagsAgree
    BY <1>2, <1>3 DEF FlagsAgree
  <1>5. \A e, t \in EC : call[e] # SendingTo(t) /\ ~ Sending(e)
    BY <1>2, WaysToWait DEF Sending
  <1>6. WaitAsRole /\ ReceiverMarked /\ Linked /\ OneList
    BY <1>2, <1>5, WaysToWait, QueueAssumption
    DEF WaitAsRole, ReceiverMarked, Linked, OneList
  <1>7. OnePredecessor
    BY <1>2 DEF OnePredecessor
  <1>8. Ranked
    <2>1. [e \in EC |-> 0] \in [EC -> Nat]
      OBVIOUS
    <2> QED  BY <1>5, <2>1 DEF Ranked
  <1>9. BoostInv
    <2>1. created \in SUBSET EC
      BY <1>1 DEF SInv
    <2>2. PriorityInheritance /\ BoostNeedsSender
      BY <1>2, <1>5, <2>1 DEF PriorityInheritance, BoostNeedsSender
    <2> QED  BY <1>2, <2>2 DEF BoostInv
  <1> QED  BY <1>1, <1>4, <1>6, <1>7, <1>8, <1>9 DEF IInv, ListInv

LEMMA YieldIInv == ASSUME IInv, SysYield PROVE IInv'
  <1>1. SInv'
    BY YieldInv DEF IInv
  <1>2. /\ FlagsAgree' /\ call' = call /\ sched'.priority = sched.priority
        /\ UNCHANGED <<ipcVars, created>>
    BY YieldEffect DEF IInv, SysYield
  <1>3. ListInv' /\ BoostInv'
    BY <1>2, ListUntouched, BoostUntouched DEF ipcVars, IInv, SInv
  <1> QED  BY <1>1, <1>2, <1>3 DEF IInv

LEMMA SendIInv ==
    ASSUME IInv, Roles, NEW t \in Lookup, NEW value \in Values, IpcSend(t, value)
    PROVE  IInv'
  <1>1. t \in EC \cup {NULL}
    <2>1. current \in EC
      BY DEF IInv, SInv
    <2> QED  BY <2>1, IpcAssumption DEF Lookup
  <1>2. SInv'
    BY <1>1, SendInv, SyscallAssumption DEF IInv
  <1>3. CASE SendNowhere
    <2>1. UNCHANGED <<sched, call, pending_sender, saved_priority, ipc_val, created>>
      BY <1>3 DEF SendNowhere, ipcVars
    <2>2. ListInv' /\ BoostInv'
      BY <2>1, ListUntouched, BoostUntouched DEF IInv, SInv
    <2>3. FlagsAgree'
      BY <2>1 DEF IInv, FlagsAgree
    <2> QED  BY <1>2, <2>2, <2>3 DEF IInv
  <1>4. CASE t \in EC /\ FastSend(t, value)
    BY <1>2, <1>4, FastSendEffect, SyscallAssumption, FastSendLists, FastSendBoosts
       DEF IInv
  <1>5. CASE t \in EC /\ SlowSend(t, value)
    BY <1>2, <1>5, SlowSendEffect, SyscallAssumption, SlowSendLists, SlowSendBoosts
       DEF IInv
  <1> QED  BY <1>1, <1>3, <1>4, <1>5 DEF IpcSend

LEMMA RecvIInv == ASSUME IInv, Roles, IpcRecv PROVE IInv'
  <1>1. SInv'
    BY RecvInv DEF IInv
  <1>2. CASE RecvPending
    BY <1>1, <1>2, RecvPendingEffect, RecvPendingLists, RecvPendingBoosts DEF IInv
  <1>3. CASE RecvBlocks
    BY <1>1, <1>3, RecvBlocksEffect, RecvBlocksLists, RecvBlocksBoosts DEF IInv
  <1> QED  BY <1>2, <1>3 DEF IpcRecv

LEMMA CreateIInv == ASSUME IInv, NEW e \in EC, CreateEC(e) PROVE IInv'
  <1>1. /\ FlagsAgree' /\ call' = call /\ sched.halted = "no"
        /\ \A x \in created : sched'.priority[x] = sched.priority[x]
        /\ created \subseteq created' /\ created' \in SUBSET EC
    BY CreateEffect DEF IInv, SInv
  <1>2. UNCHANGED ipcVars
    BY DEF CreateEC
  <1>3. SInv'
    <2>1. eax' \in [EC -> Int]
      BY ResultOK DEF CreateEC, IInv
    <2>2. BasePriority[e] \in Levels
      BY IpcAssumption
    <2> QED  BY <1>1, <1>2, <2>1, <2>2, SpawnInv DEF CreateEC, IInv
  <1>4. ListInv' /\ BoostInv'
    BY <1>1, <1>2, ListUntouched, BoostUntouched DEF ipcVars
  <1> QED  BY <1>1, <1>3, <1>4 DEF IInv

LEMMA NextIInv == Roles /\ IInv /\ [Next]_ecVars => IInv'
  <1> SUFFICES ASSUME Roles, IInv, [Next]_ecVars PROVE IInv'
    OBVIOUS
  <1>1. CASE SysYield
    BY <1>1, YieldIInv
  <1>2. CASE \E t \in Lookup, v \in Values : IpcSend(t, v)
    BY <1>2, SendIInv
  <1>3. CASE IpcRecv
    BY <1>3, RecvIInv
  <1>4. CASE \E e \in EC : CreateEC(e)
    BY <1>4, CreateIInv
  <1>5. CASE UNCHANGED ecVars
    <2>1. UNCHANGED <<sched, current, pending_sender, saved_priority, ipc_val,
                      eax, created, call, base>>
      BY <1>5 DEF ecVars, ipcVars
    <2>2. ListInv' /\ BoostInv'
      BY <2>1, ListUntouched, BoostUntouched DEF IInv, SInv
    <2>3. SInv' /\ FlagsAgree'
      BY <2>1 DEF IInv, FlagsAgree, SInv, FieldsOK, CurrentsAgree, StopsOnlyIdle
    <2> QED  BY <2>2, <2>3 DEF IInv
  <1> QED  BY <1>1, <1>2, <1>3, <1>4, <1>5 DEF Next

LEMMA Inductive == ASSUME Roles PROVE Spec => []IInv
  <1>1. Init => IInv
    BY InitIInv
  <1>2. IInv /\ [Next]_ecVars => IInv'
    BY NextIInv
  <1> QED  BY <1>1, <1>2, PTL DEF Spec

-----------------------------------------------------------------------------
\* The theorems, for programs that keep to roles.

\* pending_sender leads an EC to itself exactly while it waits for a message:
\* no sender takes the fast path to an EC that does not (syscall.cc:201, 260).
THEOREM MarksAreExact == ASSUME Roles PROVE Spec => []ReceiverMarked
  <1>1. IInv => ReceiverMarked
    BY DEF IInv, ListInv
  <1> QED  BY <1>1, Inductive, PTL

\* No wake-up is lost and none comes early, through every rotation of the
\* queues and every boost (syscall.cc:206, 225, 251, 261).
THEOREM NoLostWakeup == ASSUME Roles PROVE Spec => []WaitsWhileBlocked
  <1>1. IInv => WaitsWhileBlocked
    <2> SUFFICES ASSUME IInv, NEW p \in Levels,
                        NEW i \in 1 .. Len(sched.queues[p])
                 PROVE  sched.queues[p][i].blocked <=>
                           call[sched.queues[p][i].ec] # Idle
      BY DEF WaitsWhileBlocked
    <2>1. Sound(sched)
      BY DEF IInv, SInv
    <2>2. sched.queues[p][i].ec \in EC
      BY <2>1, QueueEntries
    <2>3. sched.queues[p][i].ec \in Asleep(sched) <=> sched.queues[p][i].blocked
      BY <2>1, EntryAsleep
    <2> QED  BY <2>2, <2>3 DEF IInv, FlagsAgree
  <1> QED  BY <1>1, Inductive, PTL

\* An EC never runs at a lower priority than one that waits for it, whoever
\* joins and leaves its sender list (syscall.cc:216-220, 244-249).
THEOREM NoInversion == ASSUME Roles PROVE Spec => []PriorityInheritance
  <1>1. IInv => PriorityInheritance
    BY DEF IInv, BoostInv
  <1> QED  BY <1>1, Inductive, PTL

\* A boost is given back when the last sender is taken (syscall.cc:244, 256).
THEOREM BoostsEnd == ASSUME Roles PROVE Spec => []BoostNeedsSender
  <1>1. IInv => BoostNeedsSender
    BY DEF IInv, BoostInv
  <1> QED  BY <1>1, Inductive, PTL

-----------------------------------------------------------------------------
\* The sender lists as a receiver walks them.

\* L is the chain of pending_sender pointers from t, as far as n.
Chain(L, t, n) ==
    /\ L[0] = t
    /\ \A i \in 1 .. n :
          L[i] = IF L[i - 1] = NULL THEN NULL ELSE pending_sender[L[i - 1]]

\* Link() is that chain: the function it defines by recursion exists.
LEMMA LinkIsChain ==
    ASSUME IInv, NEW t \in EC, Cardinality(EC) \in Nat
    PROVE  Chain(Link(t), t, Cardinality(EC))
  <1>0. PICK link \in [EC -> EC \cup {NULL}] : link = pending_sender
    BY DEF IInv, SInv, FieldsOK
  <1> DEFINE n == Cardinality(EC)
             next(x) == IF x = NULL THEN NULL ELSE link[x]
             S == EC \cup {NULL}
             G == [i \in 1 .. n |-> [x \in S |-> next(x)]]
             Steps(f) == f = [i \in 0 .. n |-> IF i = 0 THEN t
                                 ELSE IF f[i - 1] = NULL THEN NULL
                                 ELSE link[f[i - 1]]]
             F == CHOOSE f : Steps(f)
  <1>1. n \in Nat /\ t \in S
    OBVIOUS
  <1>2. \A x \in S : next(x) \in S
    OBVIOUS
  <1>3. Link(t) = F
    BY <1>0 DEF Link
  <1> HIDE DEF n, F
  <1>4. KeptIn(G, 1, n, S)
    BY <1>2 DEF KeptIn
  <1>5. PICK f \in [0 .. n -> S] :
           f[0] = t /\ \A i \in 1 .. n : f[i] = G[i][f[i - 1]]
    <2> HIDE DEF S, G
    <2> QED  BY <1>1, <1>4, LoopRuns
  <1>6. ASSUME NEW i \in 1 .. n PROVE f[i] = next(f[i - 1])
    <2>1. f[i - 1] \in S
      BY <1>1
    <2>2. G[i] = [x \in S |-> next(x)]
      OBVIOUS
    <2> HIDE DEF S, next
    <2>3. G[i][f[i - 1]] = next(f[i - 1])
      BY <2>1, <2>2
    <2> HIDE DEF G
    <2> QED  BY <1>5, <2>3
  <1>7. Steps(f)
    <2>1. \A i \in 0 .. n : i # 0 => i \in 1 .. n
      BY <1>1
    <2>2. \A i \in 0 .. n : f[i] = IF i = 0 THEN t ELSE next(f[i - 1])
      BY <1>5, <1>6, <2>1
    <2> HIDE DEF S
    <2> QED  BY <2>2
  <1>8. Steps(F)
    <2> HIDE DEF Steps
    <2> QED  BY <1>7 DEF F
  <1>9. F[0] = t
    <2>1. 0 \in 0 .. n
      BY <1>1
    <2> QED  BY <1>8, <2>1
  <1>10. ASSUME NEW i \in 1 .. n PROVE F[i] = next(F[i - 1])
    <2>1. i \in 0 .. n /\ i # 0
      BY <1>1
    <2> QED  BY <1>8, <2>1
  <1> QED  BY <1>0, <1>3, <1>9, <1>10 DEF Chain, n

\* On the chain from a server, whatever comes behind it sends to it.
LEMMA ChainOfSenders ==
    ASSUME IInv, NEW t \in EC, ~ Client(t), pending_sender[t] # t,
           NEW n \in Nat, NEW L, Chain(L, t, n)
    PROVE  \A i \in 1 .. n : \/ L[i] = NULL
                             \/ L[i] \in EC /\ call[L[i]] = SendingTo(t)
  <1> DEFINE On(x) == x = NULL \/ (x \in EC /\ call[x] = SendingTo(t))
             T == {i \in 1 .. n : On(L[i])}
  <1>1. \A x \in EC : pending_sender[x] \in EC \cup {NULL}
    BY DEF IInv, SInv, FieldsOK
  <1>2. 1 <= n => 1 \in T
    <2> SUFFICES ASSUME 1 <= n PROVE On(L[1])
      OBVIOUS
    <2>1. 1 \in 1 .. n /\ 1 - 1 = 0
      OBVIOUS
    <2>2. L[1] = pending_sender[t]
      BY <2>1, QueueAssumption DEF Chain
    <2> QED  BY <1>1, <2>2 DEF IInv, ListInv, Linked
  <1>3. ASSUME NEW i \in 1 .. n, i # 1, i - 1 \in T
        PROVE  i \in T
    <2>1. L[i] = IF L[i - 1] = NULL THEN NULL ELSE pending_sender[L[i - 1]]
      BY DEF Chain
    <2>2. CASE L[i - 1] = NULL
      BY <2>1, <2>2
    <2>3. CASE L[i - 1] # NULL
      <3>1. L[i - 1] \in EC /\ call[L[i - 1]] = SendingTo(t)
        BY <1>3, <2>3
      <3> QED  BY <1>1, <2>1, <2>3, <3>1 DEF IInv, ListInv, Linked
    <2> QED  BY <2>2, <2>3
  <1>4. 1 .. n \subseteq T
    <2> HIDE DEF T
    <2> QED  BY <1>2, <1>3, IndicesInduction
  <1> QED  BY <1>4

\* Ranks fall along the chain.
LEMMA ChainFalls ==
    ASSUME IInv, NEW t \in EC, ~ Client(t), pending_sender[t] # t,
           NEW n \in Nat, NEW L, Chain(L, t, n),
           NEW rank \in [EC -> Nat],
           \A e \in EC : Sending(e) /\ pending_sender[e] # NULL =>
               rank[pending_sender[e]] < rank[e],
           NEW i \in 1 .. n, L[i] # NULL
    PROVE  \A j \in i .. n : L[j] = NULL \/ j = i \/ rank[L[j]] < rank[L[i]]
  <1> DEFINE T == {j \in i .. n : L[j] = NULL \/ j = i \/ rank[L[j]] < rank[L[i]]}
  <1>1. i \in Nat /\ i \in T
    OBVIOUS
  <1>2. ASSUME NEW j \in i .. n, j # i, j - 1 \in T
        PROVE  j \in T
    <2>1. j \in 1 .. n /\ j - 1 \in 1 .. n
      BY <1>2
    <2>2. L[j] = IF L[j - 1] = NULL THEN NULL ELSE pending_sender[L[j - 1]]
      BY <2>1 DEF Chain
    <2>3. CASE L[j] # NULL
      <3>1. L[j - 1] # NULL /\ L[j] = pending_sender[L[j - 1]]
        BY <2>2, <2>3
      <3>2. L[j - 1] \in EC /\ call[L[j - 1]] = SendingTo(t)
        BY <2>1, <3>1, ChainOfSenders
      <3>3. L[j] \in EC /\ L[i] \in EC
        BY <2>1, <2>3, ChainOfSenders
      <3>4. rank[L[j]] < rank[L[j - 1]]
        BY <2>3, <3>1, <3>2 DEF Sending
      <3>5. j - 1 = i \/ rank[L[j - 1]] < rank[L[i]]
        BY <1>2, <3>1
      <3>6. rank[L[j]] \in Nat /\ rank[L[j - 1]] \in Nat /\ rank[L[i]] \in Nat
        BY <3>2, <3>3
      <3> QED  BY <3>4, <3>5, <3>6
    <2> QED  BY <2>3
  <1>3. i .. n \subseteq T
    <2> HIDE DEF T
    <2> QED  BY <1>1, <1>2, IndicesInduction
  <1> QED  BY <1>3

\* What follows the end of the chain is its end.
LEMMA ChainEnds ==
    ASSUME NEW n \in Nat, NEW L, NEW t, Chain(L, t, n),
           NEW i \in 0 .. n, L[i] = NULL
    PROVE  L[n] = NULL
  <1> DEFINE T == {j \in i .. n : L[j] = NULL}
  <1>1. ASSUME NEW j \in i .. n, j # i, j - 1 \in T
        PROVE  j \in T
    <2>1. j \in 1 .. n
      BY <1>1
    <2> QED  BY <1>1, <2>1 DEF Chain
  <1>2. i .. n \subseteq T
    <2>1. i \in Nat /\ i \in T
      OBVIOUS
    <2> HIDE DEF T
    <2> QED  BY <1>1, <2>1, IndicesInduction
  <1>3. n \in i .. n
    OBVIOUS
  <1> QED  BY <1>2, <1>3

\* There are not enough ECs for the chain to be longer than they are many.
LEMMA ChainIsShort ==
    ASSUME IInv, IsFiniteSet(EC), NEW t \in EC, ~ Client(t), pending_sender[t] # t,
           NEW L, Chain(L, t, Cardinality(EC))
    PROVE  L[Cardinality(EC)] = NULL
  <1> DEFINE n == Cardinality(EC)
  <1>1. SUFFICES ASSUME L[n] # NULL PROVE FALSE
    OBVIOUS
  <1>2. n \in Nat
    BY FS_CardinalityType
  <1>3. PICK rank \in [EC -> Nat] : \A e \in EC :
             Sending(e) /\ pending_sender[e] # NULL =>
                rank[pending_sender[e]] < rank[e]
    BY DEF IInv, ListInv, Ranked
  <1> HIDE DEF n
  <1>4. \A i \in 0 .. n : L[i] # NULL
    BY <1>1, <1>2, ChainEnds DEF n
  <1>5. L[0] = t
    BY DEF Chain
  <1>6. \A i \in 1 .. n : L[i] \in EC /\ call[L[i]] = SendingTo(t)
    <2>1. \A i \in 1 .. n : i \in 0 .. n
      BY <1>2
    <2> QED  BY <1>2, <1>4, <2>1, ChainOfSenders DEF n
  <1>7. ASSUME NEW i \in 0 .. n, NEW j \in 0 .. n, i < j
        PROVE  L[i] # L[j]
    <2>1. j \in 1 .. n
      BY <1>2, <1>7
    <2>2. CASE i = 0
      <3>1. Client(L[j])
        BY <1>6, <2>1 DEF IInv, ListInv, WaitAsRole
      <3> QED  BY <1>5, <2>2, <3>1
    <2>3. CASE i # 0
      <3>1. i \in 1 .. n /\ j \in i .. n /\ j # i
        BY <1>2, <1>7, <2>3
      <3>2. rank[L[j]] < rank[L[i]]
        BY <1>2, <1>3, <1>4, <3>1, ChainFalls DEF n
      <3>3. rank[L[i]] \in Nat
        BY <1>6, <3>1
      <3> QED  BY <3>2, <3>3
    <2> QED  BY <2>2, <2>3
  <1> DEFINE f == [i \in 0 .. n |-> L[i]]
  <1>8. f \in [0 .. n -> EC]
    <2>1. \A i \in 0 .. n : i = 0 \/ i \in 1 .. n
      BY <1>2
    <2> QED  BY <1>5, <1>6, <2>1
  <1>9. IsFiniteSet(0 .. n) /\ Cardinality(0 .. n) = n + 1
    <2>1. IsFiniteSet(0 .. n) /\ Cardinality(0 .. n) = IF 0 > n THEN 0 ELSE n - 0 + 1
      BY <1>2, FS_Interval
    <2> QED  BY <1>2, <2>1
  <1>10. \A i, j \in 0 .. n : i # j => f[i] # f[j]
    <2>1. \A i, j \in 0 .. n : i # j => i < j \/ j < i
      BY <1>2
    <2> QED  BY <1>7, <2>1
  <1> HIDE DEF f
  <1>11. Cardinality(EC) < Cardinality(0 .. n)
    BY <1>2, <1>9 DEF n
  <1>12. \E i, j \in 0 .. n : i # j /\ f[i] = f[j]
    BY <1>8, <1>9, <1>11, FS_PigeonHole
  <1> QED  BY <1>10, <1>12

\* The last element of a chain that ends.
LEMMA ChainLast ==
    ASSUME NEW n \in Nat, NEW L, NEW t, t # NULL, Chain(L, t, n), L[n] = NULL
    PROVE  \E k \in 1 .. n : L[k] = NULL /\ L[k - 1] # NULL
  <1> DEFINE ends == {i \in 0 .. n : L[i] = NULL}
  <1>1. n \in ends /\ ends \in SUBSET Nat
    OBVIOUS
  <1>2. PICK k \in ends : \A j \in ends : k <= j
    <2> HIDE DEF ends
    <2> QED  BY <1>1, LeastIndex
  <1>3. k \in 0 .. n /\ L[k] = NULL /\ k # 0
    BY DEF Chain
  <1>4. k - 1 \in 0 .. n /\ ~ k <= k - 1
    BY <1>3
  <1>5. L[k - 1] # NULL
    BY <1>2, <1>4
  <1> QED  BY <1>3, <1>5

\* Whoever sends to a server is on its chain.
LEMMA SendersOnChain ==
    ASSUME IInv, NEW t \in EC, ~ Client(t), pending_sender[t] # t,
           NEW n \in Nat, NEW L, Chain(L, t, n), L[n] = NULL,
           NEW x \in EC, call[x] = SendingTo(t)
    PROVE  \E i \in 1 .. n : L[i] = x
  <1> DEFINE on == {L[i] : i \in 1 .. n}
             off == {y \in EC : call[y] = SendingTo(t) /\ y \notin on}
  <1>1. SUFFICES ASSUME off # {} PROVE FALSE
    OBVIOUS
  <1>2. PICK rank \in [EC -> Nat] : \A e \in EC :
             Sending(e) /\ pending_sender[e] # NULL =>
                rank[pending_sender[e]] < rank[e]
    BY DEF IInv, ListInv, Ranked
  <1>3. PICK y \in off : \A z \in off : rank[y] <= rank[z]
    <2> DEFINE R == {rank[z] : z \in off}
    <2>1. R \in SUBSET Nat /\ R # {}
      BY <1>1
    <2> HIDE DEF R
    <2>2. PICK r \in R : \A j \in R : r <= j
      BY <2>1, LeastIndex
    <2> QED  BY <2>2 DEF R
  <1>4. /\ y \in EC /\ call[y] = SendingTo(t) /\ y \notin on
        /\ Sending(y) /\ Client(y) /\ Live(y)
    BY DEF Sending, Live, IInv, ListInv, WaitAsRole
  <1> HIDE DEF off
  <1>5. \A i \in 0 .. n : L[i] # NULL => L[i] \in EC /\ Live(L[i])
    <2>1. L[0] = t /\ Live(t)
      BY DEF Chain, Live
    <2>2. \A i \in 1 .. n : L[i] # NULL => L[i] \in EC /\ call[L[i]] = SendingTo(t)
      BY ChainOfSenders
    <2>3. \A i \in 0 .. n : i = 0 \/ i \in 1 .. n
      OBVIOUS
    <2> QED  BY <2>1, <2>2, <2>3 DEF Live, Sending
  \* Were it the first of its list, the server's chain would end with it.
  <1>6. CASE pending_sender[y] = NULL
    <2>1. t # NULL
      BY QueueAssumption
    <2>2. PICK k \in 1 .. n : L[k] = NULL /\ L[k - 1] # NULL
      BY <2>1, ChainLast
    <2>3. k - 1 \in 0 .. n /\ pending_sender[L[k - 1]] = NULL
      BY <2>2 DEF Chain
    <2>4. CASE k - 1 = 0
      <3>1. pending_sender[t] = NULL
        BY <2>3, <2>4 DEF Chain
      <3> QED  BY <1>4, <3>1 DEF IInv, ListInv, OneList
    <2>5. CASE k - 1 # 0
      <3>1. k - 1 \in 1 .. n
        BY <2>5
      <3>2. L[k - 1] \in EC /\ call[L[k - 1]] = SendingTo(t)
        BY <2>2, <3>1, ChainOfSenders
      <3>3. y = L[k - 1]
        BY <1>4, <1>6, <2>3, <3>2 DEF IInv, ListInv, OneList
      <3> QED  BY <1>4, <3>1, <3>3
    <2> QED  BY <2>4, <2>5
  \* Otherwise its successor is on the chain, behind it alone.
  <1>7. CASE pending_sender[y] # NULL
    <2> DEFINE z == pending_sender[y]
    <2>1. z \in EC /\ call[z] = SendingTo(t)
      <3>1. z \in EC
        BY <1>4, <1>7 DEF IInv, SInv, FieldsOK
      <3> QED  BY <1>4, <1>7, <3>1 DEF IInv, ListInv, Linked
    <2>2. rank[z] < rank[y] /\ rank[z] \in Nat /\ rank[y] \in Nat
      BY <1>2, <1>4, <1>7, <2>1
    <2>3. z \in on
      <3>1. z \notin off
        BY <1>3, <2>2
      <3> QED  BY <2>1, <3>1 DEF off
    <2>4. PICK i \in 1 .. n : L[i] = z
      BY <2>3
    <2>5. i - 1 \in 0 .. n /\ L[i - 1] # NULL /\ pending_sender[L[i - 1]] = z
      BY <1>7, <2>4 DEF Chain
    <2>6. L[i - 1] = y
      <3>1. L[i - 1] \in EC /\ Live(L[i - 1])
        BY <1>5, <2>5
      <3> QED  BY <1>4, <1>7, <2>5, <3>1 DEF IInv, ListInv, OnePredecessor
    <2>7. CASE i - 1 = 0
      BY <1>4, <2>6, <2>7 DEF Chain
    <2>8. CASE i - 1 # 0
      <3>1. i - 1 \in 1 .. n
        BY <2>8
      <3> QED  BY <1>4, <2>6, <3>1
    <2> QED  BY <2>7, <2>8
  <1> QED  BY <1>6, <1>7

\* The list a server will receive from has every EC that waits in a send to it
\* and no other, and ends: no sender is lost behind another, none is taken
\* twice, and no walk of the list runs in a circle (syscall.cc:222-224,
\* 239-240), however many send and however often the list empties.
THEOREM SenderListsExact ==
    ASSUME Roles, IsFiniteSet(EC)
    PROVE  Spec => []SenderListExact
  <1>1. ASSUME IInv PROVE SenderListExact
    <2> SUFFICES ASSUME NEW t \in created, "recv" \in Program[t]
                 PROVE  /\ Senders(t) = {e \in EC : call[e] = SendingTo(t)}
                        /\ pending_sender[t] # t => Link(t)[Cardinality(EC)] = NULL
      BY DEF SenderListExact
    <2>1. t \in EC /\ ~ Client(t)
      BY <1>1 DEF IInv, SInv, Roles
    <2>2. CASE pending_sender[t] = t
      <3>1. Senders(t) = {}
        BY <2>2 DEF Senders
      <3>2. \A e \in EC : call[e] # SendingTo(t)
        BY <1>1, <2>1, <2>2 DEF IInv, ListInv, OneList
      <3> QED  BY <2>2, <3>1, <3>2
    <2>3. CASE pending_sender[t] # t
      <3> DEFINE n == Cardinality(EC)
                 L == Link(t)
      <3>1. n \in Nat
        BY FS_CardinalityType
      <3>2. Chain(L, t, n)
        BY <1>1, <2>1, <3>1, LinkIsChain
      <3>3. L[n] = NULL
        BY <1>1, <2>1, <2>3, <3>2, ChainIsShort
      <3>4. Senders(t) = {L[i] : i \in 1 .. n} \ {NULL}
        BY <2>3 DEF Senders
      <3> HIDE DEF L, n
      <3>5. \A i \in 1 .. n : \/ L[i] = NULL
                              \/ L[i] \in EC /\ call[L[i]] = SendingTo(t)
        BY <1>1, <2>1, <2>3, <3>1, <3>2, ChainOfSenders
      <3>6. \A x \in EC : call[x] = SendingTo(t) => \E i \in 1 .. n : L[i] = x
        BY <1>1, <2>1, <2>3, <3>1, <3>2, <3>3, SendersOnChain
      <3>7. NULL \notin EC
        BY QueueAssumption
      <3>8. Senders(t) = {e \in EC : call[e] = SendingTo(t)}
        BY <3>4, <3>5, <3>6, <3>7
      <3> QED  BY <3>3, <3>8 DEF L, n
    <2> QED  BY <2>2, <2>3
  <1> QED  BY <1>1, Inductive, PTL

-----------------------------------------------------------------------------
\* Freedom from deadlock.

\* A queue that lacks one of finitely many ECs is shorter than they are many.
LEMMA QueueFits ==
    ASSUME NEW s, Sound(s), IsFiniteSet(EC), NEW e \in EC, e \notin Members(s),
           NEW p \in Levels
    PROVE  Len(s.queues[p]) < Cardinality(EC)
  <1> DEFINE n == Len(s.queues[p])
             others == EC \ {e}
             ecOf == [i \in 1 .. n |-> s.queues[p][i].ec]
  <1>1. n \in Nat /\ \A i \in 1 .. n : s.queues[p][i].ec \in others
    BY QueueEntries DEF Members
  <1>2. \A i, j \in 1 .. n : s.queues[p][i].ec = s.queues[p][j].ec => i = j
    BY DEF Sound, OnePlace
  <1> HIDE DEF n
  <1>3. ecOf \in Injection(1 .. n, others)
    BY <1>1, <1>2 DEF Injection, IsInjective
  <1>4. IsFiniteSet(others) /\ Cardinality(others) = Cardinality(EC) - 1
    BY FS_RemoveElement
  <1> HIDE DEF others, ecOf
  <1>5. Cardinality(1 .. n) <= Cardinality(others) /\ Cardinality(1 .. n) = n
    <2>1. Cardinality(1 .. n) <= Cardinality(others)
      BY <1>3, <1>4, FS_Injection
    <2>2. Cardinality(1 .. n) = IF 1 > n THEN 0 ELSE n - 1 + 1
      BY <1>1, FS_Interval
    <2> QED  BY <1>1, <2>1, <2>2
  <1>6. Cardinality(EC) \in Nat
    BY FS_CardinalityType
  <1> QED  BY <1>1, <1>4, <1>5, <1>6 DEF n

LEMMA InitFits == Spacious(Scheduled(EmptyScheduler, RootEc))
  <1> DEFINE s == EmptyScheduler
             r == Enqueue(s, RootEc, FALSE)
  <1>1. /\ s.queues[s.priority[RootEc]] = << >> /\ s.current_ec = NULL
        /\ s.halted = "no"
    BY ZeroLevel, SyscallAssumption DEF EmptyScheduler
  <1>2. ~ (Len(s.queues[s.priority[RootEc]]) >= MAX_ECS)
    BY <1>1, QueueAssumption
  <1>3. Sound(s) /\ RootEc \in EC
    BY EmptySound, SyscallAssumption
  <1> HIDE DEF s
  <1>4. RootEc \notin Members(s)
    BY EmptySound DEF s
  <1>5. Sound(r) /\ r.halted = "no"
    BY <1>1, <1>3, <1>4, EnqueueSound
  <1>6. Scheduled(s, RootEc) = Yielded(r)
    BY <1>1, <1>2 DEF Scheduled
  <1> HIDE DEF r
  <1>7. Dispatched(r, Yielded(r))
    BY <1>5, YieldedSound
  <1> QED  BY <1>5, <1>6, <1>7 DEF Dispatched, Spacious, s

LEMMA CreateFits ==
    ASSUME IInv, IsFiniteSet(EC), Cardinality(EC) <= MAX_ECS,
           NEW e \in EC, CreateEC(e)
    PROVE  Spacious(sched')
  <1> DEFINE prio == BasePriority[e]
             r == [sched EXCEPT !.priority[e] = prio]
  <1>1. /\ Sound(sched) /\ Members(sched) = created /\ e \notin created
        /\ sched' = Scheduled(r, e) /\ prio \in Levels /\ sched.halted = "no"
        /\ sched.current_ec # NULL
    BY CallerFree, IpcAssumption DEF CreateEC, Spawn, Return, IInv, SInv
  <1>2. e \notin Queued(sched)
    BY <1>1 DEF Members
  <1> HIDE DEF prio
  <1>3. /\ Sound(r) /\ Members(r) = created /\ r.halted = sched.halted
        /\ r.current_ec = sched.current_ec
    BY <1>1, <1>2, PrioritySet
  <1> HIDE DEF r
  <1>4. ~ (Len(r.queues[r.priority[e]]) >= MAX_ECS)
    <2>1. r.priority[e] \in Levels
      BY <1>3 DEF Sound, SchedulerState
    <2>2. /\ Len(r.queues[r.priority[e]]) < Cardinality(EC)
          /\ Len(r.queues[r.priority[e]]) \in Nat
      BY <1>1, <1>3, <2>1, QueueFits, QueueEntries
    <2>3. Cardinality(EC) \in Nat
      BY FS_CardinalityType
    <2> QED  BY <2>2, <2>3, QueueAssumption
  <1>5. Scheduled(r, e) = Enqueue(r, e, FALSE)
    BY <1>1, <1>3, <1>4 DEF Scheduled
  <1>6. Enqueue(r, e, FALSE).halted = r.halted
    BY <1>3 DEF Enqueue, Sound, SchedulerState
  <1> QED  BY <1>1, <1>3, <1>5, <1>6 DEF Spacious

\* A root EC that is a client waits only for a server that can go on.
LEMMA SomebodyCanRun ==
    ASSUME IInv, Client(RootEc), RootEc \in created, Spacious(sched)
    PROVE  NeverHalts
  <1> SUFFICES ASSUME sched.halted = "no ECs to run" PROVE FALSE
    BY DEF Spacious, NeverHalts
  <1>1. /\ Sound(sched) /\ created = Members(sched) /\ created \in SUBSET EC
        /\ \A e \in created : ~ Ready(sched, e) /\ e # sched.current_ec
    BY DEF IInv, SInv, StopsOnlyIdle
  <1>2. ASSUME NEW e \in created PROVE call[e] # Idle
    <2>1. e \in Queued(sched) /\ e \in EC
      BY <1>1 DEF Members
    <2>2. PICK p \in Levels : \E i \in 1 .. Len(sched.queues[p]) :
             sched.queues[p][i].ec = e
      BY <2>1 DEF Queued
    <2>3. PICK i \in 1 .. Len(sched.queues[p]) : sched.queues[p][i].ec = e
      BY <2>2
    <2>4. sched.queues[p][i].blocked
      BY <1>1, <2>3 DEF Ready, Runnable
    <2> QED  BY <2>1, <2>3, <2>4 DEF IInv, FlagsAgree, Asleep
  <1>3. PICK t \in EC : call[RootEc] = SendingTo(t)
    BY <1>1, <1>2 DEF IInv, SInv, Waits, ListInv, WaitAsRole
  <1>4. t \in created /\ ~ Client(t)
    BY <1>1, <1>3, SendersCreated
  <1>5. call[t] = Receiving
    BY <1>1, <1>2, <1>4 DEF IInv, SInv, Waits, ListInv, WaitAsRole
  <1>6. pending_sender[t] = t
    BY <1>5 DEF IInv, ListInv, ReceiverMarked
  <1> QED  BY <1>1, <1>3, <1>6, NoneSendsTo

\* Clients and servers never all wait: with a root EC that is a client and no
\* more ECs than a queue has slots, somebody can always run and the machine
\* does not stop (scheduler.cc:8, 59-60).
THEOREM NoDeadlock ==
    ASSUME Roles, Client(RootEc), IsFiniteSet(EC), Cardinality(EC) <= MAX_ECS
    PROVE  Spec => []NeverHalts
  <1> DEFINE Up == IInv /\ RootEc \in created /\ Spacious(sched)
  <1>1. Init => Up
    <2> SUFFICES ASSUME Init PROVE Up
      OBVIOUS
    <2>1. IInv /\ RootEc \in created
      BY InitIInv DEF Init, EcInit, FieldsInit
    <2>2. Spacious(sched)
      BY InitFits DEF Init, EcInit
    <2> QED  BY <2>1, <2>2
  <1>2. Up /\ [Next]_ecVars => Up'
    <2> SUFFICES ASSUME Up, [Next]_ecVars PROVE Up'
      OBVIOUS
    <2>1. IInv'
      BY NextIInv
    <2>2. CASE SysYield
      BY <2>1, <2>2, YieldEffect DEF IInv, SysYield
    <2>3. ASSUME NEW t \in Lookup, NEW value \in Values, IpcSend(t, value)
          PROVE  Up'
      <3>1. t \in EC \cup {NULL}
        <4>1. current \in EC
          BY DEF IInv, SInv
        <4> QED  BY <4>1, IpcAssumption DEF Lookup
      <3>2. CASE SendNowhere
        BY <2>1, <3>2 DEF SendNowhere
      <3>3. CASE t \in EC /\ FastSend(t, value)
        BY <2>1, <3>3, FastSendEffect, SyscallAssumption DEF IInv, FastSend
      <3>4. CASE t \in EC /\ SlowSend(t, value)
        BY <2>1, <3>4, SlowSendEffect, SyscallAssumption DEF IInv, SlowSend
      <3> QED  BY <2>3, <3>1, <3>2, <3>3, <3>4 DEF IpcSend
    <2>4. CASE RecvPending
      BY <2>1, <2>4, RecvPendingEffect DEF IInv, RecvPending
    <2>5. CASE RecvBlocks
      BY <2>1, <2>5, RecvBlocksEffect DEF IInv, RecvBlocks
    <2>6. ASSUME NEW e \in EC, CreateEC(e) PROVE Up'
      BY <2>1, <2>6, CreateEffect, CreateFits
    <2>7. CASE UNCHANGED ecVars
      BY <2>1, <2>7 DEF ecVars
    <2> QED  BY <2>2, <2>3, <2>4, <2>5, <2>6, <2>7 DEF Next, IpcRecv
  <1>3. Up => NeverHalts
    BY SomebodyCanRun
  <1> HIDE DEF Up
  <1> QED  BY <1>1, <1>2, <1>3, PTL DEF Spec

-----------------------------------------------------------------------------
\* The refinement.

\* What Rendezvous sees of an EC that waits.
LEMMA WaitingShows ==
    ASSUME NEW e \in EC, call[e] \in Waits
    PROVE  /\ Waiting[e] = Promise!Running <=> call[e] = Idle
           /\ Waiting[e] = Promise!Receiving <=> call[e] = Receiving
           /\ \A t, w : Waiting[e] = Promise!Sending(t, w) <=>
                           call[e] = SendingTo(t) /\ ipc_val[e] = w
  <1>1. CASE call[e] = Idle
    BY <1>1 DEF Waiting, Idle, Receiving, SendingTo,
                Promise!Running, Promise!Receiving, Promise!Sending
  <1>2. CASE call[e] = Receiving
    BY <1>2 DEF Waiting, Idle, Receiving, SendingTo,
                Promise!Running, Promise!Receiving, Promise!Sending
  <1>3. ASSUME NEW u \in EC, call[e] = SendingTo(u)
        PROVE  /\ Waiting[e] = <<"send", u, ipc_val[e]>>
               /\ call[e] \notin {Idle, Receiving}
    BY <1>3, WaysToWait DEF Waiting
  <1>4. CASE \E u \in EC : call[e] = SendingTo(u)
    BY <1>3, <1>4, WaysToWait
    DEF Promise!Running, Promise!Receiving, Promise!Sending
  <1> QED  BY <1>1, <1>2, <1>4 DEF Waits

\* A call changes what one EC waits for.
LEMMA WaitingChanges ==
    ASSUME NEW e \in EC,
           \A x \in EC \ {e} : call'[x] = call[x] /\ ipc_val'[x] = ipc_val[x]
    PROVE  Waiting' = [Waiting EXCEPT ![e] = Waiting'[e]]
  BY DEF Waiting

LEMMA CallerMayStep ==
    ASSUME IInv, NEW c, May(c)
    PROVE  Promise!Free(current) /\ current \in EC
  <1>1. current \in EC /\ current \in created /\ call[current] = Idle
    BY CallerFree DEF IInv
  <1>2. call[current] \in Waits
    BY <1>1 DEF Waits
  <1> QED  BY <1>1, <1>2, WaitingShows DEF Promise!Free

\* The caller finds the frame's address in eax, or a result.
LEMMA OwnResultIs ==
    ASSUME IInv, NEW w \in Int, current \in EC, eax' = [eax EXCEPT ![current] = w]
    PROVE  Promise!OwnResult(current)
  <1>1. eax \in [EC -> Int]
    BY DEF IInv, SInv, FieldsOK
  <1> QED  BY <1>1 DEF Promise!OwnResult

LEMMA FrameIsWord == FRAME \in Int
  BY SyscallAssumption

LEMMA ReturnsRefine ==
    ASSUME IInv, NEW c, May(c), NEW w \in Int, eax' = [eax EXCEPT ![current] = w],
           UNCHANGED <<call, ipc_val, created>>
    PROVE  Promise!Next
  <1>1. Promise!Free(current) /\ current \in EC /\ Promise!OwnResult(current)
    BY CallerMayStep, OwnResultIs
  <1>2. Waiting' = Waiting
    BY DEF Waiting
  <1>3. Promise!Return(current)
    BY <1>1, <1>2 DEF Promise!Return
  <1> QED  BY <1>1, <1>3 DEF Promise!Next

LEMMA CreateRefines ==
    ASSUME IInv, NEW e \in EC, CreateEC(e)
    PROVE  Promise!Next
  <1>1. /\ May("create_ec") /\ eax' = [eax EXCEPT ![current] = 0]
        /\ UNCHANGED <<call, ipc_val>> /\ created' \in {created, created \cup {e}}
        /\ e \notin created /\ 0 \in Int
    BY CreateEffect DEF CreateEC, Result, ipcVars
  <1>2. CASE created' = created
    BY <1>1, <1>2, ReturnsRefine
  <1>3. CASE created' = created \cup {e}
    <2>1. Promise!Free(current) /\ current \in EC /\ Promise!OwnResult(current)
      BY <1>1, CallerMayStep, OwnResultIs
    <2>2. Waiting' = Waiting
      BY <1>1 DEF Waiting
    <2>3. Promise!Create(current, e)
      BY <1>1, <1>3, <2>1, <2>2 DEF Promise!Create
    <2> QED  BY <2>1, <2>3 DEF Promise!Next
  <1> QED  BY <1>1, <1>2, <1>3

LEMMA FastSendRefines ==
    ASSUME IInv, Roles, NEW t \in EC, t \in Lookup, NEW value \in Values,
           FastSend(t, value)
    PROVE  Promise!Next
  <1>1. /\ May("send") /\ t # current /\ pending_sender[t] = t
        /\ eax' = [[eax EXCEPT ![current] = FRAME] EXCEPT ![t] = value]
        /\ call' = [call EXCEPT ![t] = Idle] /\ UNCHANGED <<ipc_val, created>>
    BY TargetIsServer, FastSendEffect, SyscallAssumption DEF IInv, FastSend, Entered
  <1>2. /\ Promise!Free(current) /\ current \in EC
        /\ eax \in [EC -> Int] /\ call \in [EC -> Waits]
        /\ call[t] = Receiving
    BY <1>1, CallerMayStep
    DEF IInv, SInv, FieldsOK, ListInv, ReceiverMarked
  <1>3. Waiting[t] = Promise!Receiving
    BY <1>2, WaitingShows
  <1>4. Waiting'[t] = Promise!Running
    BY <1>1, <1>2 DEF Waiting, Idle, Promise!Running
  <1>5. Waiting' = [Waiting EXCEPT ![t] = Promise!Running]
    BY <1>1, <1>2, <1>4, WaitingChanges
  <1>6. /\ eax'[t] = value /\ eax'[current] = FRAME
        /\ eax' = [eax EXCEPT ![t] = value, ![current] = eax'[current]]
    BY <1>1, <1>2
  <1>7. Promise!Meet(current, t, value)
    BY <1>1, <1>2, <1>3, <1>5, <1>6, FrameIsWord DEF Promise!Meet
  <1> QED  BY <1>2, <1>7 DEF Promise!Next

LEMMA SlowSendRefines ==
    ASSUME IInv, Roles, NEW t \in EC, t \in Lookup, NEW value \in Values,
           SlowSend(t, value)
    PROVE  Promise!Next
  <1>1. /\ May("send") /\ t \in created /\ pending_sender[t] # t
        /\ eax' = [eax EXCEPT ![current] = FRAME]
        /\ call' = [call EXCEPT ![current] = SendingTo(t)]
        /\ ipc_val' = [ipc_val EXCEPT ![current] = value] /\ UNCHANGED created
    BY TargetIsServer, SlowSendEffect, SyscallAssumption DEF IInv, SlowSend, Entered
  <1>2. /\ Promise!Free(current) /\ current \in EC
        /\ call \in [EC -> Waits] /\ ipc_val \in [EC -> Nat]
        /\ call[t] # Receiving /\ Promise!OwnResult(current)
    BY <1>1, CallerMayStep, OwnResultIs, FrameIsWord
    DEF IInv, SInv, FieldsOK, ListInv, ReceiverMarked
  <1>3. Waiting[t] # Promise!Receiving
    BY <1>2, WaitingShows
  <1>4. Waiting'[current] = Promise!Sending(t, value)
    BY <1>1, <1>2, WaysToWait DEF Waiting, Promise!Sending
  <1>5. Waiting' = [Waiting EXCEPT ![current] = Promise!Sending(t, value)]
    BY <1>1, <1>2, <1>4, WaitingChanges
  <1>6. Promise!Offer(current, t, value)
    BY <1>1, <1>2, <1>3, <1>5 DEF Promise!Offer
  <1> QED  BY <1>2, <1>6 DEF Promise!Next

LEMMA RecvPendingRefines ==
    ASSUME IInv, Roles, RecvPending
    PROVE  Promise!Next
  <1> DEFINE s == pending_sender[current]
             offer == <<s, ipc_val[s]>>
  <1>1. /\ May("recv") /\ s \in EC
        /\ eax' = [eax EXCEPT ![current] = ipc_val[s]]
        /\ call' = [call EXCEPT ![s] = Idle] /\ UNCHANGED <<ipc_val, created>>
    BY RecvPendingEffect DEF IInv, RecvPending, Result
  <1>2. /\ Promise!Free(current) /\ current \in EC /\ call \in [EC -> Waits]
        /\ call[s] = SendingTo(current)
    BY <1>1, CallerMayStep
    DEF RecvPending, IInv, SInv, ListInv, Linked, Roles, May, Client
  <1> HIDE DEF s
  <1>3. ipc_val[s] \in Values
    BY <1>1, <1>2 DEF IInv, ListInv, WaitAsRole
  <1>4. Waiting[s] = Promise!Sending(current, ipc_val[s])
    BY <1>1, <1>2, WaitingShows
  <1>5. Waiting'[s] = Promise!Running
    BY <1>1, <1>2 DEF Waiting, Idle, Promise!Running
  <1>6. Waiting' = [Waiting EXCEPT ![s] = Promise!Running]
    BY <1>1, <1>2, <1>5, WaitingChanges
  <1>7. offer \in Promise!Offers(current) /\ offer[1] = s /\ offer[2] = ipc_val[s]
    BY <1>1, <1>3, <1>4 DEF Promise!Offers
  <1> HIDE DEF offer
  <1>8. Promise!Accept(current)
    BY <1>1, <1>2, <1>6, <1>7 DEF Promise!Accept
  <1> QED  BY <1>2, <1>8 DEF Promise!Next

LEMMA RecvBlocksRefines ==
    ASSUME IInv, RecvBlocks
    PROVE  Promise!Next
  <1>1. /\ May("recv") /\ eax' = [eax EXCEPT ![current] = FRAME]
        /\ call' = [call EXCEPT ![current] = Receiving]
        /\ UNCHANGED <<ipc_val, created>>
        /\ pending_sender[current] \in {NULL, current}
    BY RecvBlocksEffect DEF IInv, RecvBlocks, Entered
  <1>2. /\ Promise!Free(current) /\ current \in EC /\ call \in [EC -> Waits]
        /\ Promise!OwnResult(current)
        /\ \A e \in EC : call[e] # SendingTo(current)
    BY <1>1, CallerMayStep, OwnResultIs, FrameIsWord, NoneSendsTo DEF IInv, SInv
  <1>3. Promise!Offers(current) = {}
    <2>1. \A e \in EC, w \in Values : Waiting[e] # Promise!Sending(current, w)
      BY <1>2, WaitingShows
    <2> QED  BY <2>1 DEF Promise!Offers
  <1>4. Waiting'[current] = Promise!Receiving
    BY <1>1, <1>2 DEF Waiting, Receiving, Promise!Receiving
  <1>5. Waiting' = [Waiting EXCEPT ![current] = Promise!Receiving]
    BY <1>1, <1>2, <1>4, WaitingChanges
  <1>6. Promise!Await(current)
    BY <1>1, <1>2, <1>3, <1>5 DEF Promise!Await
  <1> QED  BY <1>2, <1>6 DEF Promise!Next

\* Every call does what Rendezvous says, for any number of ECs and words: a
\* word reaches the receiver it was sent to, once, and a sender waits until its
\* word is taken (syscall.cc:200-228, 239-264).
THEOREM CallsKeepPromise == ASSUME Roles PROVE Spec => ImplementsRendezvous
  <1>1. Init => Promise!Init
    BY DEF Init, EcInit, FieldsInit, Promise!Init, Waiting, Idle, Promise!Running
  <1>2. IInv /\ [Next]_ecVars => [Promise!Next]_(Promise!vars)
    <2> SUFFICES ASSUME IInv, [Next]_ecVars
                 PROVE  Promise!Next \/ UNCHANGED Promise!vars
      OBVIOUS
    <2>1. CASE SysYield
      BY <2>1, YieldEffect, ReturnsRefine, FrameIsWord
         DEF IInv, SysYield, Entered, ipcVars
    <2>2. ASSUME NEW t \in Lookup, NEW value \in Values, IpcSend(t, value)
          PROVE  Promise!Next
      <3>1. t \in EC \cup {NULL}
        <4>1. current \in EC
          BY DEF IInv, SInv
        <4> QED  BY <4>1, IpcAssumption DEF Lookup
      <3>2. CASE SendNowhere
        <4>1. /\ May("send") /\ eax' = [eax EXCEPT ![current] = -1] /\ -1 \in Int
              /\ UNCHANGED <<call, ipc_val, created>>
          BY <3>2 DEF SendNowhere, Result, ipcVars
        <4> QED  BY <4>1, ReturnsRefine
      <3>3. CASE t \in EC /\ FastSend(t, value)
        BY <3>3, FastSendRefines
      <3>4. CASE t \in EC /\ SlowSend(t, value)
        BY <3>4, SlowSendRefines
      <3> QED  BY <2>2, <3>1, <3>2, <3>3, <3>4 DEF IpcSend
    <2>3. CASE IpcRecv
      BY <2>3, RecvPendingRefines, RecvBlocksRefines DEF IpcRecv
    <2>4. CASE \E e \in EC : CreateEC(e)
      BY <2>4, CreateRefines
    <2>5. CASE UNCHANGED ecVars
      BY <2>5 DEF ecVars, ipcVars, Promise!vars, Waiting
    <2> QED  BY <2>1, <2>2, <2>3, <2>4, <2>5 DEF Next
  <1> QED  BY <1>1, <1>2, Inductive, PTL DEF Spec, ImplementsRendezvous, Promise!Spec
==============================================================================
