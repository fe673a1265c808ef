------------------------------ MODULE Rendezvous ------------------------------
(***************************************************************************)
(* What SYS_IPC_SEND and SYS_IPC_RECV promise to clients and servers: a    *)
(* send and a receive meet, one word passes, and whoever comes first waits *)
(* for the other. Priorities, run queues and sender lists do not show.     *)
(* Module Ipc implements it.                                               *)
(***************************************************************************)
EXTENDS Integers

CONSTANTS EC, RootEc, Values

VARIABLES
    waits,   \* what each EC waits for
    result,  \* what each EC finds in eax when it runs again
    exists   \* the ECs created so far

vars == <<waits, result, exists>>

Running   == <<"none">>
Receiving == <<"recv">>
Sending(t, w) == <<"send", t, w>>

Init == /\ waits = [e \in EC |-> Running]
        /\ result = [e \in EC |-> 0]
        /\ exists = {RootEc}

Free(e) == e \in exists /\ waits[e] = Running

\* e's result changes to something that is not said here, and only e's.
OwnResult(e) == result'[e] \in Int /\ result' = [result EXCEPT ![e] = result'[e]]

\* The receiver waits already: it has the word when it runs again. The sender
\* does not wait, its call returns nothing of use.
Meet(e, t, w) ==
    /\ Free(e)
    /\ waits[t] = Receiving
    /\ waits' = [waits EXCEPT ![t] = Running]
    /\ result'[t] = w /\ result'[e] \in Int
    /\ result' = [result EXCEPT ![t] = w, ![e] = result'[e]]
    /\ UNCHANGED exists

\* The receiver does not wait: the sender does, whatever happens to others.
Offer(e, t, w) ==
    /\ Free(e)
    /\ t \in exists /\ waits[t] # Receiving
    /\ waits' = [waits EXCEPT ![e] = Sending(t, w)]
    /\ OwnResult(e)
    /\ UNCHANGED exists

Offers(e) == {offer \in EC \X Values : waits[offer[1]] = Sending(e, offer[2])}

\* The receive gives the word of one of those who wait, and ends its wait.
Accept(e) ==
    /\ Free(e)
    /\ \E offer \in Offers(e) :
          /\ waits' = [waits EXCEPT ![offer[1]] = Running]
          /\ result' = [result EXCEPT ![e] = offer[2]]
    /\ UNCHANGED exists

\* Nobody waits: the receiver does. It does not pass over a sender.
Await(e) ==
    /\ Free(e)
    /\ Offers(e) = {}
    /\ waits' = [waits EXCEPT ![e] = Receiving]
    /\ OwnResult(e)
    /\ UNCHANGED exists

\* Any other call, and a send that is refused, returns at once.
Return(e) ==
    /\ Free(e)
    /\ OwnResult(e)
    /\ UNCHANGED <<waits, exists>>

Create(e, child) ==
    /\ Free(e)
    /\ child \notin exists
    /\ exists' = exists \cup {child}
    /\ OwnResult(e)
    /\ UNCHANGED waits

Next == \E e \in EC :
           \/ \E t \in EC, w \in Values : Meet(e, t, w) \/ Offer(e, t, w)
           \/ Accept(e) \/ Await(e) \/ Return(e)
           \/ \E child \in EC : Create(e, child)

Spec == Init /\ [][Next]_vars
===============================================================================
