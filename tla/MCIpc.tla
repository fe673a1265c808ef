-------------------------------- MODULE MCIpc --------------------------------
(***************************************************************************)
(* Ipc on small populations. In every run the root EC is "root".           *)
(***************************************************************************)
EXTENDS Ipc, TLC

CONSTANTS root, high, high2, low, srv1, srv2

\* Two servers of low priority, three clients of either priority, one of which
\* is the root EC, creates the others and may get a slot wrong.
Parties == {root, high, low, srv1, srv2}
Servers == {srv1, srv2}
ServiceProgram ==
    [e \in Parties |->
        IF e \in Servers THEN {"recv", "yield"}
        ELSE IF e = root THEN {"send", "yield", "create_ec"}
        ELSE {"send", "yield"}]
ServiceReach == [e \in Parties |-> IF e = root THEN Servers \cup {NULL} ELSE Servers]
ServiceBase  == [e \in Parties |-> IF e \in {root, high} THEN 0 ELSE 1]

\* Three clients of high priority, so that two can yield to each other for ever
\* while the third waits, one of low priority, and a server of low priority that
\* does nothing but receive.
Crowd == {root, high, high2, low, srv1}
CrowdProgram ==
    [e \in Crowd |-> IF e = srv1 THEN {"recv"}
                     ELSE IF e = root THEN {"send", "yield", "create_ec"}
                     ELSE {"send", "yield"}]
CrowdReach == [e \in Crowd |-> {srv1}]
CrowdBase  == [e \in Crowd |-> IF e \in {srv1, low} THEN 1 ELSE 0]

\* A server, a relay that receives and sends on, and two clients of the relay.
Chain == {root, high, low, srv1}
ChainProgram ==
    [e \in Chain |->
        IF e = srv1 THEN {"recv"}
        ELSE IF e = low THEN {"recv", "send"}
        ELSE IF e = root THEN {"send", "yield", "create_ec"}
        ELSE {"send", "yield"}]
ChainReach == [e \in Chain |-> IF e = low THEN {srv1} ELSE {low}]
ChainBase  == [e \in Chain |-> IF e \in {root, high} THEN 0 ELSE 1]
==============================================================================
