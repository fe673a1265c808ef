------------------------------- MODULE MCDemo --------------------------------
(***************************************************************************)
(* Demo with the inputs of user.cc:123.                                    *)
(***************************************************************************)
EXTENDS Demo

EveryCall == [e \in EC |-> Calls]

DemoInputs == <<5, 4, 1>>
==============================================================================
