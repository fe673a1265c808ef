------------------------------ MODULE MCKernel -------------------------------
(***************************************************************************)
(* Kernel with few ECs and domains, in which every EC may call everything  *)
(* that changes the capability tables.                                     *)
(***************************************************************************)
EXTENDS Kernel, TLC

CONSTANTS root, e2, e3

Builders == {root, e2, e3}
BuilderProgram ==
    [e \in Builders |-> {"create_ec", "create_pd", "delegate_cap", "yield"}]

\* Any call at all, from anybody.
AnyProgram == [e \in Builders |-> Calls]

\* Two domains below the root may be created, by whoever runs.
Symmetry == Permutations(PD \ {RootPd}) \cup Permutations(EC \ {RootEc})
==============================================================================
