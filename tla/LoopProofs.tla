------------------------------ MODULE LoopProofs ------------------------------
(***************************************************************************)
(* What the other proofs need to know of the kernel's loops, which the     *)
(* models write as recursive functions: that such a function exists, and   *)
(* that what holds before the loop and is kept by each of its turns holds  *)
(* throughout.                                                             *)
(***************************************************************************)
EXTENDS Integers, WellFoundedInduction, TLAPS

\* A non-empty set of indices has a first one.
LEMMA LeastIndex ==
  ASSUME NEW S \in SUBSET Nat, S # {}
  PROVE  \E i \in S : \A j \in S : i <= j
<1> DEFINE R == {ss \in Nat \X Nat : ss[1] < ss[2]}
<1>1. IsWellFoundedOn(R, Nat)
  BY NatLessThanWellFounded DEF OpToRel
<1>2. PICK i \in S : \A j \in S : ~ (<<j, i>> \in R)
  <2> HIDE DEF R
  <2> QED BY <1>1, WFMin
<1>3. ASSUME NEW j \in S PROVE i <= j
  <2>1. j < i => <<j, i>> \in R
    OBVIOUS
  <2> QED BY <1>2, <2>1
<1> QED BY <1>3

\* A set that has a and, with every index below b, the next one has all of
\* a .. b: induction, for the predicate that defines the set.
LEMMA IndicesInduction ==
  ASSUME NEW a \in Nat, NEW b \in Nat, NEW T, a <= b => a \in T,
         \A i \in a .. b : i # a /\ i - 1 \in T => i \in T
  PROVE  a .. b \subseteq T
<1> DEFINE bad == (a .. b) \ T
<1>1. SUFFICES ASSUME bad # {} PROVE FALSE
  OBVIOUS
<1>2. bad \in SUBSET Nat
  OBVIOUS
<1>3. PICK i \in bad : \A k \in bad : i <= k
  <2> HIDE DEF bad
  <2> QED BY <1>1, <1>2, LeastIndex
<1>4. i \in a .. b /\ i \notin T /\ i # a
  OBVIOUS
<1>5. i - 1 \in a .. b /\ i - 1 < i
  BY <1>4
<1>6. i - 1 \notin bad
  <2> HIDE DEF bad
  <2> QED BY <1>3, <1>4, <1>5
<1> QED BY <1>4, <1>5, <1>6

\* f is the run of a loop over a .. b that starts at x and whose step i is
\* the function G[i].
Loops(f, a, b, x, G) == \A i \in a .. b : f[i] = IF i = a THEN x ELSE G[i][f[i - 1]]

\* No step of it leaves S.
KeptIn(G, a, b, S) == \A i \in a .. b, v \in S : G[i][v] \in S

\* There is such a run, and its values are where the steps keep them.
LEMMA LoopExists ==
  ASSUME NEW a \in Nat, NEW b \in Nat, a <= b, NEW S, NEW x \in S, NEW G,
         KeptIn(G, a, b, S)
  PROVE  \E f \in [a .. b -> S] : Loops(f, a, b, x, G)
<1> DEFINE Runs(m) == \E f \in [a .. m -> S] : Loops(f, a, m, x, G)
           T == {m \in a .. b : Runs(m)}
<1>1. Runs(a)
  <2> DEFINE f == [i \in a .. a |-> x]
  <2>1. f \in [a .. a -> S] /\ Loops(f, a, a, x, G)
    BY DEF Loops
  <2> QED BY <2>1
<1>2. ASSUME NEW m \in a .. b, m # a, Runs(m - 1) PROVE Runs(m)
  <2>1. m \in Nat /\ m - 1 \in a .. b /\ m - 1 \in a .. m - 1 /\ m \in a .. m
    BY <1>2
  <2>2. PICK f \in [a .. m - 1 -> S] : Loops(f, a, m - 1, x, G)
    BY <1>2
  <2> DEFINE g == [i \in a .. m |-> IF i = m THEN G[m][f[m - 1]] ELSE f[i]]
  <2>3. f[m - 1] \in S /\ G[m][f[m - 1]] \in S
    BY <1>2, <2>1 DEF KeptIn
  <2>4. g \in [a .. m -> S]
    BY <2>1, <2>3
  <2>5. ASSUME NEW i \in a .. m
        PROVE  g[i] = IF i = a THEN x ELSE G[i][g[i - 1]]
    <3>1. CASE i = m
      BY <1>2, <2>1, <3>1
    <3>2. CASE i # m
      <4>1. i \in a .. m - 1 /\ (i # a => i - 1 \in a .. m - 1 /\ i - 1 # m)
        BY <2>1, <3>2
      <4>2. g[i] = f[i] /\ (i # a => g[i - 1] = f[i - 1])
        BY <2>1, <3>2, <4>1
      <4> QED BY <2>2, <4>1, <4>2 DEF Loops
    <3> QED BY <3>1, <3>2
  <2>6. Loops(g, a, m, x, G)
    BY <2>5 DEF Loops
  <2> HIDE DEF g
  <2> QED BY <2>4, <2>6
<1>3. a .. b \subseteq T
  <2>1. a \in T
    BY <1>1
  <2>2. \A m \in a .. b : m # a /\ m - 1 \in T => m \in T
    BY <1>2
  <2> HIDE DEF T
  <2> QED BY <2>1, <2>2, IndicesInduction
<1> QED BY <1>3

\* A loop of n turns from x on, whose turn i is the function G[i], within S.
LEMMA LoopRuns ==
    ASSUME NEW n \in Nat, NEW S, NEW x \in S, NEW G,
           KeptIn(G, 1, n, S)
    PROVE  \E f \in [0 .. n -> S] : f[0] = x /\ \A i \in 1 .. n : f[i] = G[i][f[i - 1]]
  <1> DEFINE H == [i \in 0 .. n |-> IF i = 0 THEN [v \in S |-> v] ELSE G[i]]
  <1>1. KeptIn(H, 0, n, S)
    BY DEF KeptIn
  <1>2. 0 \in Nat /\ 0 <= n
    OBVIOUS
  <1>3. PICK f \in [0 .. n -> S] : Loops(f, 0, n, x, H)
    <2> HIDE DEF H
    <2> QED  BY <1>1, <1>2, LoopExists
  <1>4. f[0] = x
    <2>1. 0 \in 0 .. n
      OBVIOUS
    <2> HIDE DEF H
    <2> QED  BY <1>3, <2>1 DEF Loops
  <1>5. ASSUME NEW i \in 1 .. n PROVE f[i] = G[i][f[i - 1]]
    <2>1. i \in 0 .. n /\ i # 0 /\ i - 1 \in 0 .. n
      OBVIOUS
    <2>2. H[i] = G[i]
      BY <2>1
    <2> HIDE DEF H
    <2>3. f[i] = H[i][f[i - 1]]
      BY <2>1, <1>3 DEF Loops
    <2> QED  BY <2>2, <2>3
  <1> QED  BY <1>4, <1>5
===============================================================================
