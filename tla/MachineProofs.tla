---------------------------- MODULE MachineProofs ----------------------------
(***************************************************************************)
(* The safety of the kernel's memory and of its context switches, for any  *)
(* number of ECs, any images a linker may have made, and any sizes of the  *)
(* pool, of pages and of page tables. In order:                            *)
(*                                                                         *)
(*   the pool alone, and the theorem of module Kalloc;                     *)
(*   what a walk finds after one entry of the tables was written, and what *)
(*   such a write must not disturb (Shape and Safe of a store);            *)
(*   the loops of mmap(), root_invoke() and bootstrap() over such writes;  *)
(*   the segments of the boot module;                                      *)
(*   the contexts of ECs, and the theorem about switches;                  *)
(*   the invariant MInv of the whole machine, action by action;            *)
(*   the theorems that follow from it.                                     *)
(***************************************************************************)
EXTENDS Machine, LoopProofs, SequenceTheorems

-----------------------------------------------------------------------------
\* Kalloc: the pool.

\* The free bytes are those from b to e: the pieces given lie before or behind
\* them, and apart from each other.
Apart(b, e, given) ==
    /\ POOL_F <= b /\ b <= e /\ e <= POOL_E
    /\ \A i \in 1 .. Len(given) :
          /\ POOL_F <= given[i][1] /\ given[i][2] <= POOL_E
          /\ given[i][2] <= b \/ e <= given[i][1]
    /\ \A i, j \in 1 .. Len(given) :
          i # j => given[i][2] <= given[j][1] \/ given[j][2] <= given[i][1]

Pools == [begin : Int, end : Int, given : Seq(Int \X Int), oom : BOOLEAN]

PoolInv(p) == p \in Pools /\ Apart(p.begin, p.end, p.given)

\* A piece cut from the free bytes, which shrink to those from b to e, keeps
\* all pieces apart.
LEMMA Cut ==
    ASSUME NEW b0 \in Int, NEW e0 \in Int, NEW given \in Seq(Int \X Int),
           Apart(b0, e0, given),
           NEW lo \in Int, NEW hi \in Int, NEW b \in Int, NEW e \in Int,
           b0 <= lo, hi <= e0, b0 <= b, b <= e, e <= e0, hi <= b \/ e <= lo,
           POOL_F <= lo, hi <= POOL_E
    PROVE  Apart(b, e, Append(given, <<lo, hi>>))
  <1> DEFINE more == Append(given, <<lo, hi>>)
             n == Len(given)
  <1>1. /\ Len(more) = n + 1 /\ n \in Nat
        /\ more[n + 1] = <<lo, hi>>
        /\ \A i \in 1 .. n : more[i] = given[i]
    <2>1. <<lo, hi>> \in Int \X Int
      OBVIOUS
    <2> QED  BY <2>1, AppendProperties, LenProperties
  <1>2. \A i \in 1 .. n : given[i][1] \in Int /\ given[i][2] \in Int
    <2>1. \A i \in 1 .. n : given[i] \in Int \X Int
      BY ElementOfSeq
    <2> QED  BY <2>1
  <1>3. POOL_F \in Int /\ POOL_E \in Int
    BY PoolAssumption
  <1>4. POOL_F <= b /\ e <= POOL_E
    BY <1>3 DEF Apart
  <1> HIDE DEF more
  <1>5. ASSUME NEW i \in 1 .. n + 1
        PROVE  /\ POOL_F <= more[i][1] /\ more[i][2] <= POOL_E
               /\ more[i][2] <= b \/ e <= more[i][1]
    <2>1. CASE i = n + 1
      BY <2>1, <1>1
    <2>2. CASE i \in 1 .. n
      <3>1. /\ POOL_F <= given[i][1] /\ given[i][2] <= POOL_E
            /\ given[i][2] <= b0 \/ e0 <= given[i][1]
        BY <2>2 DEF Apart
      <3>2. given[i][2] <= b \/ e <= given[i][1]
        BY <2>2, <3>1, <1>2
      <3> QED  BY <2>2, <3>1, <3>2, <1>1
    <2> QED  BY <1>1, <2>1, <2>2
  <1>6. ASSUME NEW i \in 1 .. n
        PROVE  given[i][2] <= lo \/ hi <= given[i][1]
    <2>1. given[i][2] <= b0 \/ e0 <= given[i][1]
      BY DEF Apart
    <2>2. given[i][1] \in Int /\ given[i][2] \in Int
      BY <1>2
    <2> QED  BY <2>1, <2>2
  <1>7. ASSUME NEW i \in 1 .. n + 1, NEW j \in 1 .. n + 1, i # j
        PROVE  more[i][2] <= more[j][1] \/ more[j][2] <= more[i][1]
    <2>1. CASE i \in 1 .. n /\ j \in 1 .. n
      BY <2>1, <1>1, <1>7 DEF Apart
    <2>2. CASE i = n + 1 /\ j \in 1 .. n
      <3>1. more[i] = <<lo, hi>> /\ more[j] = given[j]
        BY <2>2, <1>1
      <3> QED  BY <2>2, <3>1, <1>6
    <2>3. CASE i \in 1 .. n /\ j = n + 1
      <3>1. more[j] = <<lo, hi>> /\ more[i] = given[i]
        BY <2>3, <1>1
      <3> QED  BY <2>3, <3>1, <1>6
    <2>4. (i \in 1 .. n \/ i = n + 1) /\ (j \in 1 .. n \/ j = n + 1)
      BY <1>1
    <2> QED  BY <1>7, <2>1, <2>2, <2>3, <2>4
  <1> QED  BY <1>1, <1>4, <1>5, <1>7 DEF Apart, more

\* Every allocation keeps the invariant, the ones that do not fit included.
LEMMA AllocKeeps ==
    ASSUME NEW p, PoolInv(p), NEW size \in Sizes
    PROVE  PoolInv(Alloc(p, size))
  <1>1. size \in Nat \ {0} /\ p \in Pools
    BY PoolAssumption DEF PoolInv
  <1>2. CASE p.oom \/ p.end - size < p.begin
    <2>1. Alloc(p, size) = [p EXCEPT !.oom = TRUE]
      BY <1>2 DEF Alloc
    <2> QED  BY <1>1, <2>1 DEF PoolInv, Pools
  <1>3. CASE ~ (p.oom \/ p.end - size < p.begin)
    <2> DEFINE e    == p.end - size
               more == Append(p.given, <<e, p.end>>)
    <2>1. Alloc(p, size) = [p EXCEPT !.end = e, !.given = more]
      BY <1>1, <1>3 DEF Alloc, Pools
    <2>2. /\ p.begin \in Int /\ p.end \in Int /\ e \in Int
          /\ p.given \in Seq(Int \X Int) /\ <<e, p.end>> \in Int \X Int
          /\ p.begin <= e /\ e <= p.end
      BY <1>1, <1>3 DEF Pools
    <2>3. Apart(p.begin, p.end, p.given)
      BY DEF PoolInv
    <2>4. POOL_F <= e /\ p.end <= POOL_E
      BY <2>2, <2>3, PoolAssumption DEF Apart
    <2> HIDE DEF e
    <2>5. Apart(p.begin, e, more)
      <3>1. p.begin <= p.begin /\ p.end <= p.end /\ e <= e
        BY <2>2
      <3> QED  BY <2>2, <2>3, <2>4, <3>1, Cut
    <2>6. more \in Seq(Int \X Int)
      BY <2>2, AppendProperties
    <2> HIDE DEF more
    <2> QED  BY <1>1, <2>1, <2>2, <2>5, <2>6 DEF PoolInv, Pools
  <1> QED  BY <1>2, <1>3

LEMMA AllocPageKeeps ==
    ASSUME NEW p, PoolInv(p), NEW n \in Nat \ {0}
    PROVE  PoolInv(AllocPage(p, n))
  <1> DEFINE bytes == n * PAGE_SIZE
  <1>1. bytes \in Nat /\ p \in Pools
    BY PoolAssumption DEF PoolInv
  <1>2. CASE p.oom \/ p.begin + bytes > p.end
    <2>1. AllocPage(p, n) = [p EXCEPT !.oom = TRUE]
      BY <1>2 DEF AllocPage
    <2> QED  BY <1>1, <2>1 DEF PoolInv, Pools
  <1>3. CASE ~ (p.oom \/ p.begin + bytes > p.end)
    <2> DEFINE b    == p.begin + bytes
               more == Append(p.given, <<p.begin, b>>)
    <2>1. AllocPage(p, n) = [p EXCEPT !.begin = b, !.given = more]
      BY <1>1, <1>3 DEF AllocPage, Pools
    <2> HIDE DEF bytes
    <2>2. /\ p.begin \in Int /\ p.end \in Int /\ b \in Int
          /\ p.given \in Seq(Int \X Int) /\ <<p.begin, b>> \in Int \X Int
          /\ p.begin <= b /\ b <= p.end
      BY <1>1, <1>3 DEF Pools
    <2>3. Apart(p.begin, p.end, p.given)
      BY DEF PoolInv
    <2>4. POOL_F <= p.begin /\ b <= POOL_E
      BY <2>2, <2>3, PoolAssumption DEF Apart
    <2> HIDE DEF b
    <2>5. Apart(b, p.end, more)
      <3>1. p.begin <= p.begin /\ p.end <= p.end /\ b <= b
        BY <2>2
      <3> QED  BY <2>2, <2>3, <2>4, <3>1, Cut
    <2>6. more \in Seq(Int \X Int)
      BY <2>2, AppendProperties
    <2> HIDE DEF more
    <2> QED  BY <1>1, <2>1, <2>2, <2>5, <2>6 DEF PoolInv, Pools
  <1> QED  BY <1>2, <1>3

\* However objects and pages are asked for, and in whatever order, no two
\* pieces that Kalloc handed out share a byte, and all lie in the pool.
THEOREM PoolNeverOverlaps == PoolSpec => []NoOverlap
  <1>1. PoolInit => PoolInv(pool)
    BY PoolAssumption, EmptySeq DEF PoolInit, EmptyPool, PoolInv, Pools, Apart
  <1>2. PoolInv(pool) /\ [PoolNext]_pool => PoolInv(pool)'
    <2> SUFFICES ASSUME PoolInv(pool), [PoolNext]_pool
                 PROVE  PoolInv(pool')
      BY DEF PoolInv
    <2>1. CASE pool' = pool
      BY <2>1
    <2>2. CASE \E size \in Sizes : pool' = Alloc(pool, size)
      BY <2>2, AllocKeeps
    <2>3. CASE \E n \in Nat \ {0} : pool' = AllocPage(pool, n)
      BY <2>3, AllocPageKeeps
    <2> QED  BY <2>1, <2>2, <2>3 DEF PoolNext
  <1>3. PoolInv(pool) => NoOverlap
    BY DEF PoolInv, Apart, NoOverlap
  <1> QED  BY <1>1, <1>2, <1>3, PTL DEF PoolSpec

-----------------------------------------------------------------------------
\* Pages, frames and their numbers.

LEMMA DivRest ==
    ASSUME NEW k \in Nat \ {0}, NEW a \in Int
    PROVE  /\ a = k * (a \div k) + (a % k)
           /\ a % k \in 0 .. k - 1 /\ a \div k \in Int
           /\ a \in Nat => a \div k \in Nat
  OBVIOUS

LEMMA DivUnique ==
    ASSUME NEW k \in Nat \ {0}, NEW a \in Int, NEW q \in Int, NEW r \in 0 .. k - 1,
           a = k * q + r
    PROVE  a \div k = q /\ a % k = r
  OBVIOUS

LEMMA DivMono ==
    ASSUME NEW k \in Nat \ {0}, NEW a \in Int, NEW b \in Int, a <= b
    PROVE  a \div k <= b \div k
  OBVIOUS

LEMMA DivBelow ==
    ASSUME NEW k \in Nat \ {0}, NEW a \in Nat, NEW b \in Nat
    PROVE  a < b * k <=> a \div k < b
  OBVIOUS

LEMMA DivNext ==
    ASSUME NEW k \in Nat \ {0}, NEW a \in Int
    PROVE  (a + k) \div k = (a \div k) + 1 /\ (a + k) % k = a % k
  <1> DEFINE q == a \div k
             r == a % k
             b == a + k
  <1>1. a = k * q + r /\ r \in 0 .. k - 1 /\ q \in Int
    BY DivRest
  <1> HIDE DEF q, r
  <1>2. b = k * (q + 1) + r /\ q + 1 \in Int /\ b \in Int
    BY <1>1
  <1> HIDE DEF b
  <1>3. b \div k = q + 1 /\ b % k = r
    BY <1>1, <1>2, DivUnique
  <1> QED  BY <1>3 DEF b, q, r

\* Every page is in the directory, at one of the entries of a table; those
\* below LINK_ADDR are those of the entries below LINK_DIR.
Dirs == 0 .. DIRS - 1
Split == LINK_DIR * PTES

LEMMA PagePlace ==
    ASSUME NEW page \in Pages
    PROVE  /\ page \div PTES \in Dirs /\ page % PTES \in 0 .. PTES - 1
           /\ page < Split <=> page \div PTES < LINK_DIR
           /\ page = PTES * (page \div PTES) + (page % PTES)
  <1>1. /\ PTES \in Nat \ {0} /\ DIRS \in Nat /\ LINK_DIR \in Nat
        /\ page \in Nat /\ page < DIRS * PTES
    <2>1. /\ PTES \in Nat \ {0} /\ DIRS \in Nat /\ LINK_DIR \in Nat
      BY MemoryAssumption
    <2> QED  BY <2>1 DEF Pages
  <1>2. page \div PTES < DIRS
    BY <1>1, DivBelow
  <1>3. page < Split <=> page \div PTES < LINK_DIR
    BY <1>1, DivBelow DEF Split
  <1>4. /\ page = PTES * (page \div PTES) + (page % PTES)
        /\ page % PTES \in 0 .. PTES - 1 /\ page \div PTES \in Nat
    BY <1>1
  <1> QED  BY <1>1, <1>2, <1>3, <1>4 DEF Dirs

LEMMA SamePage ==
    ASSUME NEW p \in Pages, NEW q \in Pages, p \div PTES = q \div PTES,
           p % PTES = q % PTES
    PROVE  p = q
  BY PagePlace

\* Whole pages are taken from the front of the pool: the next frame.
PoolOK(p) == PoolInv(p) /\ p.begin % PAGE_SIZE = 0

LEMMA NextPage ==
    ASSUME NEW p, PoolOK(p)
    PROVE  /\ PoolOK(AllocPage(p, 1))
           /\ NextFrame(p) \in Int
           /\ p.begin = PAGE_SIZE * NextFrame(p)
           /\ p.oom => AllocPage(p, 1).oom
           /\ ~ AllocPage(p, 1).oom =>
                 /\ NextFrame(p) \in Frames
                 /\ NextFrame(AllocPage(p, 1)) = NextFrame(p) + 1
           /\ AllocPage(p, 1).oom => NextFrame(AllocPage(p, 1)) = NextFrame(p)
  <1>1. /\ PAGE_SIZE \in Nat \ {0} /\ p \in Pools
        /\ p.begin \in Int /\ p.end \in Int /\ POOL_F \in Nat /\ POOL_E \in Nat
        /\ POOL_F <= p.begin /\ p.end <= POOL_E
        /\ p.begin % PAGE_SIZE = 0
    BY PoolAssumption DEF PoolOK, PoolInv, Pools, Apart
  <1>2. PoolInv(AllocPage(p, 1))
    BY AllocPageKeeps DEF PoolOK
  <1>3. p.begin = PAGE_SIZE * NextFrame(p) /\ NextFrame(p) \in Int
    <2> DEFINE b == p.begin
    <2>1. b \in Int /\ b % PAGE_SIZE = 0
      BY <1>1
    <2> HIDE DEF b
    <2>2. b = PAGE_SIZE * (b \div PAGE_SIZE) /\ b \div PAGE_SIZE \in Int
      BY <1>1, <2>1
    <2> QED  BY <2>2 DEF b, NextFrame
  <1>4. 1 * PAGE_SIZE = PAGE_SIZE
    BY <1>1
  <1>5. CASE p.oom \/ p.begin + PAGE_SIZE > p.end
    <2>1. AllocPage(p, 1) = [p EXCEPT !.oom = TRUE]
      BY <1>4, <1>5 DEF AllocPage
    <2>2. AllocPage(p, 1).begin = p.begin /\ AllocPage(p, 1).oom
      BY <1>1, <2>1 DEF Pools
    <2> QED  BY <1>1, <1>2, <1>3, <2>2 DEF PoolOK, NextFrame
  <1>6. CASE ~ (p.oom \/ p.begin + PAGE_SIZE > p.end)
    <2>1. AllocPage(p, 1) = [p EXCEPT !.begin = @ + PAGE_SIZE,
                   !.given = Append(@, <<p.begin, p.begin + PAGE_SIZE>>)]
      BY <1>4, <1>6 DEF AllocPage
    <2> DEFINE r == AllocPage(p, 1)
               b == p.begin + PAGE_SIZE
    <2>2. r.begin = b /\ ~ r.oom
      BY <1>1, <1>6, <2>1 DEF Pools
    <2> HIDE DEF r
    <2>3. b \div PAGE_SIZE = NextFrame(p) + 1 /\ b % PAGE_SIZE = 0
      BY <1>1, DivNext DEF NextFrame
    <2>4. b <= POOL_E /\ b \in Int
      BY <1>1, <1>6
    <2> HIDE DEF b
    <2>5. POOL_F \div PAGE_SIZE <= NextFrame(p)
      BY <1>1, DivMono DEF NextFrame
    <2>6. NextFrame(p) + 1 <= POOL_E \div PAGE_SIZE
      BY <1>1, <2>3, <2>4, DivMono
    <2>7. POOL_F \div PAGE_SIZE \in Int /\ POOL_E \div PAGE_SIZE \in Int
      BY <1>1, DivRest
    <2>8. NextFrame(p) \in Frames
      BY <1>3, <2>5, <2>6, <2>7 DEF Frames
    <2> QED  BY <1>2, <1>3, <1>6, <2>2, <2>3, <2>8 DEF PoolOK, NextFrame, r
  <1> QED  BY <1>5, <1>6

LEMMA ObjectAlloc ==
    ASSUME NEW p, PoolOK(p), NEW size \in Sizes
    PROVE  /\ PoolOK(Alloc(p, size))
           /\ NextFrame(Alloc(p, size)) = NextFrame(p)
           /\ p.oom => Alloc(p, size).oom
  <1>1. p \in Pools /\ PoolInv(Alloc(p, size))
    BY AllocKeeps DEF PoolOK, PoolInv
  <1>2. Alloc(p, size).begin = p.begin /\ (p.oom => Alloc(p, size).oom)
    BY <1>1 DEF Alloc, Pools
  <1> QED  BY <1>1, <1>2 DEF PoolOK, NextFrame

-----------------------------------------------------------------------------
\* The page tables.

\* An entry of the page directory or of a page table.
Entries == [frame : Int, attr : SUBSET {"P", "W", "U", "S", "G"}]

Memories == [pdir : [Dirs -> Entries],
             ptab : [Frames -> [0 .. PTES - 1 -> Entries]],
             tlb  : SUBSET (Pages \X Entries)]

Stores == [pool : Pools, mem : Memories]

\* An entry of the directory that leads to a page table.
IsTable(m, d) == "P" \in m.pdir[d].attr /\ "S" \notin m.pdir[d].attr

\* The tables are pages of the pool handed out before frame n, one for each.
TablesApart(m, n) ==
    /\ \A d \in Dirs : IsTable(m, d) =>
          m.pdir[d].frame \in Frames /\ m.pdir[d].frame < n
    /\ \A c, d \in Dirs : c # d /\ IsTable(m, c) /\ IsTable(m, d) =>
          m.pdir[c].frame # m.pdir[d].frame

LinkDirs == LINK_DIR .. LINK_DIR + LINK_DIRS - 1

KernelEntry(d) == [frame |-> LINK_P + (d - LINK_DIR) * PTES,
                   attr  |-> {"P", "W", "S", "G"}]

\* Superpages are in the entries D and the kernel's, as start.S mapped it; only
\* below LINK_ADDR, and there always, may the pages of a table be a user's.
Rights(m, D) ==
    /\ \A d \in Dirs : "S" \in m.pdir[d].attr => d \in D /\ "U" \notin m.pdir[d].attr
    /\ \A d \in LinkDirs : m.pdir[d] = KernelEntry(d)
    /\ \A d \in Dirs : IsTable(m, d) => ("U" \in m.pdir[d].attr <=> d < LINK_DIR)

Shape(s, D) ==
    /\ s \in Stores
    /\ PoolOK(s.pool)
    /\ TablesApart(s.mem, NextFrame(s.pool))
    /\ Rights(s.mem, D)

LEMMA EntryParts ==
    ASSUME NEW e \in Entries
    PROVE  /\ e.frame \in Int /\ e.attr \in SUBSET {"P", "W", "U", "S", "G"}
           /\ e = [frame |-> e.frame, attr |-> e.attr]
  BY DEF Entries

LEMMA ZeroEntry == Zero \in Entries /\ ZeroTable \in [0 .. PTES - 1 -> Entries]
  BY DEF Zero, ZeroTable, Entries

LEMMA MemoryParts ==
    ASSUME NEW m \in Memories
    PROVE  /\ m.pdir \in [Dirs -> Entries]
           /\ m.ptab \in [Frames -> [0 .. PTES - 1 -> Entries]]
           /\ m.tlb \in SUBSET (Pages \X Entries)
  BY DEF Memories

\* What a walk finds is an entry, present or empty.
LEMMA WalkEntry ==
    ASSUME NEW m \in Memories, NEW n, TablesApart(m, n), NEW page \in Pages
    PROVE  /\ Walk(m, page) \in Entries
           /\ Walk(m, page) = Zero \/ "P" \in Walk(m, page).attr
           /\ Walk(m, page) = Zero => Walk(m, page).attr = {}
  <1> DEFINE dir == page \div PTES
             i == page % PTES
             d == m.pdir[dir]
             e == m.ptab[d.frame][i]
  <1>1. dir \in Dirs /\ i \in 0 .. PTES - 1
    BY PagePlace
  <1>2. d \in Entries
    BY <1>1, MemoryParts
  <1>3. Zero.attr = {}
    BY DEF Zero
  <1>4. CASE "P" \notin d.attr
    <2>1. Walk(m, page) = Zero
      BY <1>4 DEF Walk
    <2> QED  BY <2>1, <1>3, ZeroEntry
  <1>5. CASE "P" \in d.attr /\ "S" \in d.attr
    <2>1. Walk(m, page) = IF d.frame % PTES # 0 THEN Zero
                          ELSE [frame |-> d.frame + i, attr |-> d.attr]
      BY <1>5 DEF Walk
    <2>2. d.frame + i \in Int
      <3>1. i \in Int
        BY <1>1
      <3> HIDE DEF i, d
      <3> QED  BY <1>2, <3>1, EntryParts
    <2>3. [frame |-> d.frame + i, attr |-> d.attr] \in Entries
      <3> HIDE DEF i, d
      <3> QED  BY <1>2, <2>2, EntryParts DEF Entries
    <2> QED  BY <1>5, <2>1, <2>3, <1>3, ZeroEntry
  <1>6. CASE "P" \in d.attr /\ "S" \notin d.attr
    <2>1. Walk(m, page) =
              IF "P" \notin e.attr THEN Zero
              ELSE [frame |-> e.frame,
                    attr  |-> IF "U" \in d.attr THEN e.attr ELSE e.attr \ {"U"}]
      BY <1>6 DEF Walk
    <2>2. d.frame \in Frames
      BY <1>1, <1>6 DEF TablesApart, IsTable
    <2>3. e \in Entries
      <3>1. m.ptab[d.frame] \in [0 .. PTES - 1 -> Entries]
        BY <2>2, MemoryParts
      <3> HIDE DEF i, d
      <3> QED  BY <1>1, <3>1
    <2> HIDE DEF e, d
    <2>4. [frame |-> e.frame,
           attr  |-> IF "U" \in d.attr THEN e.attr ELSE e.attr \ {"U"}] \in Entries
      BY <2>3, EntryParts DEF Entries
    <2> QED  BY <2>1, <2>4, <1>3, ZeroEntry
  <1> QED  BY <1>4, <1>5, <1>6

\* The walk looks at the directory and the tables alone.
LEMMA WalkDepends ==
    ASSUME NEW m, NEW r, r.pdir = m.pdir, r.ptab = m.ptab, NEW page
    PROVE  Walk(r, page) = Walk(m, page)
  BY DEF Walk

\* What the processor may cache in addition is again an entry for a page.
LEMMA WalkedMemory ==
    ASSUME NEW m \in Memories, NEW n, TablesApart(m, n)
    PROVE  /\ Walked(m) \in Memories
           /\ Walked(m).pdir = m.pdir /\ Walked(m).ptab = m.ptab
           /\ Walked(m).tlb = m.tlb \cup Translations(m)
  <1>1. Walked(m) = [m EXCEPT !.tlb = m.tlb \cup Translations(m)]
    BY DEF Walked
  <1>2. ASSUME NEW t \in Translations(m) PROVE t \in Pages \X Entries
    <2>1. PICK page \in Pages : t = <<page, Walk(m, page)>>
      BY DEF Translations
    <2> QED  BY <2>1, WalkEntry
  <1> DEFINE T == m.tlb \cup Translations(m)
  <1>3. T \in SUBSET (Pages \X Entries)
    BY <1>2, MemoryParts
  <1> HIDE DEF T
  <1> QED  BY <1>1, <1>3 DEF Memories, T

\* What init(), root_invoke() and SyscallMmap::handle ask insert_mapping() for:
\* user rights are given below LINK_ADDR only, and there always.
Mapping(page, frame, attr, D) ==
    /\ page \in Pages /\ page \div PTES \notin D /\ frame \in Int
    /\ attr \in SUBSET {"P", "W", "U"} /\ "P" \in attr
    /\ "U" \in attr <=> page \div PTES < LINK_DIR

\* m1 is m after frame t, that held the table before, is the one of an entry of
\* the directory and shows page in it.
Filled(m, m1, page, cell, entry, t, before) ==
    LET dir == page \div PTES
    IN  /\ m1 \in Memories /\ m1.tlb = m.tlb
        /\ m1.pdir = [m.pdir EXCEPT ![dir] = entry]
        /\ m1.ptab = [m.ptab EXCEPT ![t] = [before EXCEPT ![page % PTES] = cell]]
        /\ t \in Frames /\ before \in [0 .. PTES - 1 -> Entries]
        /\ entry \in Entries /\ entry.frame = t
        /\ "P" \in entry.attr /\ "S" \notin entry.attr
        /\ "U" \in entry.attr <=> dir < LINK_DIR

\* The table is the one the entry had, or a fresh one.
FilledFrom(m, n, page, entry, t, before) ==
    LET dir == page \div PTES
    IN  \/ IsTable(m, dir) /\ entry = m.pdir[dir] /\ before = m.ptab[t]
        \/ "P" \notin m.pdir[dir].attr /\ before = ZeroTable /\ n <= t

\* The tables of m1 are those of m, and frame t.
TablesFrom(m, m1, t) ==
    \A d \in Dirs : IsTable(m1, d) =>
        \/ IsTable(m, d) /\ m1.pdir[d].frame = m.pdir[d].frame
        \/ m1.pdir[d].frame = t

LEMMA FilledTables ==
    ASSUME NEW m \in Memories, NEW m1, NEW n \in Int, NEW n1 \in Int, NEW D,
           NEW page, NEW frame, NEW attr, Mapping(page, frame, attr, D),
           NEW entry, NEW t, NEW before, NEW cell,
           Filled(m, m1, page, cell, entry, t, before),
           FilledFrom(m, n, page, entry, t, before),
           TablesApart(m, n), Rights(m, D), LinkDirs \subseteq D,
           n <= n1, t < n1
    PROVE  TablesApart(m1, n1) /\ Rights(m1, D) /\ TablesFrom(m, m1, t)
  <1> DEFINE dir == page \div PTES
  <1>1. dir \in Dirs /\ dir \notin D
    BY PagePlace DEF Mapping
  <1>2. m.pdir \in [Dirs -> Entries]
    BY MemoryParts
  <1>3. m1.pdir[dir] = entry /\ \A d \in Dirs : d # dir => m1.pdir[d] = m.pdir[d]
    BY <1>1, <1>2 DEF Filled
  <1>4. Frames \subseteq Int
    BY DEF Frames
  <1>5. \A d \in Dirs : d # dir /\ IsTable(m1, d) =>
           /\ IsTable(m, d) /\ m1.pdir[d].frame = m.pdir[d].frame
           /\ m1.pdir[d].frame < n /\ m1.pdir[d].frame \in Frames
           /\ m1.pdir[d].frame # t
    <2> SUFFICES ASSUME NEW d \in Dirs, d # dir, IsTable(m1, d)
                 PROVE  /\ IsTable(m, d) /\ m1.pdir[d].frame = m.pdir[d].frame
                        /\ m1.pdir[d].frame < n /\ m1.pdir[d].frame \in Frames
                        /\ m1.pdir[d].frame # t
      OBVIOUS
    <2>1. IsTable(m, d) /\ m1.pdir[d].frame = m.pdir[d].frame
      BY <1>3 DEF IsTable
    <2>2. m.pdir[d].frame < n /\ m.pdir[d].frame \in Frames
      BY <2>1 DEF TablesApart
    <2>3. m.pdir[d].frame # t
      <3>1. CASE IsTable(m, dir) /\ entry = m.pdir[dir]
        <4>1. m.pdir[d].frame # m.pdir[dir].frame
          BY <1>1, <2>1, <3>1 DEF TablesApart
        <4> QED  BY <3>1, <4>1 DEF Filled
      <3>2. CASE n <= t
        <4>1. t \in Int /\ m.pdir[d].frame \in Int
          BY <1>4, <2>2 DEF Filled
        <4> QED  BY <2>2, <3>2, <4>1
      <3> QED  BY <3>1, <3>2 DEF FilledFrom
    <2> QED  BY <2>1, <2>2, <2>3
  <1>6. TablesApart(m1, n1)
    <2>1. \A d \in Dirs : IsTable(m1, d) =>
             m1.pdir[d].frame \in Frames /\ m1.pdir[d].frame < n1
      <3> SUFFICES ASSUME NEW d \in Dirs, IsTable(m1, d)
                   PROVE  m1.pdir[d].frame \in Frames /\ m1.pdir[d].frame < n1
        OBVIOUS
      <3>1. CASE d = dir
        BY <3>1, <1>3 DEF Filled
      <3>2. CASE d # dir
        <4>1. m1.pdir[d].frame \in Frames /\ m1.pdir[d].frame < n
          BY <3>2, <1>5
        <4>2. m1.pdir[d].frame \in Int
          BY <4>1, <1>4
        <4> QED  BY <4>1, <4>2
      <3> QED  BY <3>1, <3>2
    <2>2. m1.pdir[dir].frame = t
      BY <1>3 DEF Filled
    <2>3. \A c, d \in Dirs : c # d /\ IsTable(m1, c) /\ IsTable(m1, d) =>
             m1.pdir[c].frame # m1.pdir[d].frame
      <3> SUFFICES ASSUME NEW c \in Dirs, NEW d \in Dirs, c # d,
                          IsTable(m1, c), IsTable(m1, d)
                   PROVE  m1.pdir[c].frame # m1.pdir[d].frame
        OBVIOUS
      <3>1. CASE c = dir
        BY <3>1, <1>5, <2>2
      <3>2. CASE d = dir
        BY <3>2, <1>5, <2>2
      <3>3. CASE c # dir /\ d # dir
        <4>1. m.pdir[c].frame # m.pdir[d].frame
          BY <3>3, <1>5 DEF TablesApart
        <4> QED  BY <3>3, <1>5, <4>1
      <3> QED  BY <3>1, <3>2, <3>3
    <2> QED  BY <2>1, <2>3 DEF TablesApart
  <1>7. Rights(m1, D)
    <2>1. \A d \in Dirs : "S" \in m1.pdir[d].attr =>
             d \in D /\ "U" \notin m1.pdir[d].attr
      BY <1>3 DEF Rights, Filled
    <2>2. \A d \in LinkDirs : m1.pdir[d] = KernelEntry(d)
      <3>1. LinkDirs \subseteq Dirs
        BY MemoryAssumption DEF LinkDirs, Dirs
      <3> QED  BY <1>1, <1>3, <3>1 DEF Rights
    <2>3. \A d \in Dirs : IsTable(m1, d) => ("U" \in m1.pdir[d].attr <=> d < LINK_DIR)
      <3> SUFFICES ASSUME NEW d \in Dirs, IsTable(m1, d)
                   PROVE  "U" \in m1.pdir[d].attr <=> d < LINK_DIR
        OBVIOUS
      <3>1. CASE d = dir
        BY <3>1, <1>3 DEF Filled
      <3>2. CASE d # dir
        BY <3>2, <1>3, <1>5 DEF Rights
      <3> QED  BY <3>1, <3>2
    <2> QED  BY <2>1, <2>2, <2>3 DEF Rights
  <1>8. m1.pdir[dir].frame = t
    BY <1>3 DEF Filled
  <1>9. TablesFrom(m, m1, t)
    BY <1>5, <1>8 DEF TablesFrom
  <1> QED  BY <1>6, <1>7, <1>9

LEMMA FilledWalk ==
    ASSUME NEW m \in Memories, NEW m1, NEW n \in Int, NEW n1 \in Int, NEW D,
           NEW page, NEW frame, NEW attr, Mapping(page, frame, attr, D),
           NEW entry, NEW t, NEW before,
           Filled(m, m1, page, [frame |-> frame, attr |-> attr], entry, t, before),
           FilledFrom(m, n, page, entry, t, before),
           TablesApart(m, n), Rights(m, D), LinkDirs \subseteq D,
           n <= n1, t < n1
    PROVE  /\ Walk(m1, page) = [frame |-> frame, attr |-> attr]
           /\ \A q \in Pages : q # page => Walk(m1, q) = Walk(m, q)
  <1> DEFINE dir == page \div PTES
             i == page % PTES
             cell == [frame |-> frame, attr |-> attr]
             after == [before EXCEPT ![i] = cell]
  <1>1. page \in Pages /\ dir \in Dirs /\ i \in 0 .. PTES - 1
    BY PagePlace DEF Mapping
  <1>2. m.pdir \in [Dirs -> Entries] /\ m.ptab \in [Frames -> [0 .. PTES - 1 -> Entries]]
    BY MemoryParts
  <1>3. /\ t \in Frames /\ m1.pdir = [m.pdir EXCEPT ![dir] = entry]
        /\ m1.ptab = [m.ptab EXCEPT ![t] = after]
        /\ before \in [0 .. PTES - 1 -> Entries]
        /\ entry.frame = t /\ "P" \in entry.attr /\ "S" \notin entry.attr
        /\ "U" \in entry.attr <=> dir < LINK_DIR
    BY DEF Filled
  <1>4. m1.pdir[dir] = entry /\ \A d \in Dirs : d # dir => m1.pdir[d] = m.pdir[d]
    BY <1>1, <1>2, <1>3
  <1>5. after[i] = cell /\ \A j \in 0 .. PTES - 1 : j # i => after[j] = before[j]
    BY <1>1, <1>3
  <1> HIDE DEF after, i
  <1>6. m1.ptab[t] = after /\ \A f \in Frames : f # t => m1.ptab[f] = m.ptab[f]
    BY <1>2, <1>3
  <1>7. Walk(m1, page) = cell
    <2> DEFINE a == IF "U" \in entry.attr THEN attr ELSE attr \ {"U"}
    <2>1. m1.ptab[m1.pdir[dir].frame][i] = cell
      BY <1>3, <1>4, <1>5, <1>6
    <2>2. cell.attr = attr /\ cell.frame = frame /\ "P" \in attr
      BY DEF Mapping
    <2> HIDE DEF cell
    <2>3. Walk(m1, page) = [frame |-> cell.frame,
              attr |-> IF "U" \in entry.attr THEN cell.attr ELSE cell.attr \ {"U"}]
      BY <1>3, <1>4, <2>1, <2>2 DEF Walk, i
    <2>4. (IF "U" \in entry.attr THEN attr ELSE attr \ {"U"}) = attr
      BY <1>3 DEF Mapping
    <2> QED  BY <2>2, <2>3, <2>4 DEF cell
  <1> HIDE DEF cell
  <1>8. ASSUME NEW q \in Pages, q # page
        PROVE  Walk(m1, q) = Walk(m, q)
    <2> DEFINE c == q \div PTES
               j == q % PTES
    <2>1. c \in Dirs /\ j \in 0 .. PTES - 1
      BY PagePlace
    <2>2. CASE c # dir
      <3>1. m1.pdir[c] = m.pdir[c]
        BY <1>4, <2>1, <2>2
      <3>2. CASE IsTable(m, c)
        <4>1. m.pdir[c].frame # t /\ m.pdir[c].frame \in Frames
          <5>1. m.pdir[c].frame \in Frames /\ m.pdir[c].frame < n
            BY <2>1, <3>2 DEF TablesApart
          <5>2. CASE IsTable(m, dir) /\ entry = m.pdir[dir]
            BY <1>1, <1>3, <2>1, <2>2, <3>2, <5>1, <5>2 DEF TablesApart
          <5>3. CASE n <= t
            <6>1. t \in Int /\ m.pdir[c].frame \in Int
              BY <1>3, <5>1 DEF Frames
            <6> QED  BY <5>1, <5>3, <6>1
          <5> QED  BY <5>2, <5>3 DEF FilledFrom
        <4>2. m1.ptab[m1.pdir[c].frame][j] = m.ptab[m.pdir[c].frame][j]
          BY <1>6, <3>1, <4>1
        <4> QED  BY <3>1, <4>2 DEF Walk
      <3>3. CASE ~ IsTable(m, c)
        BY <3>1, <3>3 DEF Walk, IsTable
      <3> QED  BY <3>2, <3>3
    <2>3. CASE c = dir
      <3>1. j # i
        BY <1>1, <1>8, <2>3, SamePage DEF i
      <3>2. m1.pdir[c] = entry /\ m1.ptab[t][j] = before[j]
        BY <1>4, <1>5, <1>6, <2>1, <2>3, <3>1
      <3>3. CASE IsTable(m, dir) /\ entry = m.pdir[dir] /\ before = m.ptab[t]
        <4>1. m1.pdir[c] = m.pdir[c] /\ m1.ptab[m1.pdir[c].frame][j] = m.ptab[m.pdir[c].frame][j]
          BY <1>3, <2>3, <3>2, <3>3
        <4> QED  BY <4>1 DEF Walk
      <3>4. CASE "P" \notin m.pdir[dir].attr /\ before = ZeroTable
        <4>1. Walk(m, q) = Zero
          BY <2>3, <3>4 DEF Walk
        <4>2. m1.ptab[m1.pdir[c].frame][j] = Zero /\ Zero.attr = {}
          BY <1>3, <2>1, <3>2, <3>4 DEF ZeroTable, Zero
        <4>3. Walk(m1, q) = Zero
          BY <1>3, <3>2, <4>2 DEF Walk
        <4> QED  BY <4>1, <4>3
      <3> QED  BY <3>3, <3>4 DEF FilledFrom
    <2> QED  BY <2>2, <2>3
  <1> QED  BY <1>7, <1>8 DEF cell

\* The assignments of insert_mapping().
Put(m, dir, entry, t, after) == [m EXCEPT !.pdir[dir] = entry, !.ptab[t] = after]

LEMMA PutMemory ==
    ASSUME NEW m \in Memories, NEW dir \in Dirs, NEW entry \in Entries,
           NEW t \in Frames, NEW after \in [0 .. PTES - 1 -> Entries],
           NEW m1, m1 = Put(m, dir, entry, t, after)
    PROVE  /\ m1 \in Memories /\ m1.tlb = m.tlb
           /\ m1.pdir = [m.pdir EXCEPT ![dir] = entry]
           /\ m1.ptab = [m.ptab EXCEPT ![t] = after]
  <1> DEFINE pdir == [m.pdir EXCEPT ![dir] = entry]
             ptab == [m.ptab EXCEPT ![t] = after]
  <1>1. m1 = [m EXCEPT !.pdir = pdir, !.ptab = ptab]
    BY DEF Put
  <1>2. pdir \in [Dirs -> Entries] /\ ptab \in [Frames -> [0 .. PTES - 1 -> Entries]]
    BY MemoryParts
  <1> HIDE DEF pdir, ptab
  <1>3. m1 \in Memories /\ m1.tlb = m.tlb /\ m1.pdir = pdir /\ m1.ptab = ptab
    BY <1>1, <1>2 DEF Memories
  <1> QED  BY <1>3 DEF pdir, ptab

\* What a call of insert_mapping() that does not run out of memory changes: the
\* page is mapped as asked, and every other as it was.
Mapped(s, r, page, cell) ==
    /\ r.mem.tlb = s.mem.tlb \cup Translations(r.mem)
    /\ Walk(r.mem, page) = cell
    /\ \A q \in Pages : q # page => Walk(r.mem, q) = Walk(s.mem, q)
    /\ TablesFrom(s.mem, r.mem, NextFrame(s.pool))

\* And one that does changes nothing but the pool, which has panicked.
Failed(s, r) == r.mem = s.mem /\ NextFrame(r.pool) = NextFrame(s.pool)

LEMMA InsertKeeps ==
    ASSUME NEW s, NEW D, Shape(s, D), LinkDirs \subseteq D,
           NEW page, NEW frame, NEW attr, Mapping(page, frame, attr, D),
           NEW r, r = InsertMapping(s, page, frame, attr)
    PROVE  /\ Shape(r, D)
           /\ NextFrame(s.pool) <= NextFrame(r.pool)
           /\ s.pool.oom => r.pool.oom
           /\ r.pool.oom => Failed(s, r)
           /\ ~ r.pool.oom => Mapped(s, r, page, [frame |-> frame, attr |-> attr])
  <1> DEFINE m == s.mem
             n == NextFrame(s.pool)
             dir == page \div PTES
             i == page % PTES
             cell == [frame |-> frame, attr |-> attr]
             fresh == "P" \notin m.pdir[dir].attr
             pool1 == IF fresh THEN AllocPage(s.pool, 1) ELSE s.pool
             t == IF fresh THEN n ELSE m.pdir[dir].frame
             before == IF fresh THEN ZeroTable ELSE m.ptab[t]
             entry == IF fresh THEN [frame |-> t, attr |-> {"P", "W"} \cup (attr \cap {"U"})]
                               ELSE m.pdir[dir]
             after == [before EXCEPT ![i] = cell]
             m1 == [m EXCEPT !.pdir[dir] = entry, !.ptab[t] = after]
  <1>1. r = IF pool1.oom THEN [s EXCEPT !.pool = pool1]
            ELSE [pool |-> pool1, mem |-> Walked(m1)]
    BY Zenon DEF InsertMapping
  <1>2. /\ s \in Stores /\ s.pool \in Pools /\ m \in Memories /\ PoolOK(s.pool)
        /\ TablesApart(m, n) /\ Rights(m, D)
    BY DEF Shape, Stores
  <1>3. /\ page \in Pages /\ dir \in Dirs /\ i \in 0 .. PTES - 1 /\ dir \notin D
        /\ frame \in Int /\ attr \in SUBSET {"P", "W", "U"}
        /\ "U" \in attr <=> dir < LINK_DIR
    BY PagePlace DEF Mapping
  <1>4. /\ n \in Int /\ PoolOK(pool1) /\ pool1 \in Pools
        /\ NextFrame(pool1) \in Int /\ n <= NextFrame(pool1)
        /\ s.pool.oom => pool1.oom
        /\ pool1.oom => NextFrame(pool1) = n
        /\ fresh /\ ~ pool1.oom => n \in Frames /\ n < NextFrame(pool1)
    <2>1. PoolOK(AllocPage(s.pool, 1)) /\ n \in Int
      BY <1>2, NextPage
    <2>2. PoolOK(pool1)
      BY <1>2, <2>1
    <2> HIDE DEF fresh
    <2>3. CASE fresh
      <3>1. pool1 = AllocPage(s.pool, 1)
        BY <2>3
      <3>2. NextFrame(pool1) = n + 1 \/ (pool1.oom /\ NextFrame(pool1) = n)
        BY <1>2, <3>1, NextPage
      <3>3. ~ pool1.oom => n \in Frames /\ NextFrame(pool1) = n + 1
        BY <1>2, <3>1, NextPage
      <3>4. pool1.oom => NextFrame(pool1) = n
        BY <1>2, <3>1, NextPage
      <3>5. s.pool.oom => pool1.oom
        BY <1>2, <3>1, NextPage
      <3> HIDE DEF n, pool1
      <3>6. NextFrame(pool1) \in Int /\ n <= NextFrame(pool1) /\ n < n + 1
        BY <2>1, <3>2
      <3> QED  BY <2>1, <2>2, <3>3, <3>4, <3>5, <3>6 DEF PoolOK, PoolInv
    <2>4. CASE ~ fresh
      <3>1. pool1 = s.pool
        BY <2>4
      <3>2. n <= n
        BY <2>1
      <3> QED  BY <2>1, <2>2, <2>4, <3>1, <3>2 DEF PoolOK, PoolInv
    <2> QED  BY <2>3, <2>4
  <1>5. CASE pool1.oom
    <2> HIDE DEF pool1
    <2>1. r = [s EXCEPT !.pool = pool1]
      BY <1>1, <1>5
    <2>2. r \in Stores /\ r.pool = pool1 /\ r.mem = m
      BY <1>2, <1>4, <2>1 DEF Stores
    <2> HIDE DEF m, n
    <2>3. TablesApart(r.mem, NextFrame(r.pool)) /\ Rights(r.mem, D)
      BY <1>2, <1>4, <1>5, <2>2
    <2> QED  BY <1>4, <1>5, <2>2, <2>3 DEF Shape, Failed, m, n
  <1>6. CASE ~ pool1.oom
    <2>1. /\ t \in Frames /\ t < NextFrame(pool1) /\ before \in [0 .. PTES - 1 -> Entries]
          /\ entry \in Entries /\ entry.frame = t
          /\ "P" \in entry.attr /\ "S" \notin entry.attr
          /\ "U" \in entry.attr <=> dir < LINK_DIR
          /\ FilledFrom(m, n, page, entry, t, before)
      <3> HIDE DEF pool1
      <3>1. CASE fresh
        <4>1. t = n /\ before = ZeroTable
          BY <3>1
        <4> DEFINE a == {"P", "W"} \cup (attr \cap {"U"})
        <4>2. a \in SUBSET {"P", "W", "U", "S", "G"} /\ "P" \in a /\ "S" \notin a
              /\ ("U" \in a <=> "U" \in attr)
          OBVIOUS
        <4>3. entry = [frame |-> t, attr |-> a]
          BY <3>1
        <4>4. t \in Frames /\ t \in Int /\ n <= t /\ t < NextFrame(pool1)
          BY <1>4, <1>6, <3>1, <4>1
        <4> HIDE DEF a, t, entry, before
        <4>5. entry \in Entries /\ entry.frame = t /\ entry.attr = a
          BY <4>2, <4>3, <4>4 DEF Entries
        <4>6. FilledFrom(m, n, page, entry, t, before)
          BY <3>1, <4>1, <4>4 DEF FilledFrom
        <4> QED  BY <1>3, <4>1, <4>2, <4>4, <4>5, <4>6, ZeroEntry
      <3>2. CASE ~ fresh
        <4>1. t = m.pdir[dir].frame /\ entry = m.pdir[dir] /\ before = m.ptab[t]
          BY <3>2
        <4>2. IsTable(m, dir)
          BY <1>2, <1>3, <3>2 DEF IsTable, Rights
        <4>3. t \in Frames /\ t < n
          BY <1>2, <1>3, <4>1, <4>2 DEF TablesApart
        <4>4. t \in Int
          BY <4>3 DEF Frames
        <4>5. "U" \in entry.attr <=> dir < LINK_DIR
          BY <1>2, <1>3, <4>1, <4>2 DEF Rights
        <4>6. entry \in Entries /\ before \in [0 .. PTES - 1 -> Entries]
          <5> HIDE DEF t, entry, before, m, dir
          <5> QED  BY <1>2, <1>3, <4>1, <4>3, MemoryParts
        <4>7. FilledFrom(m, n, page, entry, t, before)
          BY <4>1, <4>2 DEF FilledFrom
        <4> HIDE DEF t, n, entry
        <4>8. t < NextFrame(pool1)
          BY <1>4, <4>3, <4>4
        <4> QED  BY <4>1, <4>2, <4>3, <4>5, <4>6, <4>7, <4>8 DEF IsTable
      <3> QED  BY <3>1, <3>2
    <2>2. r = [pool |-> pool1, mem |-> Walked(m1)]
      BY <1>1, <1>6
    <2> HIDE DEF pool1, t, before, entry
    <2>3. after \in [0 .. PTES - 1 -> Entries] /\ cell \in Entries
      <3>1. cell \in Entries
        BY <1>3 DEF Entries
      <3> HIDE DEF cell, i
      <3> QED  BY <2>1, <3>1
    <2> HIDE DEF after, cell
    <2>4. /\ m1 \in Memories /\ m1.tlb = m.tlb
          /\ m1.pdir = [m.pdir EXCEPT ![dir] = entry]
          /\ m1.ptab = [m.ptab EXCEPT ![t] = after]
      <3> HIDE DEF m, dir
      <3>1. m1 = Put(m, dir, entry, t, after)
        BY DEF Put
      <3> HIDE DEF m1
      <3> QED  BY <1>2, <1>3, <2>1, <2>3, <3>1, PutMemory
    <2> HIDE DEF m1
    <2>5. Filled(m, m1, page, cell, entry, t, before)
      BY <2>1, <2>4 DEF Filled, after
    <2> DEFINE n1 == NextFrame(pool1)
    <2>6. n1 \in Int /\ n <= n1 /\ t < n1
      BY <1>4, <2>1
    <2> HIDE DEF m, n, n1
    <2>7. TablesApart(m1, n1) /\ Rights(m1, D)
      BY <1>2, <1>4, <2>1, <2>5, <2>6, FilledTables
    <2>8. /\ Walk(m1, page) = cell
          /\ \A q \in Pages : q # page => Walk(m1, q) = Walk(m, q)
      BY <1>2, <1>4, <2>1, <2>5, <2>6, FilledWalk DEF cell
    <2>9. /\ r.pool = pool1 /\ r.mem = Walked(m1)
          /\ r.mem \in Memories /\ r.mem.pdir = m1.pdir /\ r.mem.ptab = m1.ptab
          /\ r.mem.tlb = m.tlb \cup Translations(m1)
      BY <2>2, <2>4, <2>7, WalkedMemory
    <2>10. r \in Stores
      BY <1>4, <2>2, <2>9 DEF Stores
    <2>11. \A d : IsTable(r.mem, d) <=> IsTable(m1, d)
      BY <2>9 DEF IsTable
    <2>12. TablesApart(r.mem, n1) /\ Rights(r.mem, D)
      BY <2>7, <2>9, <2>11 DEF TablesApart, Rights
    <2>13. \A q : Walk(r.mem, q) = Walk(m1, q)
      BY <2>9, WalkDepends
    <2>14. Translations(r.mem) = Translations(m1)
      BY <2>13 DEF Translations
    <2>15. TablesFrom(m, r.mem, n)
      <3>1. t = n \/ (IsTable(m, dir) /\ t = m.pdir[dir].frame)
        BY <2>1, <1>3 DEF t, m, n, IsTable, Rights, entry
      <3> SUFFICES ASSUME NEW d \in Dirs, IsTable(r.mem, d)
                   PROVE \/ IsTable(m, d) /\ r.mem.pdir[d].frame = m.pdir[d].frame
                         \/ r.mem.pdir[d].frame = n
        BY DEF TablesFrom
      <3>2. CASE d = dir
        <4>1. r.mem.pdir[d] = entry
          BY <1>2, <1>3, <2>4, <2>9, <3>2, MemoryParts
        <4>2. r.mem.pdir[d].frame = t
          BY <2>1, <4>1
        <4> QED  BY <3>1, <3>2, <4>2
      <3>3. CASE d # dir
        <4>1. r.mem.pdir[d] = m.pdir[d]
          BY <1>2, <1>3, <2>4, <2>9, <3>3, MemoryParts
        <4> QED  BY <3>3, <4>1 DEF IsTable
      <3> QED  BY <3>2, <3>3
    <2>16. Mapped(s, r, page, cell)
      BY <2>8, <2>9, <2>13, <2>14, <2>15 DEF Mapped, m, n
    <2>17. Shape(r, D)
      BY <1>4, <2>9, <2>10, <2>12 DEF Shape, n1
    <2> QED  BY <1>4, <1>6, <2>9, <2>16, <2>17 DEF cell, n, n1
  <1> QED  BY <1>5, <1>6

-----------------------------------------------------------------------------
\* What mapping a page must not disturb.

\* What the processor cached for a page is present, and the tables back it.
Backed(m, page, t) ==
    /\ "P" \in t.attr
    /\ t.frame = Walk(m, page).frame /\ t.attr \subseteq Walk(m, page).attr

Coherent(m) == \A t \in m.tlb : Backed(m, t[1], t[2])

\* Only the kernel's own mapping outlives a flush of the whole TLB.
Globals(m) ==
    \A page \in Pages : "G" \in Walk(m, page).attr => page \div PTES \in LinkDirs

UserPage(m, page) == "U" \in Walk(m, page).attr

\* A frame behind the pool, where the boot module is.
Far(f) == POOL_E <= f * PAGE_SIZE

\* Frame f is one of the module's, or was taken from the pool for this page.
Held(m, n, page, f) ==
    \/ Far(f)
    \/ /\ f \in Frames /\ f < n
       /\ \A d \in Dirs : IsTable(m, d) => m.pdir[d].frame # f
       /\ \A q \in Pages : q # page /\ UserPage(m, q) => Walk(m, q).frame # f

Users(m, n) ==
    \A page \in Pages : UserPage(m, page) =>
        page < Split /\ Held(m, n, page, Walk(m, page).frame)

Safe(s) == Coherent(s.mem) /\ Globals(s.mem) /\ Users(s.mem, NextFrame(s.pool))

LEMMA StoreParts ==
    ASSUME NEW s, NEW D, Shape(s, D)
    PROVE  /\ s.pool \in Pools /\ s.mem \in Memories /\ PoolOK(s.pool)
           /\ NextFrame(s.pool) \in Int
           /\ TablesApart(s.mem, NextFrame(s.pool)) /\ Rights(s.mem, D)
  BY NextPage DEF Shape, Stores

\* The frames of the pool are not behind it.
LEMMA PoolNotFar ==
    ASSUME NEW f \in Frames
    PROVE  ~ Far(f)
  <1> DEFINE e == POOL_E \div PAGE_SIZE
  <1>1. PAGE_SIZE \in Nat \ {0} /\ POOL_E \in Nat /\ POOL_F \in Nat
    BY PoolAssumption
  <1>2. e \in Int /\ POOL_E = PAGE_SIZE * e + (POOL_E % PAGE_SIZE)
        /\ POOL_E % PAGE_SIZE \in Nat /\ POOL_F \div PAGE_SIZE \in Int
    BY <1>1
  <1>3. f \in Int /\ f < e
    BY <1>2 DEF Frames
  <1> HIDE DEF e
  <1>4. PAGE_SIZE * (f + 1) <= PAGE_SIZE * e
    BY <1>1, <1>2, <1>3
  <1>5. PAGE_SIZE * (f + 1) = f * PAGE_SIZE + PAGE_SIZE
    BY <1>1, <1>3
  <1>6. f * PAGE_SIZE \in Int /\ PAGE_SIZE * e \in Int
    BY <1>1, <1>2, <1>3
  <1> DEFINE x == f * PAGE_SIZE
             y == PAGE_SIZE * e
  <1> HIDE DEF x, y
  <1>7. x + PAGE_SIZE <= y /\ x \in Int /\ y \in Int
    BY <1>4, <1>5, <1>6 DEF x, y
  <1>8. y <= POOL_E
    BY <1>1, <1>2, <1>7 DEF y
  <1>9. x < POOL_E
    BY <1>1, <1>7, <1>8
  <1> QED  BY <1>1, <1>7, <1>9 DEF Far, x

LEMMA MappedSafe ==
    ASSUME NEW s, NEW r, NEW D, Shape(s, D), Shape(r, D), Safe(s),
           NextFrame(s.pool) <= NextFrame(r.pool),
           NEW page, NEW frame, NEW attr, Mapping(page, frame, attr, D),
           Mapped(s, r, page, [frame |-> frame, attr |-> attr]),
           \/ Walk(s.mem, page) = Zero
           \/ /\ Walk(s.mem, page).frame = frame
              /\ Walk(s.mem, page).attr \subseteq attr,
           "U" \in attr => Held(s.mem, NextFrame(s.pool), page, frame)
    PROVE  Safe(r)
  <1> DEFINE m == s.mem
             k == r.mem
             n == NextFrame(s.pool)
             n1 == NextFrame(r.pool)
  <1>1. /\ m \in Memories /\ k \in Memories /\ n \in Int /\ n1 \in Int /\ n <= n1
        /\ TablesApart(m, n) /\ TablesApart(k, n1)
    BY StoreParts
  <1>2. /\ page \in Pages /\ "P" \in attr /\ "G" \notin attr
        /\ "U" \in attr <=> page < Split
    BY PagePlace DEF Mapping
  <1>3. /\ k.tlb = m.tlb \cup Translations(k)
        /\ Walk(k, page).frame = frame /\ Walk(k, page).attr = attr
        /\ \A q \in Pages : q # page => Walk(k, q) = Walk(m, q)
        /\ TablesFrom(m, k, n)
    BY DEF Mapped
  <1>4. Coherent(m) /\ Globals(m) /\ Users(m, n)
    BY DEF Safe
  <1>5. \/ Walk(m, page) = Zero
        \/ Walk(m, page).frame = frame /\ Walk(m, page).attr \subseteq attr
    OBVIOUS
  <1>6. "U" \in attr => Held(m, n, page, frame)
    OBVIOUS
  <1> HIDE DEF m, k, n, n1
  <1>7. Coherent(k)
    <2> SUFFICES ASSUME NEW t \in k.tlb PROVE Backed(k, t[1], t[2])
      BY DEF Coherent
    <2>1. CASE t \in m.tlb
      <3>1. Backed(m, t[1], t[2]) /\ t[1] \in Pages
        BY <1>1, <1>4, <2>1, MemoryParts DEF Coherent
      <3>2. CASE t[1] = page
        <4>1. Walk(m, page) # Zero
          BY <1>2, <3>1, <3>2 DEF Backed, Zero
        <4> QED  BY <1>3, <1>5, <3>1, <3>2, <4>1 DEF Backed
      <3>3. CASE t[1] # page
        BY <1>3, <3>1, <3>3 DEF Backed
      <3> QED  BY <3>2, <3>3
    <2>2. CASE t \in Translations(k)
      <3>1. PICK q \in Pages : Walk(k, q) # Zero /\ t = <<q, Walk(k, q)>>
        BY <2>2 DEF Translations
      <3>2. "P" \in Walk(k, q).attr
        BY <1>1, <3>1, WalkEntry
      <3> QED  BY <3>1, <3>2 DEF Backed
    <2> QED  BY <1>3, <2>1, <2>2
  <1>8. Globals(k)
    BY <1>2, <1>3, <1>4 DEF Globals
  <1>9. Users(k, n1)
    <2> SUFFICES ASSUME NEW q \in Pages, UserPage(k, q)
                 PROVE  q < Split /\ Held(k, n1, q, Walk(k, q).frame)
      BY DEF Users
    <2> DEFINE f == Walk(k, q).frame
    <2>1. q < Split /\ Held(m, n, q, f)
      <3>1. CASE q = page
        BY <1>2, <1>3, <1>6, <3>1 DEF UserPage
      <3>2. CASE q # page
        BY <1>3, <1>4, <3>2 DEF Users, UserPage
      <3> QED  BY <3>1, <3>2
    <2>2. CASE ~ Far(f)
      <3>1. /\ f \in Frames /\ f < n
            /\ \A d \in Dirs : IsTable(m, d) => m.pdir[d].frame # f
            /\ \A p \in Pages : p # q /\ UserPage(m, p) => Walk(m, p).frame # f
        BY <2>1, <2>2 DEF Held
      <3>2. f \in Int /\ f # n /\ f < n1
        BY <1>1, <3>1 DEF Frames
      <3>3. \A d \in Dirs : IsTable(k, d) => k.pdir[d].frame # f
        BY <1>3, <3>1, <3>2 DEF TablesFrom
      <3>4. ASSUME NEW p \in Pages, p # q, UserPage(k, p) PROVE Walk(k, p).frame # f
        <4>1. CASE p # page
          BY <1>3, <3>1, <3>4, <4>1 DEF UserPage
        <4>2. CASE p = page
          <5>1. "U" \in attr /\ q # page /\ UserPage(m, q) /\ f = Walk(m, q).frame
            BY <1>3, <3>4, <4>2 DEF UserPage
          <5>2. Held(m, n, page, frame)
            BY <1>6, <5>1
          <5>3. Far(frame) => frame # f
            BY <2>2
          <5>4. ~ Far(frame) => frame # f
            BY <5>1, <5>2 DEF Held
          <5> QED  BY <1>3, <4>2, <5>3, <5>4
        <4> QED  BY <4>1, <4>2
      <3> QED  BY <2>1, <3>1, <3>2, <3>3, <3>4 DEF Held
    <2> QED  BY <2>1, <2>2 DEF Held
  <1> QED  BY <1>7, <1>8, <1>9 DEF Safe, k, n1

-----------------------------------------------------------------------------
\* The loops that map several pages.

\* The stores a loop over the pages of a segment goes through.
RangeTurns(f, s, page, frame, count, attr) ==
    /\ f[0] = s
    /\ \A i \in 1 .. count :
          f[i] = InsertMapping(f[i - 1], page + i - 1, frame + i - 1, attr)

LEMMA MapRangeTurns ==
    ASSUME NEW s, NEW D, Shape(s, D), LinkDirs \subseteq D,
           NEW count \in Nat, NEW page, NEW frame, NEW attr,
           \A i \in 1 .. count : Mapping(page + i - 1, frame + i - 1, attr, D)
    PROVE  \E f : /\ MapRange(s, page, frame, count, attr) = f[count]
                  /\ RangeTurns(f, s, page, frame, count, attr)
                  /\ \A i \in 0 .. count : Shape(f[i], D)
  <1> DEFINE S == {v \in Stores : Shape(v, D)}
             G == [i \in 1 .. count |->
                      [v \in S |-> InsertMapping(v, page + i - 1, frame + i - 1, attr)]]
             Turns(f) == f = [i \in 0 .. count |-> IF i = 0 THEN s
                 ELSE InsertMapping(f[i - 1], page + i - 1, frame + i - 1, attr)]
             F == CHOOSE f : Turns(f)
  <1>1. s \in S
    BY DEF Shape
  <1>2. ASSUME NEW i \in 1 .. count, NEW v \in S
        PROVE  InsertMapping(v, page + i - 1, frame + i - 1, attr) \in S
    <2>1. Shape(v, D) /\ Mapping(page + i - 1, frame + i - 1, attr, D)
      OBVIOUS
    <2> DEFINE p == page + i - 1
               g == frame + i - 1
               r == InsertMapping(v, p, g, attr)
    <2> HIDE DEF p, g
    <2>2. Shape(r, D)
      BY <2>1, InsertKeeps DEF p, g
    <2> QED  BY <2>2 DEF Shape, p, g
  <1>3. KeptIn(G, 1, count, S)
    <2>1. ASSUME NEW i \in 1 .. count, NEW v \in S PROVE G[i][v] \in S
      BY <1>2
    <2> HIDE DEF G
    <2> QED  BY <2>1 DEF KeptIn
  <1>4. PICK f \in [0 .. count -> S] :
           f[0] = s /\ \A i \in 1 .. count : f[i] = G[i][f[i - 1]]
    <2> HIDE DEF S, G
    <2> QED  BY <1>1, <1>3, LoopRuns
  <1>5. ASSUME NEW i \in 1 .. count
        PROVE  f[i] = InsertMapping(f[i - 1], page + i - 1, frame + i - 1, attr)
    <2>1. i - 1 \in 0 .. count
      OBVIOUS
    <2>2. f[i - 1] \in S
      BY <2>1
    <2>3. G[i][f[i - 1]] = InsertMapping(f[i - 1], page + i - 1, frame + i - 1, attr)
      BY <2>2
    <2> QED  BY <1>4, <2>3
  <1>6. Turns(f)
    <2> HIDE DEF S
    <2>1. \A i \in 0 .. count : i # 0 => i \in 1 .. count
      OBVIOUS
    <2>2. \A i \in 0 .. count : f[i] = IF i = 0 THEN s
              ELSE InsertMapping(f[i - 1], page + i - 1, frame + i - 1, attr)
      BY <1>4, <1>5, <2>1
    <2> QED  BY <2>2
  <1>7. MapRange(s, page, frame, count, attr) = F[count]
    BY DEF MapRange
  <1>8. Turns(F)
    <2> HIDE DEF Turns
    <2> QED  BY <1>6
  <1> HIDE DEF F
  <1>9. F[0] = s
    BY <1>8
  <1>10. ASSUME NEW i \in 1 .. count
         PROVE  F[i] = InsertMapping(F[i - 1], page + i - 1, frame + i - 1, attr)
    <2>1. i \in 0 .. count /\ i # 0
      OBVIOUS
    <2> QED  BY <1>8, <2>1
  <1>11. RangeTurns(F, s, page, frame, count, attr)
    BY <1>9, <1>10 DEF RangeTurns
  <1>12. \A i \in 0 .. count : F[i] \in S
    <2> DEFINE I == {i \in 0 .. count : F[i] \in S}
    <2>1. 0 \in I
      BY <1>1, <1>9
    <2>2. ASSUME NEW i \in 0 .. count, i # 0, i - 1 \in I PROVE i \in I
      <3>1. i \in 1 .. count /\ F[i - 1] \in S
        BY <2>2
      <3>2. F[i] \in S
        <4> HIDE DEF S
        <4> QED  BY <3>1, <1>10, <1>2
      <3> QED  BY <3>2
    <2>3. 0 .. count \subseteq I
      <3> HIDE DEF I
      <3> QED  BY <2>1, <2>2, IndicesInduction
    <2> QED  BY <2>3
  <1> QED  BY <1>7, <1>11, <1>12

\* One turn of SyscallMmap::handle: a page is taken, and mapped for the user.
UserRights == {"P", "W", "U"}

MmapTurn(v, page) ==
    LET p == AllocPage(v.pool, 1)
    IN  IF p.oom THEN [v EXCEPT !.pool = p]
        ELSE InsertMapping([v EXCEPT !.pool = p], page, NextFrame(v.pool), UserRights)

LEMMA PoolChanged ==
    ASSUME NEW v, NEW D, Shape(v, D), NEW p, PoolOK(p),
           NextFrame(v.pool) <= NextFrame(p), NEW w, w = [v EXCEPT !.pool = p]
    PROVE  /\ Shape(w, D) /\ w.pool = p /\ w.mem = v.mem
           /\ Safe(v) => Safe(w)
  <1> DEFINE n == NextFrame(v.pool)
             n1 == NextFrame(p)
  <1>1. v \in Stores /\ n \in Int /\ n1 \in Int /\ n <= n1
    BY NextPage DEF Shape
  <1>2. p \in Pools
    BY DEF PoolOK, PoolInv
  <1>3. w \in Stores /\ w.pool = p /\ w.mem = v.mem
    BY <1>1, <1>2 DEF Stores
  <1> HIDE DEF n, n1
  <1>4. ASSUME NEW f \in Frames, f < n PROVE f < n1
    BY <1>1, <1>4 DEF Frames
  <1>5. TablesApart(v.mem, n) => TablesApart(v.mem, n1)
    BY <1>4 DEF TablesApart
  <1>6. Users(v.mem, n) => Users(v.mem, n1)
    BY <1>4 DEF Users, Held
  <1> QED  BY <1>3, <1>5, <1>6 DEF Shape, Safe, n, n1

\* Above none of the user's pages is a superpage, nor a page of the kernel.
RunDirs == LinkDirs \cup {REMAP_DIR}

LEMMA MappingLow ==
    ASSUME NEW page \in Pages, page < Split, NEW frame \in Int, NEW attr,
           attr \in SUBSET {"P", "W", "U"}, "P" \in attr, "U" \in attr
    PROVE  Mapping(page, frame, attr, RunDirs)
  <1> DEFINE d == page \div PTES
  <1>1. d < LINK_DIR /\ d \in Dirs
    BY PagePlace
  <1> HIDE DEF d
  <1>2. d \notin RunDirs
    BY <1>1, MemoryAssumption DEF RunDirs, LinkDirs, Dirs
  <1> QED  BY <1>1, <1>2 DEF Mapping, d

\* r is v with cells of C in the pages from lo on, up to hi or to where the
\* pool was exhausted.
Added(v, r, lo, hi, C) ==
    /\ NextFrame(v.pool) <= NextFrame(r.pool)
    /\ v.pool.oom => r.pool.oom
    /\ \A q \in Pages : \/ Walk(r.mem, q) = Walk(v.mem, q)
                        \/ lo <= q /\ q < hi /\ Walk(r.mem, q) \in C[q]
    /\ ~ r.pool.oom =>
          \A q \in Pages : lo <= q /\ q < hi => Walk(r.mem, q) \in C[q]

LEMMA AddedByInsert ==
    ASSUME NEW s, NEW D, Shape(s, D), LinkDirs \subseteq D,
           NEW page, NEW frame, NEW attr, Mapping(page, frame, attr, D),
           NEW C, [frame |-> frame, attr |-> attr] \in C[page],
           NEW r, r = InsertMapping(s, page, frame, attr)
    PROVE  Added(s, r, page, page + 1, C)
  <1>1. /\ NextFrame(s.pool) <= NextFrame(r.pool)
        /\ s.pool.oom => r.pool.oom
        /\ r.pool.oom => Failed(s, r)
        /\ ~ r.pool.oom => Mapped(s, r, page, [frame |-> frame, attr |-> attr])
    BY InsertKeeps
  <1>2. page \in Int /\ \A q \in Pages : q \in Int /\ (page <= q /\ q < page + 1 => q = page)
    BY DEF Mapping, Pages
  <1>3. page <= page /\ page < page + 1
    BY <1>2
  <1>4. CASE r.pool.oom
    BY <1>1, <1>4 DEF Added, Failed
  <1>5. CASE ~ r.pool.oom
    <2>1. /\ Walk(r.mem, page) \in C[page]
          /\ \A q \in Pages : q # page => Walk(r.mem, q) = Walk(s.mem, q)
      BY <1>1, <1>5 DEF Mapped
    <2> QED  BY <1>1, <1>2, <1>3, <1>5, <2>1 DEF Added
  <1> QED  BY <1>4, <1>5

LEMMA MmapTurnKeeps ==
    ASSUME NEW v, Shape(v, RunDirs), NEW page \in Pages, page < Split,
           NEW C, \A f \in Int : [frame |-> f, attr |-> UserRights] \in C[page],
           NEW r, r = MmapTurn(v, page)
    PROVE  /\ Shape(r, RunDirs)
           /\ Added(v, r, page, page + 1, C)
           /\ Safe(v) /\ Walk(v.mem, page) = Zero => Safe(r)
  <1> DEFINE p == AllocPage(v.pool, 1)
             n == NextFrame(v.pool)
             w == [v EXCEPT !.pool = p]
  <1>1. /\ v.pool \in Pools /\ v.mem \in Memories /\ PoolOK(v.pool) /\ n \in Int
        /\ TablesApart(v.mem, n)
    BY StoreParts
  <1>2. /\ PoolOK(p) /\ n <= NextFrame(p) /\ (v.pool.oom => p.oom)
        /\ ~ p.oom => n \in Frames /\ n < NextFrame(p)
    <2>1. /\ PoolOK(p) /\ (v.pool.oom => p.oom)
          /\ ~ p.oom => n \in Frames /\ NextFrame(p) = n + 1
          /\ p.oom => NextFrame(p) = n
      BY <1>1, NextPage
    <2> HIDE DEF p, n
    <2> QED  BY <1>1, <2>1
  <1>3. /\ Shape(w, RunDirs) /\ w.pool = p /\ w.mem = v.mem
        /\ Safe(v) => Safe(w)
    <2> HIDE DEF p
    <2> QED  BY <1>2, PoolChanged
  <1>4. LinkDirs \subseteq RunDirs
    BY DEF RunDirs
  <1>5. r = IF p.oom THEN w ELSE InsertMapping(w, page, n, UserRights)
    BY DEF MmapTurn
  <1> HIDE DEF w, p
  <1>6. CASE p.oom
    <2>1. r = w
      BY <1>5, <1>6
    <2> QED  BY <1>2, <1>3, <1>6, <2>1 DEF Added
  <1>7. CASE ~ p.oom
    <2>1. r = InsertMapping(w, page, n, UserRights)
      BY <1>5, <1>7
    <2>2. Mapping(page, n, UserRights, RunDirs)
      BY <1>1, MappingLow DEF UserRights
    <2>3. [frame |-> n, attr |-> UserRights] \in C[page]
      BY <1>1
    <2> HIDE DEF n
    <2>4. Added(w, r, page, page + 1, C)
      BY <1>3, <1>4, <2>1, <2>2, <2>3, AddedByInsert
    <2>5. /\ Shape(r, RunDirs) /\ NextFrame(w.pool) <= NextFrame(r.pool)
          /\ r.pool.oom => Failed(w, r)
          /\ ~ r.pool.oom => Mapped(w, r, page, [frame |-> n, attr |-> UserRights])
      BY <1>3, <1>4, <2>1, <2>2, InsertKeeps
    <2>6. Added(v, r, page, page + 1, C)
      <3>1. NextFrame(p) \in Int /\ NextFrame(r.pool) \in Int
        BY <1>2, <2>5, NextPage DEF Shape
      <3>2. n <= NextFrame(r.pool)
        BY <1>1, <1>2, <1>3, <2>5, <3>1
      <3>3. v.pool.oom => r.pool.oom
        BY <1>2, <1>7
      <3> QED  BY <1>3, <2>4, <3>2, <3>3 DEF Added, n
    <2>7. ASSUME Safe(v), Walk(v.mem, page) = Zero PROVE Safe(r)
      <3>1. CASE r.pool.oom
        <4>1. Safe(w) /\ Failed(w, r)
          BY <1>3, <2>5, <2>7, <3>1
        <4> QED  BY <4>1 DEF Safe, Failed
      <3>2. CASE ~ r.pool.oom
        <4>1. Held(w.mem, NextFrame(w.pool), page, n)
          <5>1. n \in Frames /\ n < NextFrame(w.pool) /\ ~ Far(n)
            BY <1>2, <1>3, <1>7, PoolNotFar
          <5>2. \A d \in Dirs : IsTable(w.mem, d) => w.mem.pdir[d].frame # n
            <6>1. \A d \in Dirs : IsTable(v.mem, d) =>
                     v.mem.pdir[d].frame \in Frames /\ v.mem.pdir[d].frame < n
              BY <1>1 DEF TablesApart
            <6>2. \A f \in Frames : f < n => f # n
              BY <1>1 DEF Frames
            <6> QED  BY <1>3, <6>1, <6>2
          <5>3. \A q \in Pages : UserPage(w.mem, q) => Walk(w.mem, q).frame # n
            <6> SUFFICES ASSUME NEW q \in Pages, UserPage(v.mem, q)
                         PROVE  Walk(v.mem, q).frame # n
              BY <1>3
            <6>1. Held(v.mem, n, q, Walk(v.mem, q).frame)
              BY <2>7 DEF Safe, Users, n
            <6>2. \A f \in Frames : f < n => f # n
              BY <1>1 DEF Frames
            <6> QED  BY <5>1, <6>1, <6>2 DEF Held
          <5> QED  BY <5>1, <5>2, <5>3 DEF Held
        <4>2. Walk(w.mem, page) = Zero
          BY <1>3, <2>7
        <4>3. Mapped(w, r, page, [frame |-> n, attr |-> UserRights]) /\ Safe(w)
          BY <1>3, <2>5, <2>7, <3>2
        <4> QED  BY <1>3, <2>2, <2>5, <4>1, <4>2, <4>3, MappedSafe
      <3> QED  BY <3>1, <3>2
    <2> QED  BY <2>5, <2>6, <2>7
  <1> QED  BY <1>6, <1>7

LEMMA AddedNone ==
    ASSUME NEW s, NEW D, Shape(s, D), NEW lo \in Int, NEW C
    PROVE  Added(s, s, lo, lo, C)
  <1>1. NextFrame(s.pool) \in Int
    BY StoreParts
  <1>2. \A q \in Pages : ~ (lo <= q /\ q < lo)
    BY DEF Pages
  <1> QED  BY <1>1, <1>2 DEF Added

LEMMA AddedOneMore ==
    ASSUME NEW s, NEW v, NEW r, NEW D, Shape(s, D), Shape(v, D), Shape(r, D),
           NEW lo \in Int, NEW hi \in Int, lo <= hi, NEW C,
           Added(s, v, lo, hi, C), Added(v, r, hi, hi + 1, C)
    PROVE  Added(s, r, lo, hi + 1, C)
  <1>1. NextFrame(s.pool) <= NextFrame(r.pool)
    <2>1. /\ NextFrame(s.pool) \in Int /\ NextFrame(v.pool) \in Int
          /\ NextFrame(r.pool) \in Int
      BY StoreParts
    <2>2. NextFrame(s.pool) <= NextFrame(v.pool) /\ NextFrame(v.pool) <= NextFrame(r.pool)
      BY DEF Added
    <2> QED  BY <2>1, <2>2
  <1>2. s.pool.oom => r.pool.oom
    BY DEF Added
  <1>3. \A q \in Pages : q \in Int
    BY DEF Pages
  <1>4. \A q \in Int : /\ lo <= q /\ q < hi => lo <= q /\ q < hi + 1
                       /\ hi <= q /\ q < hi + 1 => lo <= q /\ q < hi + 1
                       /\ lo <= q /\ q < hi + 1 => q < hi \/ hi <= q
    OBVIOUS
  <1>5. ASSUME NEW q \in Pages
        PROVE  \/ Walk(r.mem, q) = Walk(s.mem, q)
               \/ lo <= q /\ q < hi + 1 /\ Walk(r.mem, q) \in C[q]
    <2>1. \/ Walk(v.mem, q) = Walk(s.mem, q)
          \/ lo <= q /\ q < hi /\ Walk(v.mem, q) \in C[q]
      BY DEF Added
    <2>2. \/ Walk(r.mem, q) = Walk(v.mem, q)
          \/ hi <= q /\ q < hi + 1 /\ Walk(r.mem, q) \in C[q]
      BY DEF Added
    <2> QED  BY <1>3, <1>4, <2>1, <2>2
  <1>6. ASSUME ~ r.pool.oom, NEW q \in Pages, lo <= q, q < hi + 1
        PROVE  Walk(r.mem, q) \in C[q]
    <2>1. ~ v.pool.oom
      BY <1>6 DEF Added
    <2>2. CASE hi <= q
      BY <1>6, <2>2 DEF Added
    <2>3. CASE q < hi
      <3>1. Walk(v.mem, q) \in C[q]
        BY <1>6, <2>1, <2>3 DEF Added
      <3>2. \/ Walk(r.mem, q) = Walk(v.mem, q)
            \/ hi <= q /\ q < hi + 1 /\ Walk(r.mem, q) \in C[q]
        BY DEF Added
      <3> QED  BY <3>1, <3>2
    <2> QED  BY <1>3, <1>4, <1>6, <2>2, <2>3
  <1> QED  BY <1>1, <1>2, <1>5, <1>6 DEF Added

\* Each turn adding the next page, all of them add all pages.
LEMMA AddedThrough ==
    ASSUME NEW f, NEW D, NEW count \in Nat, NEW lo \in Int, NEW C,
           \A i \in 0 .. count : Shape(f[i], D),
           \A i \in 1 .. count : Added(f[i - 1], f[i], lo + i - 1, lo + i, C)
    PROVE  \A i \in 0 .. count : Added(f[0], f[i], lo, lo + i, C)
  <1> DEFINE I == {i \in 0 .. count : Added(f[0], f[i], lo, lo + i, C)}
  <1>0. 0 \in 0 .. count /\ lo + 0 = lo
    OBVIOUS
  <1>1. 0 \in I
    <2>1. Added(f[0], f[0], lo, lo, C)
      BY <1>0, AddedNone
    <2> QED  BY <1>0, <2>1
  <1>2. ASSUME NEW i \in 0 .. count, i # 0, i - 1 \in I PROVE i \in I
    <2> DEFINE hi == lo + i - 1
               j == i - 1
    <2>1. i \in 1 .. count /\ j \in 0 .. count /\ 0 \in 0 .. count
          /\ hi \in Int /\ lo <= hi
          /\ hi + 1 = lo + i /\ lo + j = hi
      BY <1>2
    <2>2. Added(f[j], f[i], lo + i - 1, lo + i, C)
      BY <2>1
    <2>3. Added(f[0], f[j], lo, lo + j, C)
      BY <1>2
    <2> HIDE DEF hi
    <2>4. Added(f[j], f[i], hi, hi + 1, C)
      BY <2>1, <2>2 DEF hi
    <2>5. Added(f[0], f[j], lo, hi, C)
      BY <2>1, <2>3
    <2> HIDE DEF j
    <2>6. Added(f[0], f[i], lo, hi + 1, C)
      BY <2>1, <2>4, <2>5, AddedOneMore
    <2> QED  BY <2>1, <2>6
  <1>3. 0 .. count \subseteq I
    <2>1. 0 \in Nat /\ 0 <= count
      OBVIOUS
    <2> HIDE DEF I
    <2> QED  BY <1>1, <1>2, <2>1, IndicesInduction
  <1> QED  BY <1>3

\* The stores SyscallMmap::handle goes through.
LEMMA MmapTurns ==
    ASSUME NEW s, Shape(s, RunDirs), NEW count \in Nat, NEW page,
           \A i \in 1 .. count : page + i - 1 \in Pages /\ page + i - 1 < Split
    PROVE  \E f : /\ Mmap(s, count, page) = f[count] /\ f[0] = s
                  /\ \A i \in 1 .. count : f[i] = MmapTurn(f[i - 1], page + i - 1)
                  /\ \A i \in 0 .. count : Shape(f[i], RunDirs)
  <1> DEFINE S == {v \in Stores : Shape(v, RunDirs)}
             G == [i \in 1 .. count |-> [v \in S |-> MmapTurn(v, page + i - 1)]]
             Turns(f) == f = [i \in 0 .. count |-> IF i = 0 THEN s
                                  ELSE MmapTurn(f[i - 1], page + i - 1)]
             F == CHOOSE f : Turns(f)
  <1>1. s \in S
    BY DEF Shape
  <1>2. ASSUME NEW i \in 1 .. count, NEW v \in S
        PROVE  MmapTurn(v, page + i - 1) \in S
    <2>1. Shape(v, RunDirs) /\ page + i - 1 \in Pages /\ page + i - 1 < Split
      OBVIOUS
    <2> DEFINE p == page + i - 1
               r == MmapTurn(v, p)
               C == [q \in Pages |-> {[frame |-> g, attr |-> UserRights] : g \in Int}]
    <2> HIDE DEF p
    <2>2. \A g \in Int : [frame |-> g, attr |-> UserRights] \in C[p]
      BY <2>1 DEF p
    <2> HIDE DEF C
    <2>3. Shape(r, RunDirs)
      BY <2>1, <2>2, MmapTurnKeeps DEF p
    <2> QED  BY <2>3 DEF Shape, p
  <1>3. KeptIn(G, 1, count, S)
    <2>1. ASSUME NEW i \in 1 .. count, NEW v \in S PROVE G[i][v] \in S
      BY <1>2
    <2> HIDE DEF G
    <2> QED  BY <2>1 DEF KeptIn
  <1>4. PICK f \in [0 .. count -> S] :
           f[0] = s /\ \A i \in 1 .. count : f[i] = G[i][f[i - 1]]
    <2> HIDE DEF S, G
    <2> QED  BY <1>1, <1>3, LoopRuns
  <1>5. ASSUME NEW i \in 1 .. count
        PROVE  f[i] = MmapTurn(f[i - 1], page + i - 1)
    <2>1. i - 1 \in 0 .. count
      OBVIOUS
    <2>2. f[i - 1] \in S
      BY <2>1
    <2>3. G[i][f[i - 1]] = MmapTurn(f[i - 1], page + i - 1)
      BY <2>2
    <2> QED  BY <1>4, <2>3
  <1>6. Turns(f)
    <2> HIDE DEF S
    <2>1. \A i \in 0 .. count : i # 0 => i \in 1 .. count
      OBVIOUS
    <2>2. \A i \in 0 .. count : f[i] = IF i = 0 THEN s
              ELSE MmapTurn(f[i - 1], page + i - 1)
      BY <1>4, <1>5, <2>1
    <2> QED  BY <2>2
  <1>7. Mmap(s, count, page) = F[count]
    BY DEF Mmap, MmapTurn, UserRights
  <1>8. Turns(F)
    <2> HIDE DEF Turns
    <2> QED  BY <1>6
  <1> HIDE DEF F
  <1>9. F[0] = s
    BY <1>8
  <1>10. \A i \in 1 .. count : F[i] = MmapTurn(F[i - 1], page + i - 1)
    <2>1. ASSUME NEW i \in 1 .. count PROVE F[i] = MmapTurn(F[i - 1], page + i - 1)
      <3>1. i \in 0 .. count /\ i # 0
        OBVIOUS
      <3> QED  BY <1>8, <3>1
    <2> QED  BY <2>1
  <1>11. \A i \in 0 .. count : F[i] \in S
    <2> DEFINE I == {i \in 0 .. count : F[i] \in S}
    <2>1. 0 \in I
      BY <1>1, <1>9
    <2>2. ASSUME NEW i \in 0 .. count, i # 0, i - 1 \in I PROVE i \in I
      <3>1. i \in 1 .. count /\ F[i - 1] \in S
        BY <2>2
      <3>2. F[i] \in S
        <4> HIDE DEF S
        <4> QED  BY <3>1, <1>10, <1>2
      <3> QED  BY <3>2
    <2>3. 0 .. count \subseteq I
      <3>1. 0 \in Nat /\ 0 <= count
        OBVIOUS
      <3> HIDE DEF I
      <3> QED  BY <2>1, <2>2, <3>1, IndicesInduction
    <2> QED  BY <2>3
  <1> QED  BY <1>7, <1>9, <1>10, <1>11

\* What Mmap() puts into a page.
MmapCells == [q \in Pages |-> {[frame |-> g, attr |-> UserRights] : g \in Int}]

\* SYS_MMAP of pages of the user that show nothing yet: all of them show fresh
\* frames, unless the pool is exhausted, and nothing else changes.
LEMMA MmapKeeps ==
    ASSUME NEW s, Shape(s, RunDirs), Safe(s), NEW count \in Nat, NEW page \in Int,
           \A q \in page .. page + count - 1 :
              q \in Pages /\ q < Split /\ Walk(s.mem, q) = Zero,
           NEW r, r = Mmap(s, count, page)
    PROVE  /\ Shape(r, RunDirs) /\ Safe(r)
           /\ Added(s, r, page, page + count, MmapCells)
  <1> DEFINE C == MmapCells
  <1>1. \A i \in 1 .. count :
           /\ page + i - 1 \in Pages /\ page + i - 1 < Split
           /\ Walk(s.mem, page + i - 1) = Zero
    <2>1. \A i \in 1 .. count : page + i - 1 \in page .. page + count - 1
      OBVIOUS
    <2> QED  BY <2>1
  <1>2. PICK f : /\ Mmap(s, count, page) = f[count] /\ f[0] = s
                 /\ \A i \in 1 .. count : f[i] = MmapTurn(f[i - 1], page + i - 1)
                 /\ \A i \in 0 .. count : Shape(f[i], RunDirs)
    BY <1>1, MmapTurns
  <1>3. ASSUME NEW i \in 1 .. count
        PROVE  /\ Added(f[i - 1], f[i], page + i - 1, page + i, C)
               /\ Safe(f[i - 1]) /\ Walk(f[i - 1].mem, page + i - 1) = Zero => Safe(f[i])
    <2> DEFINE p == page + i - 1
               v == f[i - 1]
               w == f[i]
    <2>1. i - 1 \in 0 .. count /\ p + 1 = page + i
      OBVIOUS
    <2>2. p \in Pages /\ p < Split /\ Shape(v, RunDirs) /\ w = MmapTurn(v, p)
      BY <1>1, <1>2, <2>1
    <2>3. \A g \in Int : [frame |-> g, attr |-> UserRights] \in C[p]
      BY <2>2 DEF MmapCells
    <2> HIDE DEF C, p, v, w
    <2>4. Added(v, w, p, p + 1, C) /\ (Safe(v) /\ Walk(v.mem, p) = Zero => Safe(w))
      BY <2>2, <2>3, MmapTurnKeeps
    <2> QED  BY <2>1, <2>4 DEF p, v, w
  <1> HIDE DEF C
  <1>4. \A i \in 0 .. count : Added(s, f[i], page, page + i, C)
    BY <1>2, <1>3, AddedThrough
  <1>5. \A i \in 0 .. count : Safe(f[i])
    <2> DEFINE I == {i \in 0 .. count : Safe(f[i])}
    <2>1. 0 \in I
      BY <1>2
    <2>2. ASSUME NEW i \in 0 .. count, i # 0, i - 1 \in I PROVE i \in I
      <3> DEFINE j == i - 1
                 p == page + j
      <3>1. i \in 1 .. count /\ j \in 0 .. count /\ p = page + i - 1 /\ ~ p < page + j
        BY <2>2
      <3>2. p \in Pages /\ Walk(s.mem, p) = Zero
        BY <1>1, <3>1
      <3>3. Added(s, f[j], page, page + j, C)
        BY <1>4, <3>1
      <3>4. Walk(f[j].mem, p) = Walk(s.mem, p)
        <4> HIDE DEF p, j
        <4> QED  BY <3>1, <3>2, <3>3 DEF Added
      <3>5. Safe(f[i])
        BY <1>3, <2>2, <3>1, <3>2, <3>4
      <3> QED  BY <3>5
    <2>3. 0 .. count \subseteq I
      <3>1. 0 \in Nat /\ 0 <= count
        OBVIOUS
      <3> HIDE DEF I
      <3> QED  BY <2>1, <2>2, <3>1, IndicesInduction
    <2> QED  BY <2>3
  <1>6. count \in 0 .. count
    OBVIOUS
  <1>7. r = f[count]
    BY <1>2
  <1>8. Shape(f[count], RunDirs) /\ Safe(f[count])
        /\ Added(s, f[count], page, page + count, C)
    BY <1>2, <1>4, <1>5, <1>6
  <1> QED  BY <1>7, <1>8 DEF C

LEMMA FarUp ==
    ASSUME NEW f \in Int, NEW g \in Int, f <= g, Far(f)
    PROVE  Far(g)
  <1>1. PAGE_SIZE \in Nat /\ POOL_E \in Nat
    BY PoolAssumption
  <1>2. f * PAGE_SIZE <= g * PAGE_SIZE /\ f * PAGE_SIZE \in Int /\ g * PAGE_SIZE \in Int
    BY <1>1
  <1> DEFINE x == f * PAGE_SIZE
             y == g * PAGE_SIZE
  <1> HIDE DEF x, y
  <1>3. x <= y /\ x \in Int /\ y \in Int
    BY <1>2 DEF x, y
  <1>4. POOL_E <= x => POOL_E <= y
    BY <1>1, <1>3
  <1> QED  BY <1>4 DEF Far, x, y

\* What root_invoke() puts into the pages of a segment.
RangeCells(page, frame, attr) ==
    [q \in Pages |-> {[frame |-> frame + q - page, attr |-> attr]}]

\* The pages of a segment come to show the module. Those that show some of it
\* already must show the same frame, with no right the segment does not give.
LEMMA MapRangeKeeps ==
    ASSUME NEW s, Shape(s, RunDirs), Safe(s), NEW count \in Nat, NEW page \in Int,
           NEW frame \in Int, Far(frame),
           NEW attr, attr \in SUBSET {"P", "W", "U"}, "P" \in attr, "U" \in attr,
           \A q \in page .. page + count - 1 :
              /\ q \in Pages /\ q < Split
              /\ \/ Walk(s.mem, q) = Zero
                 \/ /\ Walk(s.mem, q).frame = frame + q - page
                    /\ Walk(s.mem, q).attr \subseteq attr,
           NEW r, r = MapRange(s, page, frame, count, attr)
    PROVE  /\ Shape(r, RunDirs) /\ Safe(r)
           /\ Added(s, r, page, page + count, RangeCells(page, frame, attr))
  <1> DEFINE C == RangeCells(page, frame, attr)
             Place(i) == page + i - 1
             Frame(i) == frame + i - 1
  <1>1. ASSUME NEW i \in 1 .. count
        PROVE  /\ Mapping(page + i - 1, frame + i - 1, attr, RunDirs)
               /\ [frame |-> frame + i - 1, attr |-> attr] \in C[page + i - 1]
               /\ page + i - 1 \in Pages
               /\ Far(frame + i - 1)
               /\ \/ Walk(s.mem, page + i - 1) = Zero
                  \/ /\ Walk(s.mem, page + i - 1).frame = frame + i - 1
                     /\ Walk(s.mem, page + i - 1).attr \subseteq attr
    <2> DEFINE p == page + i - 1
               g == frame + i - 1
    <2>1. /\ p \in page .. page + count - 1 /\ g \in Int /\ g = frame + p - page
          /\ frame <= g
      OBVIOUS
    <2> HIDE DEF p
    <2>2. /\ p \in Pages /\ p < Split
          /\ \/ Walk(s.mem, p) = Zero
             \/ Walk(s.mem, p).frame = frame + p - page /\ Walk(s.mem, p).attr \subseteq attr
      BY <2>1
    <2>3. [frame |-> frame + p - page, attr |-> attr] \in C[p]
      BY <2>2 DEF RangeCells
    <2>4. [frame |-> g, attr |-> attr] \in C[p]
      BY <2>1, <2>3
    <2> HIDE DEF g, C
    <2>5. Mapping(p, g, attr, RunDirs) /\ Far(g)
      BY <2>1, <2>2, MappingLow, FarUp
    <2> QED  BY <2>1, <2>2, <2>4, <2>5 DEF p, g
  <1> HIDE DEF C
  <1>2. LinkDirs \subseteq RunDirs
    BY DEF RunDirs
  <1>3. PICK f : /\ MapRange(s, page, frame, count, attr) = f[count]
                 /\ RangeTurns(f, s, page, frame, count, attr)
                 /\ \A i \in 0 .. count : Shape(f[i], RunDirs)
    BY <1>1, <1>2, MapRangeTurns
  <1>4. /\ f[0] = s
        /\ \A i \in 1 .. count :
              f[i] = InsertMapping(f[i - 1], page + i - 1, frame + i - 1, attr)
    BY <1>3 DEF RangeTurns
  <1>5. ASSUME NEW i \in 1 .. count
        PROVE  /\ Added(f[i - 1], f[i], page + i - 1, page + i, C)
               /\ /\ Safe(f[i - 1])
                  /\ \/ Walk(f[i - 1].mem, page + i - 1) = Zero
                     \/ /\ Walk(f[i - 1].mem, page + i - 1).frame = frame + i - 1
                        /\ Walk(f[i - 1].mem, page + i - 1).attr \subseteq attr
                  => Safe(f[i])
    <2> DEFINE p == page + i - 1
               g == frame + i - 1
               v == f[i - 1]
               w == f[i]
    <2>1. i - 1 \in 0 .. count /\ p + 1 = page + i
      OBVIOUS
    <2>2. /\ Shape(v, RunDirs) /\ w = InsertMapping(v, p, g, attr)
          /\ Mapping(p, g, attr, RunDirs) /\ [frame |-> g, attr |-> attr] \in C[p]
          /\ Far(g)
      BY <1>1, <1>3, <1>4, <2>1
    <2> HIDE DEF p, g, v, w
    <2>3. Added(v, w, p, p + 1, C)
      BY <1>2, <2>2, AddedByInsert
    <2>4. /\ Shape(w, RunDirs) /\ NextFrame(v.pool) <= NextFrame(w.pool)
          /\ w.pool.oom => Failed(v, w)
          /\ ~ w.pool.oom => Mapped(v, w, p, [frame |-> g, attr |-> attr])
      BY <1>2, <2>2, InsertKeeps
    <2>5. ASSUME Safe(v), \/ Walk(v.mem, p) = Zero
                          \/ Walk(v.mem, p).frame = g /\ Walk(v.mem, p).attr \subseteq attr
          PROVE  Safe(w)
      <3>1. CASE w.pool.oom
        BY <2>4, <2>5, <3>1 DEF Safe, Failed
      <3>2. CASE ~ w.pool.oom
        <4>1. Held(v.mem, NextFrame(v.pool), p, g)
          BY <2>2 DEF Held
        <4> QED  BY <2>2, <2>4, <2>5, <3>2, <4>1, MappedSafe
      <3> QED  BY <3>1, <3>2
    <2> QED  BY <2>1, <2>3, <2>5 DEF p, g, v, w
  <1>6. \A i \in 0 .. count : Added(s, f[i], page, page + i, C)
    BY <1>3, <1>4, <1>5, AddedThrough
  <1>7. \A i \in 0 .. count : Safe(f[i])
    <2> DEFINE I == {i \in 0 .. count : Safe(f[i])}
    <2>1. 0 \in I
      BY <1>4
    <2>2. ASSUME NEW i \in 0 .. count, i # 0, i - 1 \in I PROVE i \in I
      <3> DEFINE j == i - 1
                 p == page + j
      <3>1. i \in 1 .. count /\ j \in 0 .. count /\ p = page + i - 1 /\ ~ p < page + j
        BY <2>2
      <3>2. p \in Pages
        BY <1>1, <3>1
      <3>3. Added(s, f[j], page, page + j, C)
        BY <1>6, <3>1
      <3>4. Walk(f[j].mem, p) = Walk(s.mem, p)
        <4> HIDE DEF p, j
        <4> QED  BY <3>1, <3>2, <3>3 DEF Added
      <3>5. Safe(f[i])
        BY <1>1, <1>5, <2>2, <3>1, <3>4
      <3> QED  BY <3>5
    <2>3. 0 .. count \subseteq I
      <3>1. 0 \in Nat /\ 0 <= count
        OBVIOUS
      <3> HIDE DEF I
      <3> QED  BY <2>1, <2>2, <3>1, IndicesInduction
    <2> QED  BY <2>3
  <1>8. count \in 0 .. count
    OBVIOUS
  <1>9. r = f[count]
    BY <1>3
  <1>10. Shape(f[count], RunDirs) /\ Safe(f[count])
         /\ Added(s, f[count], page, page + count, C)
    BY <1>3, <1>6, <1>7, <1>8
  <1> QED  BY <1>9, <1>10 DEF C

-----------------------------------------------------------------------------
\* Entries of the directory that are taken away, or given to remap().

\* k is m after the entries X of the directory were emptied or made superpages
\* of the kernel, and what was cached for them was flushed.
Replaced(m, k, X) ==
    /\ k \in Memories /\ k.ptab = m.ptab
    /\ \A d \in Dirs : d \notin X => k.pdir[d] = m.pdir[d]
    /\ \A d \in X : /\ "U" \notin k.pdir[d].attr /\ "G" \notin k.pdir[d].attr
                    /\ "P" \in k.pdir[d].attr => "S" \in k.pdir[d].attr
    /\ \A t \in k.tlb : \/ t \in Translations(k)
                        \/ t \in m.tlb /\ t[1] \div PTES \notin X

MemSet(s, k) == [s EXCEPT !.mem = k]

\* The superpages of E may be those of D, outside of X, and those of k in X.
SupersIn(k, X, D, E) ==
    /\ X \subseteq Dirs /\ X \cap LinkDirs = {} /\ D \ X \subseteq E
    /\ \A d \in X : "S" \in k.pdir[d].attr => d \in E

\* Only walks for pages of X end elsewhere, and never at a user's page.
WalksKept(m, k, X) ==
    /\ \A q \in Pages : q \div PTES \notin X => Walk(k, q) = Walk(m, q)
    /\ \A q \in Pages : q \div PTES \in X => ~ UserPage(k, q)

LEMMA ReplacedKeeps ==
    ASSUME NEW s, NEW D, Shape(s, D), Safe(s), NEW X, NEW k,
           Replaced(s.mem, k, X), NEW E, SupersIn(k, X, D, E)
    PROVE  /\ Shape(MemSet(s, k), E) /\ Safe(MemSet(s, k))
           /\ MemSet(s, k).pool = s.pool /\ MemSet(s, k).mem = k
           /\ WalksKept(s.mem, k, X)
  <1> DEFINE m == s.mem
             n == NextFrame(s.pool)
             r == MemSet(s, k)
  <1>0. /\ X \subseteq Dirs /\ X \cap LinkDirs = {} /\ D \ X \subseteq E
        /\ \A d \in X : "S" \in k.pdir[d].attr => d \in E
    BY DEF SupersIn
  <1>1. /\ s \in Stores /\ PoolOK(s.pool) /\ n \in Int /\ m \in Memories
        /\ TablesApart(m, n) /\ Rights(m, D)
    BY StoreParts DEF Shape
  <1>2. /\ k \in Memories /\ k.ptab = m.ptab
        /\ \A d \in Dirs : d \notin X => k.pdir[d] = m.pdir[d]
        /\ \A d \in X : /\ "U" \notin k.pdir[d].attr /\ "G" \notin k.pdir[d].attr
                        /\ "P" \in k.pdir[d].attr => "S" \in k.pdir[d].attr
        /\ \A t \in k.tlb : \/ t \in Translations(k)
                            \/ t \in m.tlb /\ t[1] \div PTES \notin X
    BY DEF Replaced
  <1>3. r \in Stores /\ r.pool = s.pool /\ r.mem = k
    BY <1>1, <1>2 DEF Stores, MemSet
  <1>4. Coherent(m) /\ Globals(m) /\ Users(m, n)
    BY DEF Safe
  <1> HIDE DEF m, n, r
  <1>5. \A d \in Dirs : IsTable(k, d) => d \notin X /\ IsTable(m, d) /\ k.pdir[d] = m.pdir[d]
    BY <1>2 DEF IsTable
  <1>6. TablesApart(k, n)
    BY <1>1, <1>5 DEF TablesApart
  <1>7. Rights(k, E)
    <2>1. \A d \in Dirs : "S" \in k.pdir[d].attr => d \in E /\ "U" \notin k.pdir[d].attr
      <3> SUFFICES ASSUME NEW d \in Dirs, "S" \in k.pdir[d].attr
                   PROVE  d \in E /\ "U" \notin k.pdir[d].attr
        OBVIOUS
      <3>1. CASE d \in X
        BY <1>0, <1>2, <3>1
      <3>2. CASE d \notin X
        BY <1>0, <1>1, <1>2, <3>2 DEF Rights
      <3> QED  BY <3>1, <3>2
    <2>2. \A d \in LinkDirs : k.pdir[d] = KernelEntry(d)
      <3>1. LinkDirs \subseteq Dirs
        BY MemoryAssumption DEF LinkDirs, Dirs
      <3> QED  BY <1>0, <1>1, <1>2, <3>1 DEF Rights
    <2>3. \A d \in Dirs : IsTable(k, d) => ("U" \in k.pdir[d].attr <=> d < LINK_DIR)
      BY <1>1, <1>5 DEF Rights
    <2> QED  BY <2>1, <2>2, <2>3 DEF Rights
  <1>8. ASSUME NEW q \in Pages, q \div PTES \notin X PROVE Walk(k, q) = Walk(m, q)
    <2>1. q \div PTES \in Dirs
      BY PagePlace
    <2> QED  BY <1>2, <1>8, <2>1 DEF Walk
  <1>9. ASSUME NEW q \in Pages, q \div PTES \in X
        PROVE  "U" \notin Walk(k, q).attr /\ "G" \notin Walk(k, q).attr
    <2> DEFINE d == k.pdir[q \div PTES]
    <2>1. "U" \notin d.attr /\ "G" \notin d.attr /\ ("P" \in d.attr => "S" \in d.attr)
      BY <1>2, <1>9
    <2>2. Walk(k, q) = Zero \/ Walk(k, q) = [frame |-> d.frame + (q % PTES), attr |-> d.attr]
      BY <2>1 DEF Walk
    <2> HIDE DEF d
    <2>3. Walk(k, q).attr = {} \/ Walk(k, q).attr = d.attr
      BY <2>2 DEF Zero
    <2> QED  BY <2>1, <2>3
  <1>10. Coherent(k)
    <2> SUFFICES ASSUME NEW t \in k.tlb PROVE Backed(k, t[1], t[2])
      BY DEF Coherent
    <2>1. CASE t \in Translations(k)
      <3>1. PICK q \in Pages : Walk(k, q) # Zero /\ t = <<q, Walk(k, q)>>
        BY <2>1 DEF Translations
      <3>2. "P" \in Walk(k, q).attr
        BY <1>2, <1>6, <3>1, WalkEntry
      <3> QED  BY <3>1, <3>2 DEF Backed
    <2>2. CASE t \in m.tlb /\ t[1] \div PTES \notin X
      <3>1. t[1] \in Pages /\ Backed(m, t[1], t[2])
        BY <1>1, <1>4, <2>2, MemoryParts DEF Coherent
      <3> QED  BY <1>8, <2>2, <3>1 DEF Backed
    <2> QED  BY <1>2, <2>1, <2>2
  <1>11. Globals(k)
    BY <1>4, <1>8, <1>9 DEF Globals
  <1>12. Users(k, n)
    <2> SUFFICES ASSUME NEW q \in Pages, UserPage(k, q)
                 PROVE  q < Split /\ Held(k, n, q, Walk(k, q).frame)
      BY DEF Users
    <2>1. q \div PTES \notin X /\ UserPage(m, q) /\ Walk(k, q) = Walk(m, q)
      BY <1>8, <1>9 DEF UserPage
    <2>2. q < Split /\ Held(m, n, q, Walk(m, q).frame)
      BY <1>4, <2>1 DEF Users
    <2>3. \A p \in Pages : UserPage(k, p) => UserPage(m, p) /\ Walk(k, p) = Walk(m, p)
      BY <1>8, <1>9 DEF UserPage
    <2>4. Held(k, n, q, Walk(m, q).frame)
      BY <1>5, <2>2, <2>3 DEF Held
    <2> QED  BY <2>1, <2>2, <2>4
  <1>13. Shape(r, E) /\ Safe(r)
    BY <1>1, <1>3, <1>6, <1>7, <1>10, <1>11, <1>12 DEF Shape, Safe, n
  <1>14. \A q \in Pages : q \div PTES \in X => ~ UserPage(k, q)
    BY <1>9 DEF UserPage
  <1> QED  BY <1>3, <1>8, <1>13, <1>14 DEF r, m, WalksKept

\* remap(): a superpage over any address, in its own entry.
LEMMA RemapReplaces ==
    ASSUME NEW m \in Memories, NEW n, TablesApart(m, n), NEW addr \in Int
    PROVE  /\ Replaced(m, Remap(m, addr), {REMAP_DIR})
           /\ "S" \in Remap(m, addr).pdir[REMAP_DIR].attr
  <1> DEFINE R == REMAP_DIR
             entry == [frame |-> (addr \div Megabyte) * (PTES \div 4),
                       attr  |-> {"P", "W", "S"}]
             gone == [m EXCEPT !.pdir[R] = Zero]
             T == {t \in m.tlb : t[1] \div PTES # R}
             k == [FlushSuper(gone, R) EXCEPT !.pdir[R] = entry]
             pdir == [m.pdir EXCEPT ![R] = entry]
             k2 == Walked(k)
  <1>1. R \in Dirs
    BY MemoryAssumption DEF Dirs
  <1>2. entry \in Entries
    <2> DEFINE f == (addr \div Megabyte) * (PTES \div 4)
    <2>1. f \in Int
      <3>1. PAGE_SIZE \in Nat \ {0} /\ PTES \in Nat \ {0} /\ PTES % 4 = 0
        BY PoolAssumption, MemoryAssumption
      <3>2. PTES \div 4 \in Nat \ {0}
        BY <3>1
      <3> DEFINE q == PTES \div 4
      <3> HIDE DEF q
      <3>3. q * PAGE_SIZE \in Nat \ {0}
        BY <3>1, <3>2 DEF q
      <3>4. Megabyte \in Nat \ {0}
        BY <3>3 DEF Megabyte, q
      <3>5. addr \div Megabyte \in Int
        BY <3>4
      <3> DEFINE a == addr \div Megabyte
      <3> HIDE DEF a
      <3>6. a * q \in Int
        BY <3>2, <3>5 DEF a, q
      <3> QED  BY <3>6 DEF a, q
    <2>2. entry = [frame |-> f, attr |-> {"P", "W", "S"}]
      OBVIOUS
    <2> HIDE DEF f, entry
    <2> QED  BY <2>1, <2>2 DEF Entries
  <1>3. Remap(m, addr) = k2
    BY DEF Remap
  <1>4. entry.attr = {"P", "W", "S"}
    OBVIOUS
  <1> HIDE DEF entry
  <1>5. k \in Memories /\ k.pdir = pdir /\ k.ptab = m.ptab /\ k.tlb = T
    <2>1. gone = [m EXCEPT !.pdir = [m.pdir EXCEPT ![R] = Zero]]
      OBVIOUS
    <2>2. [m.pdir EXCEPT ![R] = Zero] \in [Dirs -> Entries]
      BY MemoryParts, ZeroEntry
    <2>3. gone \in Memories /\ gone.pdir = [m.pdir EXCEPT ![R] = Zero]
          /\ gone.ptab = m.ptab /\ gone.tlb = m.tlb
      BY <2>1, <2>2 DEF Memories
    <2> HIDE DEF gone
    <2> DEFINE g == FlushSuper(gone, R)
    <2>4. g = [gone EXCEPT !.tlb = T]
      BY <2>3 DEF FlushSuper
    <2>5. T \in SUBSET (Pages \X Entries)
      BY MemoryParts
    <2> HIDE DEF T
    <2>6. g \in Memories /\ g.pdir = gone.pdir /\ g.ptab = m.ptab /\ g.tlb = T
      BY <2>3, <2>4, <2>5 DEF Memories
    <2> HIDE DEF g
    <2>7. k = [g EXCEPT !.pdir = [g.pdir EXCEPT ![R] = entry]]
      BY DEF g
    <2>8. [g.pdir EXCEPT ![R] = entry] = pdir
      BY <1>1, <2>3, <2>6, MemoryParts
    <2>9. pdir \in [Dirs -> Entries]
      BY <1>2, MemoryParts
    <2> HIDE DEF pdir
    <2> QED  BY <2>6, <2>7, <2>8, <2>9 DEF Memories
  <1> HIDE DEF k
  <1>6. k.pdir[R] = entry /\ \A d \in Dirs : d # R => k.pdir[d] = m.pdir[d]
    BY <1>1, <1>5, MemoryParts
  <1>7. TablesApart(k, n)
    <2>1. \A d \in Dirs : IsTable(k, d) => IsTable(m, d) /\ k.pdir[d] = m.pdir[d]
      BY <1>4, <1>6 DEF IsTable
    <2> QED  BY <2>1 DEF TablesApart
  <1>8. /\ k2 \in Memories /\ k2.pdir = k.pdir /\ k2.ptab = k.ptab
        /\ k2.tlb = k.tlb \cup Translations(k)
    BY <1>5, <1>7, WalkedMemory
  <1> HIDE DEF k2
  <1>9. Translations(k2) = Translations(k)
    BY <1>8, WalkDepends DEF Translations
  <1>10. Replaced(m, k2, {R})
    BY <1>4, <1>5, <1>6, <1>8, <1>9 DEF Replaced
  <1> QED  BY <1>3, <1>4, <1>6, <1>8, <1>10

\* The loop of bootstrap() and its flush, which spares the kernel's mapping.
LEMMA LowUnmappedReplaces ==
    ASSUME NEW m \in Memories, Coherent(m), Globals(m)
    PROVE  /\ Replaced(m, LowUnmapped(m), 0 .. LOAD_DIRS - 1)
           /\ \A d \in 0 .. LOAD_DIRS - 1 : LowUnmapped(m).pdir[d] = Zero
  <1> DEFINE X == 0 .. LOAD_DIRS - 1
             pdir == [d \in Dirs |-> IF d < LOAD_DIRS THEN Zero ELSE m.pdir[d]]
             T == {t \in m.tlb : "G" \in t[2].attr}
             k == LowUnmapped(m)
             g == [m EXCEPT !.pdir = pdir]
  <1>1. DOMAIN m.pdir = Dirs
    BY MemoryParts
  <1>2. k = Flush(g)
    BY <1>1 DEF LowUnmapped
  <1>3. pdir \in [Dirs -> Entries]
    BY ZeroEntry, MemoryParts
  <1>4. T \in SUBSET (Pages \X Entries)
    BY MemoryParts
  <1>5. \A d \in Dirs : d < LOAD_DIRS => pdir[d] = Zero
    OBVIOUS
  <1>6. \A d \in Dirs : ~ d < LOAD_DIRS => pdir[d] = m.pdir[d]
    OBVIOUS
  <1> HIDE DEF pdir
  <1>7. g \in Memories /\ g.pdir = pdir /\ g.ptab = m.ptab /\ g.tlb = m.tlb
    BY <1>3 DEF Memories
  <1> HIDE DEF g
  <1>8. k = [g EXCEPT !.tlb = T]
    BY <1>2, <1>7 DEF Flush
  <1>9. /\ k \in Memories /\ k.pdir = pdir /\ k.ptab = m.ptab /\ k.tlb = T
    <2> HIDE DEF T, k
    <2> QED  BY <1>4, <1>7, <1>8 DEF Memories
  <1>10. /\ LOAD_DIRS \in Nat /\ LINK_DIR \in Nat /\ LOAD_DIRS <= LINK_DIR
         /\ LINK_DIRS \in Nat /\ LINK_DIR + LINK_DIRS <= DIRS /\ DIRS \in Nat
    BY MemoryAssumption, LayoutAssumption
  <1>11. \A d \in X : d \in Dirs /\ d < LOAD_DIRS /\ d \notin LinkDirs
    BY <1>10 DEF Dirs, LinkDirs
  <1>12. \A d \in Dirs : d \notin X => ~ d < LOAD_DIRS
    BY <1>10 DEF Dirs
  <1>13. ASSUME NEW t \in T PROVE t[1] \div PTES \notin X
    <2>1. t[1] \in Pages /\ Backed(m, t[1], t[2])
      BY MemoryParts DEF Coherent
    <2>2. "G" \in Walk(m, t[1]).attr
      BY <2>1 DEF Backed
    <2>3. t[1] \div PTES \in LinkDirs
      BY <2>1, <2>2 DEF Globals
    <2> QED  BY <1>11, <2>3
  <1> HIDE DEF k, X
  <1>14. \A d \in X : k.pdir[d] = Zero
    BY <1>5, <1>9, <1>11
  <1>15. \A d \in Dirs : d \notin X => k.pdir[d] = m.pdir[d]
    BY <1>6, <1>9, <1>12
  <1>16. Zero.attr = {}
    BY DEF Zero
  <1>17. \A t \in k.tlb : t \in m.tlb /\ t[1] \div PTES \notin X
    BY <1>9, <1>13
  <1>18. Replaced(m, k, X)
    BY <1>9, <1>14, <1>15, <1>16, <1>17 DEF Replaced
  <1> QED  BY <1>14, <1>18 DEF k, X

-----------------------------------------------------------------------------
\* What start.S sets up, and what init() adds.

BootDirs == (0 .. LOAD_DIRS - 1) \cup LinkDirs \cup {REMAP_DIR}
KernelPages == {KSTCK, IOBMP, IOBMP + 1}

\* No page is a user's, and below LINK_ADDR only what start.S mapped is there.
BootPages(m) ==
    \A q \in Pages : /\ ~ UserPage(m, q)
                     /\ q \div PTES \in LOAD_DIRS .. LINK_DIR - 1 => Walk(m, q) = Zero

LEMMA EmptyPoolOK == PoolOK(EmptyPool)
  BY PoolAssumption, EmptySeq DEF PoolOK, EmptyPool, PoolInv, Pools, Apart

LEMMA BootKept ==
    ASSUME NEW s, s = [pool |-> EmptyPool, mem |-> BootMemory]
    PROVE  /\ Shape(s, BootDirs) /\ Safe(s) /\ BootPages(s.mem)
           /\ \A q \in KernelPages : Walk(s.mem, q) = Zero
  <1> DEFINE low(d) == [frame |-> d * PTES, attr |-> {"P", "W", "S"}]
             link(d) == [frame |-> LINK_P + (d - LINK_DIR) * PTES,
                         attr  |-> {"P", "W", "S", "G"}]
             pdir == [d \in Dirs |-> IF d < LOAD_DIRS THEN low(d)
                                     ELSE IF d \in LinkDirs THEN link(d) ELSE Zero]
             ptab == [f \in Frames |-> ZeroTable]
             m0 == [pdir |-> pdir, ptab |-> ptab, tlb |-> {}]
             m == Walked(m0)
             n == NextFrame(EmptyPool)
  <1>1. /\ LOAD_DIRS \in Nat /\ LINK_DIR \in Nat /\ LOAD_DIRS <= LINK_DIR
        /\ LINK_DIRS \in Nat /\ LINK_DIR + LINK_DIRS <= REMAP_DIR
        /\ REMAP_DIR < DIRS /\ DIRS \in Nat /\ REMAP_DIR \in Nat
        /\ PTES \in Nat \ {0} /\ LINK_P \in Nat
    BY MemoryAssumption, LayoutAssumption
  <1>2. s.pool = EmptyPool /\ s.mem = m
    BY DEF BootMemory, Dirs, LinkDirs
  <1>3. \A d \in Dirs : d * PTES \in Int /\ LINK_P + (d - LINK_DIR) * PTES \in Int
    BY <1>1 DEF Dirs
  <1>4. \A d \in Dirs : low(d) \in Entries /\ link(d) \in Entries
    BY <1>3 DEF Entries
  <1>5. \A d : low(d).attr = {"P", "W", "S"} /\ link(d).attr = {"P", "W", "S", "G"}
               /\ link(d) = KernelEntry(d)
    BY DEF KernelEntry
  <1> HIDE DEF low, link
  <1>6. pdir \in [Dirs -> Entries] /\ ptab \in [Frames -> [0 .. PTES - 1 -> Entries]]
    BY <1>4, ZeroEntry
  <1>7. /\ \A d \in Dirs : d < LOAD_DIRS => pdir[d] = low(d)
        /\ \A d \in Dirs : d \in LinkDirs /\ ~ d < LOAD_DIRS => pdir[d] = link(d)
        /\ \A d \in Dirs : d \notin LinkDirs /\ ~ d < LOAD_DIRS => pdir[d] = Zero
    OBVIOUS
  <1> HIDE DEF pdir, ptab
  <1>8. m0 \in Memories /\ m0.pdir = pdir /\ m0.ptab = ptab /\ m0.tlb = {}
    BY <1>6 DEF Memories
  <1> HIDE DEF m0
  <1>9. Zero.attr = {}
    BY DEF Zero
  <1>10. \A d \in LinkDirs : d \in Dirs /\ ~ d < LOAD_DIRS
    BY <1>1 DEF LinkDirs, Dirs
  <1>11. \A d \in Dirs : d < LOAD_DIRS <=> d \in 0 .. LOAD_DIRS - 1
    BY <1>1 DEF Dirs
  <1>12. \A d \in Dirs :
           \/ d < LOAD_DIRS /\ m0.pdir[d].attr = {"P", "W", "S"}
           \/ d \in LinkDirs /\ m0.pdir[d].attr = {"P", "W", "S", "G"}
           \/ m0.pdir[d].attr = {}
    BY <1>5, <1>7, <1>8, <1>9
  <1>13. \A d \in Dirs : ~ IsTable(m0, d)
    BY <1>12 DEF IsTable
  <1>14. TablesApart(m0, n)
    BY <1>13 DEF TablesApart
  <1>15. /\ m \in Memories /\ m.pdir = m0.pdir /\ m.ptab = m0.ptab
         /\ m.tlb = m0.tlb \cup Translations(m0)
    BY <1>8, <1>14, WalkedMemory
  <1> HIDE DEF m
  <1>16. TablesApart(m, n)
    BY <1>13, <1>15 DEF TablesApart, IsTable
  <1>17. Rights(m, BootDirs)
    <2>1. \A d \in Dirs : "S" \in m.pdir[d].attr =>
             d \in BootDirs /\ "U" \notin m.pdir[d].attr
      BY <1>11, <1>12, <1>15 DEF BootDirs
    <2>2. \A d \in LinkDirs : m.pdir[d] = KernelEntry(d)
      BY <1>5, <1>7, <1>8, <1>10, <1>15
    <2>3. \A d \in Dirs : ~ IsTable(m, d)
      BY <1>13, <1>15 DEF IsTable
    <2> QED  BY <2>1, <2>2, <2>3 DEF Rights
  <1>18. EmptyPool \in Pools /\ PoolOK(EmptyPool)
    BY EmptyPoolOK DEF PoolOK, PoolInv
  <1>19. Shape(s, BootDirs)
    <2>1. s \in Stores
      BY <1>2, <1>15, <1>18 DEF Stores
    <2> QED  BY <2>1, <1>2, <1>16, <1>17, <1>18 DEF Shape
  <1>20. ASSUME NEW q \in Pages
         PROVE  LET d == m.pdir[q \div PTES]
                IN  /\ "U" \notin Walk(m, q).attr
                    /\ "G" \in Walk(m, q).attr => q \div PTES \in LinkDirs
                    /\ d = Zero => Walk(m, q) = Zero
    <2> DEFINE c == q \div PTES
               d == m.pdir[c]
    <2>1. c \in Dirs
      BY PagePlace
    <2>2. \/ d.attr = {"P", "W", "S"}
          \/ c \in LinkDirs /\ d.attr = {"P", "W", "S", "G"}
          \/ d.attr = {}
      BY <1>12, <1>15, <2>1
    <2>3. "P" \in d.attr => "S" \in d.attr
      BY <2>2
    <2>4. Walk(m, q) = Zero \/ ("P" \in d.attr
                                /\ Walk(m, q) = [frame |-> d.frame + (q % PTES), attr |-> d.attr])
      BY <2>3 DEF Walk
    <2> HIDE DEF d
    <2>5. Walk(m, q).attr = {} \/ Walk(m, q).attr = d.attr
      BY <1>9, <2>4
    <2>6. d = Zero => Walk(m, q) = Zero
      BY <1>9, <2>4
    <2> QED  BY <2>2, <2>5, <2>6 DEF d, c
  <1>21. Safe(s)
    <2>1. Translations(m0) = Translations(m)
      BY <1>15, WalkDepends DEF Translations
    <2>2. Coherent(m)
      <3> SUFFICES ASSUME NEW t \in m.tlb PROVE Backed(m, t[1], t[2])
        BY DEF Coherent
      <3>1. PICK q \in Pages : Walk(m, q) # Zero /\ t = <<q, Walk(m, q)>>
        BY <1>8, <1>15, <2>1 DEF Translations
      <3>2. "P" \in Walk(m, q).attr
        BY <1>15, <1>16, <3>1, WalkEntry
      <3> QED  BY <3>1, <3>2 DEF Backed
    <2>3. Globals(m)
      BY <1>20 DEF Globals
    <2>4. Users(m, n)
      BY <1>20 DEF Users, UserPage
    <2> QED  BY <1>2, <2>2, <2>3, <2>4 DEF Safe
  <1>22. BootPages(m)
    <2> SUFFICES ASSUME NEW q \in Pages
                 PROVE  /\ ~ UserPage(m, q)
                        /\ q \div PTES \in LOAD_DIRS .. LINK_DIR - 1 => Walk(m, q) = Zero
      BY DEF BootPages
    <2>1. ~ UserPage(m, q)
      BY <1>20 DEF UserPage
    <2>2. ASSUME q \div PTES \in LOAD_DIRS .. LINK_DIR - 1
          PROVE  Walk(m, q) = Zero
      <3> DEFINE c == q \div PTES
      <3>1. c \in Dirs
        BY PagePlace
      <3>2. c \in LOAD_DIRS .. LINK_DIR - 1
        BY <2>2
      <3> HIDE DEF c
      <3>3. c \notin LinkDirs /\ ~ c < LOAD_DIRS
        BY <1>1, <3>2 DEF LinkDirs
      <3>4. m.pdir[c] = Zero
        BY <1>7, <1>8, <1>15, <3>1, <3>3
      <3> QED  BY <1>20, <3>4 DEF c
    <2> QED  BY <2>1, <2>2
  <1>23. \A q \in KernelPages : Walk(m, q) = Zero
    <2> SUFFICES ASSUME NEW q \in KernelPages PROVE Walk(m, q) = Zero
      OBVIOUS
    <2> DEFINE c == q \div PTES
    <2>1. q \in Pages /\ LINK_DIR + LINK_DIRS <= c
      BY MachineAssumption, LayoutAssumption DEF KernelPages
    <2>2. c \in Dirs
      BY <2>1, PagePlace
    <2> HIDE DEF c
    <2>3. c \notin LinkDirs /\ ~ c < LOAD_DIRS
      BY <1>1, <2>1, <2>2 DEF LinkDirs, Dirs
    <2>4. m.pdir[c] = Zero
      BY <1>7, <1>8, <1>15, <2>2, <2>3
    <2> QED  BY <1>20, <2>1, <2>4 DEF c
  <1> QED  BY <1>2, <1>19, <1>21, <1>22, <1>23

\* One of the three pages init() maps.
LEMMA KernelPageMapped ==
    ASSUME NEW s, Shape(s, BootDirs), Safe(s), BootPages(s.mem),
           NEW page \in KernelPages, NEW frame \in Int, Walk(s.mem, page) = Zero,
           NEW attr, attr = {"P", "W"},
           NEW r, r = InsertMapping(s, page, frame, attr)
    PROVE  /\ Shape(r, BootDirs) /\ Safe(r) /\ BootPages(r.mem)
           /\ s.pool.oom => r.pool.oom
           /\ \A q \in Pages : q # page => Walk(r.mem, q) = Walk(s.mem, q)
           /\ ~ r.pool.oom => Walk(r.mem, page) # Zero
  <1> DEFINE c == page \div PTES
             cell == [frame |-> frame, attr |-> attr]
  <1>1. page \in Pages /\ LINK_DIR + LINK_DIRS <= c /\ c # REMAP_DIR
    BY MachineAssumption, LayoutAssumption DEF KernelPages
  <1>2. c \in Dirs
    BY <1>1, PagePlace
  <1> HIDE DEF c
  <1>3. c \notin BootDirs /\ ~ c < LINK_DIR /\ c \notin LOAD_DIRS .. LINK_DIR - 1
    BY <1>1, <1>2, MemoryAssumption, LayoutAssumption DEF BootDirs, LinkDirs, Dirs
  <1>4. Mapping(page, frame, attr, BootDirs) /\ LinkDirs \subseteq BootDirs
    BY <1>1, <1>3 DEF Mapping, BootDirs, c
  <1>5. /\ Shape(r, BootDirs)
        /\ NextFrame(s.pool) <= NextFrame(r.pool)
        /\ s.pool.oom => r.pool.oom
        /\ r.pool.oom => Failed(s, r)
        /\ ~ r.pool.oom => Mapped(s, r, page, cell)
    BY <1>4, InsertKeeps
  <1>6. CASE r.pool.oom
    BY <1>5, <1>6 DEF Failed, Safe
  <1>7. CASE ~ r.pool.oom
    <2>1. Safe(r)
      BY <1>4, <1>5, <1>7, MappedSafe
    <2>2. /\ \A q \in Pages : q # page => Walk(r.mem, q) = Walk(s.mem, q)
          /\ Walk(r.mem, page) = cell
      BY <1>5, <1>7 DEF Mapped
    <2>3. cell.attr = attr /\ cell # Zero
      BY DEF Zero
    <2> HIDE DEF cell
    <2>4. BootPages(r.mem)
      <3> SUFFICES ASSUME NEW q \in Pages
                   PROVE  /\ ~ UserPage(r.mem, q)
                          /\ q \div PTES \in LOAD_DIRS .. LINK_DIR - 1 => Walk(r.mem, q) = Zero
        BY DEF BootPages
      <3>1. CASE q = page
        BY <1>3, <2>2, <2>3, <3>1 DEF UserPage, c
      <3>2. CASE q # page
        BY <2>2, <3>2 DEF BootPages, UserPage
      <3> QED  BY <3>1, <3>2
    <2> QED  BY <1>5, <2>1, <2>2, <2>3, <2>4
  <1> QED  BY <1>6, <1>7

LEMMA TwoPages ==
    ASSUME NEW p, PoolOK(p)
    PROVE  /\ PoolOK(AllocPage(p, 2)) /\ NextFrame(p) <= NextFrame(AllocPage(p, 2))
           /\ p.oom => AllocPage(p, 2).oom
  <1> DEFINE r == AllocPage(p, 2)
             b == p.begin
  <1>1. /\ PAGE_SIZE \in Nat \ {0} /\ p \in Pools /\ b \in Int /\ b % PAGE_SIZE = 0
    BY PoolAssumption DEF PoolOK, PoolInv, Pools
  <1>2. PoolInv(r)
    BY AllocPageKeeps DEF PoolOK
  <1>3. r.begin = b \/ r.begin = b + 2 * PAGE_SIZE
    BY <1>1 DEF AllocPage, Pools
  <1>4. p.oom => r.oom
    BY <1>1 DEF AllocPage, Pools
  <1> HIDE DEF b
  <1>5. b + PAGE_SIZE \in Int /\ (b + PAGE_SIZE) + PAGE_SIZE = b + 2 * PAGE_SIZE
    BY <1>1
  <1>6. (b + 2 * PAGE_SIZE) % PAGE_SIZE = 0
    BY <1>1, <1>5, DivNext
  <1>7. b <= b + 2 * PAGE_SIZE /\ b + 2 * PAGE_SIZE \in Int
    BY <1>1
  <1>8. b \div PAGE_SIZE <= r.begin \div PAGE_SIZE /\ r.begin % PAGE_SIZE = 0
    <2>1. b \div PAGE_SIZE <= b \div PAGE_SIZE
      BY <1>1
    <2> DEFINE c == b + 2 * PAGE_SIZE
    <2> HIDE DEF c
    <2>2. b \div PAGE_SIZE <= c \div PAGE_SIZE
      BY <1>1, <1>7, DivMono DEF c
    <2> QED  BY <1>1, <1>3, <1>6, <2>1, <2>2 DEF c
  <1> QED  BY <1>2, <1>4, <1>8 DEF PoolOK, NextFrame, b

\* A store that Becomes() takes over is the next one.
LEMMA NextStore ==
    ASSUME NEW s, NEW D, Shape(s, D), Becomes(s)
    PROVE  Store' = s
  <1>1. s = [pool |-> s.pool, mem |-> s.mem]
    BY DEF Shape, Stores
  <1> QED  BY <1>1 DEF Becomes, Store

LEMMA SameStore == Store.pool = pool /\ Store.mem = mem
  BY DEF Store

\* init() maps the kernel's stack and the I/O bitmap, or runs out of memory.
LEMMA InitMaps ==
    ASSUME init, Shape(Store, BootDirs), Safe(Store), BootPages(mem),
           \A q \in KernelPages : Walk(mem, q) = Zero
    PROVE  /\ Shape(Store, BootDirs)' /\ Safe(Store)' /\ BootPages(mem)'
           /\ halted' # "out of memory" =>
                 \A q \in KernelPages : Walk(mem, q)' # Zero
           /\ pool'.oom => halted' = "out of memory"
           /\ halted' \in {halted, "out of memory"}
  <1> DEFINE attr == {"P", "W"}
             iobm == NextFrame(pool)
             p2 == AllocPage(pool, 2)
             p3 == AllocPage(p2, 1)
             bitmap == [Store EXCEPT !.pool = p2]
             kstck == [bitmap EXCEPT !.pool = p3]
             f1 == NextFrame(p2)
             s1 == InsertMapping(kstck, KSTCK, f1, attr)
             s2 == InsertMapping(s1, IOBMP, iobm, attr)
             s3 == InsertMapping(s2, IOBMP + 1, iobm + 1, attr)
  <1>1. PoolOK(pool) /\ iobm \in Int /\ iobm + 1 \in Int
    <2>1. PoolOK(pool)
      BY SameStore DEF Shape
    <2>2. iobm \in Int
      BY <2>1, NextPage
    <2> HIDE DEF iobm
    <2> QED  BY <2>1, <2>2
  <1>2. PoolOK(p2) /\ iobm <= NextFrame(p2)
    BY <1>1, TwoPages
  <1>3. f1 \in Int /\ PoolOK(p3) /\ NextFrame(p2) <= NextFrame(p3)
    <2>1. f1 \in Int /\ PoolOK(p3) /\ (NextFrame(p3) = f1 + 1 \/ NextFrame(p3) = f1)
      BY <1>2, NextPage
    <2> QED  BY <2>1
  <1>4. /\ Shape(bitmap, BootDirs) /\ Safe(bitmap) /\ bitmap.mem = mem /\ bitmap.pool = p2
    <2> HIDE DEF p2
    <2> QED  BY <1>1, <1>2, SameStore, PoolChanged
  <1>5. bitmap = [Store EXCEPT !.pool = AllocPage(@, 2)]
    BY SameStore
  <1>6. kstck = [bitmap EXCEPT !.pool = AllocPage(@, 1)]
    BY <1>4
  <1>7. Becomes(s3)
    BY <1>4, <1>5, <1>6 DEF init
  <1> HIDE DEF bitmap, p2, p3
  <1>8. Shape(kstck, BootDirs) /\ Safe(kstck) /\ kstck.mem = mem
    BY <1>3, <1>4, PoolChanged
  <1> HIDE DEF kstck, f1, iobm, attr
  <1>9. /\ KSTCK \in KernelPages /\ IOBMP \in KernelPages /\ IOBMP + 1 \in KernelPages
        /\ KSTCK \in Pages /\ IOBMP \in Pages /\ IOBMP + 1 \in Pages
        /\ KSTCK # IOBMP /\ KSTCK # IOBMP + 1 /\ IOBMP # IOBMP + 1
    <2>1. KSTCK \in Pages /\ IOBMP \in Pages /\ IOBMP + 1 \in Pages
      BY MachineAssumption
    <2>2. IOBMP # IOBMP + 1
      BY <2>1 DEF Pages
    <2> QED  BY <2>1, <2>2, LayoutAssumption DEF KernelPages
  <1>10. /\ Shape(s1, BootDirs) /\ Safe(s1) /\ BootPages(s1.mem)
         /\ \A q \in Pages : q # KSTCK => Walk(s1.mem, q) = Walk(mem, q)
         /\ ~ s1.pool.oom => Walk(s1.mem, KSTCK) # Zero
    <2>1. Walk(kstck.mem, KSTCK) = Zero /\ BootPages(kstck.mem) /\ attr = {"P", "W"}
      BY <1>8, <1>9 DEF attr
    <2> HIDE DEF s1
    <2>2. s1 = InsertMapping(kstck, KSTCK, f1, attr)
      BY DEF s1
    <2> QED  BY <1>3, <1>8, <1>9, <2>1, <2>2, KernelPageMapped
  <1> HIDE DEF s1
  <1>11. /\ Shape(s2, BootDirs) /\ Safe(s2) /\ BootPages(s2.mem)
         /\ s1.pool.oom => s2.pool.oom
         /\ \A q \in Pages : q # IOBMP => Walk(s2.mem, q) = Walk(s1.mem, q)
         /\ ~ s2.pool.oom => Walk(s2.mem, IOBMP) # Zero
    <2>1. Walk(s1.mem, IOBMP) = Zero /\ attr = {"P", "W"}
      BY <1>9, <1>10 DEF attr
    <2> HIDE DEF s2
    <2>2. s2 = InsertMapping(s1, IOBMP, iobm, attr)
      BY DEF s2
    <2> QED  BY <1>1, <1>9, <1>10, <2>1, <2>2, KernelPageMapped
  <1> HIDE DEF s2
  <1>12. /\ Shape(s3, BootDirs) /\ Safe(s3) /\ BootPages(s3.mem)
         /\ s2.pool.oom => s3.pool.oom
         /\ \A q \in Pages : q # IOBMP + 1 => Walk(s3.mem, q) = Walk(s2.mem, q)
         /\ ~ s3.pool.oom => Walk(s3.mem, IOBMP + 1) # Zero
    <2>1. Walk(s2.mem, IOBMP + 1) = Zero /\ attr = {"P", "W"}
      BY <1>9, <1>10, <1>11 DEF attr
    <2> DEFINE page == IOBMP + 1
               frame == iobm + 1
    <2>2. s3 = InsertMapping(s2, page, frame, attr)
      OBVIOUS
    <2>3. Walk(s2.mem, page) = Zero /\ page \in KernelPages /\ frame \in Int
      BY <1>1, <1>9, <2>1
    <2> HIDE DEF s3, page, frame
    <2>4. /\ Shape(s3, BootDirs) /\ Safe(s3) /\ BootPages(s3.mem)
          /\ s2.pool.oom => s3.pool.oom
          /\ \A q \in Pages : q # page => Walk(s3.mem, q) = Walk(s2.mem, q)
          /\ ~ s3.pool.oom => Walk(s3.mem, page) # Zero
      BY <1>11, <2>1, <2>2, <2>3, KernelPageMapped
    <2> QED  BY <2>4 DEF page
  <1> HIDE DEF s3
  <1>13. Store' = s3 /\ pool' = s3.pool /\ mem' = s3.mem
         /\ halted' = IF s3.pool.oom THEN "out of memory" ELSE halted
    BY <1>7, <1>12, NextStore DEF Becomes
  <1>14. Shape(Store, BootDirs)' /\ Safe(Store)' /\ BootPages(mem)'
    BY <1>12, <1>13
  <1>15. ~ s3.pool.oom => \A q \in KernelPages : Walk(s3.mem, q) # Zero
    BY <1>9, <1>10, <1>11, <1>12 DEF KernelPages
  <1> QED  BY <1>13, <1>14, <1>15

\* bootstrap() takes the identity mapping away: nothing is left below LINK_ADDR.
LEMMA BootstrapUnmaps ==
    ASSUME bootstrap, Shape(Store, BootDirs), Safe(Store), BootPages(mem)
    PROVE  /\ Shape(Store, RunDirs)' /\ Safe(Store)'
           /\ \A q \in Pages : q < Split => Walk(mem, q)' = Zero
           /\ \A q \in KernelPages : Walk(mem, q)' = Walk(mem, q)
           /\ pool'.oom => halted' = "out of memory"
           /\ halted' \in {halted, "out of memory"}
  <1> DEFINE X == 0 .. LOAD_DIRS - 1
             k == LowUnmapped(mem)
             v == MemSet(Store, k)
             p == Alloc(Alloc(pool, PD_SIZE), EC_SIZE)
             w == [pool |-> p, mem |-> k]
  <1>1. /\ LOAD_DIRS \in Nat \ {0} /\ LINK_DIR \in Nat /\ LINK_DIRS \in Nat
        /\ REMAP_DIR \in Nat /\ DIRS \in Nat
        /\ LOAD_DIRS <= LINK_DIR /\ LINK_DIR + LINK_DIRS <= REMAP_DIR
        /\ REMAP_DIR < DIRS
    BY MemoryAssumption, LayoutAssumption
  <1>2. /\ X \in SUBSET Dirs /\ X \cap LinkDirs = {} /\ BootDirs \ X \subseteq RunDirs
    BY <1>1 DEF Dirs, LinkDirs, BootDirs, RunDirs
  <1>3. Replaced(mem, k, X) /\ \A d \in X : k.pdir[d] = Zero
    <2>1. mem \in Memories
      BY SameStore, StoreParts
    <2>2. Coherent(mem) /\ Globals(mem)
      BY SameStore DEF Safe
    <2> QED  BY <2>1, <2>2, LowUnmappedReplaces
  <1>4. \A d \in X : "S" \in k.pdir[d].attr => d \in RunDirs
    BY <1>3 DEF Zero
  <1> HIDE DEF X, k
  <1>5. /\ Shape(v, RunDirs) /\ Safe(v) /\ v.pool = pool /\ v.mem = k
        /\ \A q \in Pages : q \div PTES \notin X => Walk(k, q) = Walk(mem, q)
    <2> DEFINE s == Store
    <2>1. Replaced(s.mem, k, X) /\ Shape(s, BootDirs) /\ Safe(s)
      BY <1>3, SameStore
    <2>2. SupersIn(k, X, BootDirs, RunDirs)
      BY <1>2, <1>4 DEF SupersIn
    <2> HIDE DEF s
    <2>3. /\ Shape(MemSet(s, k), RunDirs) /\ Safe(MemSet(s, k))
          /\ MemSet(s, k).pool = s.pool /\ MemSet(s, k).mem = k
          /\ WalksKept(s.mem, k, X)
      BY <2>1, <2>2, ReplacedKeeps
    <2> QED  BY <2>3, SameStore DEF s, WalksKept
  <1> HIDE DEF v
  <1>6. PoolOK(p) /\ NextFrame(p) = NextFrame(pool)
    <2>1. PoolOK(pool) /\ PD_SIZE \in Sizes /\ EC_SIZE \in Sizes
      BY SameStore, MachineAssumption DEF Shape
    <2> DEFINE p1 == Alloc(pool, PD_SIZE)
    <2>2. PoolOK(p1) /\ NextFrame(p1) = NextFrame(pool)
      BY <2>1, ObjectAlloc
    <2> HIDE DEF p1
    <2>3. PoolOK(Alloc(p1, EC_SIZE)) /\ NextFrame(Alloc(p1, EC_SIZE)) = NextFrame(p1)
      BY <2>1, <2>2, ObjectAlloc
    <2> QED  BY <2>2, <2>3 DEF p1
  <1>7. Becomes(w)
    BY DEF bootstrap, k
  <1> HIDE DEF p
  <1>8. w = [v EXCEPT !.pool = p]
    <2>1. v \in Stores
      BY <1>5 DEF Shape
    <2> QED  BY <1>5, <2>1 DEF Stores
  <1>9. NextFrame(v.pool) <= NextFrame(p)
    <2>1. NextFrame(pool) \in Int
      BY <1>5, StoreParts
    <2> QED  BY <1>5, <1>6, <2>1
  <1> HIDE DEF w
  <1>10. Shape(w, RunDirs) /\ Safe(w) /\ w.pool = p /\ w.mem = k
    BY <1>5, <1>6, <1>8, <1>9, PoolChanged
  <1>11. /\ Store' = w /\ pool' = p /\ mem' = k
         /\ halted' = IF p.oom THEN "out of memory" ELSE halted
    BY <1>7, <1>10, NextStore DEF Becomes
  <1>12. ASSUME NEW q \in Pages, q < Split PROVE Walk(k, q) = Zero
    <2>1. q \div PTES \in Nat /\ q \div PTES < LINK_DIR
      BY <1>12, PagePlace DEF Dirs
    <2>2. CASE q \div PTES \in X
      <3>1. k.pdir[q \div PTES].attr = {}
        BY <1>3, <2>2 DEF Zero
      <3> QED  BY <3>1 DEF Walk
    <2>3. CASE q \div PTES \notin X
      <3>1. q \div PTES \in LOAD_DIRS .. LINK_DIR - 1
        BY <1>1, <2>1, <2>3 DEF X
      <3> QED  BY <1>5, <2>3, <3>1 DEF BootPages
    <2> QED  BY <2>2, <2>3
  <1>13. ASSUME NEW q \in KernelPages PROVE Walk(k, q) = Walk(mem, q)
    <2>1. q \in Pages /\ LINK_DIR + LINK_DIRS <= q \div PTES
      BY MachineAssumption, LayoutAssumption DEF KernelPages
    <2>2. q \div PTES \in Int
      BY <2>1, PagePlace DEF Dirs
    <2>3. q \div PTES \notin X
      BY <1>1, <2>1, <2>2 DEF X
    <2> QED  BY <1>5, <2>1, <2>3
  <1>14. Shape(Store, RunDirs)' /\ Safe(Store)'
    BY <1>10, <1>11
  <1> QED  BY <1>11, <1>12, <1>13, <1>14

-----------------------------------------------------------------------------
\* root_invoke().

\* What remap() can have made of the memory.
RemapStates == {m \in Memories : /\ Shape(MemSet(Store, m), RunDirs)
                                 /\ Safe(MemSet(Store, m))
                                 /\ WalksKept(mem, m, {REMAP_DIR})}

LEMMA RemapTurn ==
    ASSUME NEW m \in RemapStates, NEW addr \in Int
    PROVE  Remap(m, addr) \in RemapStates
  <1> DEFINE X == {REMAP_DIR}
             k == Remap(m, addr)
             s == MemSet(Store, m)
  <1>1. Shape(s, RunDirs) /\ Safe(s) /\ WalksKept(mem, m, X) /\ m \in Memories
    BY DEF RemapStates
  <1>2. s.mem = m /\ MemSet(s, k) = MemSet(Store, k)
    BY DEF MemSet, Store
  <1>3. TablesApart(m, NextFrame(s.pool))
    <2> HIDE DEF s
    <2> QED  BY <1>1, <1>2, StoreParts
  <1>4. Replaced(m, k, X) /\ "S" \in k.pdir[REMAP_DIR].attr
    BY <1>1, <1>3, RemapReplaces
  <1>5. SupersIn(k, X, RunDirs, RunDirs)
    BY MemoryAssumption DEF SupersIn, RunDirs, LinkDirs, Dirs
  <1> HIDE DEF s, k, X
  <1>6. Shape(MemSet(s, k), RunDirs) /\ Safe(MemSet(s, k)) /\ WalksKept(m, k, X)
    BY <1>1, <1>2, <1>4, <1>5, ReplacedKeeps
  <1>7. WalksKept(mem, k, X)
    BY <1>1, <1>6 DEF WalksKept
  <1>8. k \in Memories
    BY <1>4 DEF Replaced
  <1> QED  BY <1>2, <1>6, <1>7, <1>8 DEF RemapStates, X, k

\* What root_invoke() reads through remap() leaves every other page as it was.
LEMMA RemapsKeep ==
    ASSUME Shape(Store, RunDirs), Safe(Store), image \in Images
    PROVE  \A k \in 0 .. 5 : Remapped[k] \in RemapStates
  <1> DEFINE S == RemapStates
             G == [i \in 1 .. 5 |-> [v \in S |-> Remap(v, Remaps[i])]]
             Turns(f) == f = [k \in 0 .. 5 |->
                                IF k = 0 THEN mem ELSE Remap(f[k - 1], Remaps[k])]
  <1>1. mem \in S
    <2>1. mem \in Memories
      BY SameStore, StoreParts
    <2>2. MemSet(Store, mem) = Store
      BY DEF MemSet, Store
    <2>3. \A q \in Pages : q \div PTES = REMAP_DIR => ~ UserPage(mem, q)
      <3> SUFFICES ASSUME NEW q \in Pages, q \div PTES = REMAP_DIR, UserPage(mem, q)
                   PROVE  FALSE
        OBVIOUS
      <3>1. q < Split
        BY SameStore DEF Safe, Users
      <3> QED  BY <3>1, PagePlace, MemoryAssumption
    <2> QED  BY <2>1, <2>2, <2>3 DEF RemapStates, WalksKept
  <1>2. \A i \in 1 .. 5 : Remaps[i] \in Int
    BY ImagesAssumption DEF Remaps, WellLinked
  <1>3. KeptIn(G, 1, 5, S)
    <2>1. ASSUME NEW i \in 1 .. 5, NEW v \in S PROVE G[i][v] \in S
      BY <1>2, RemapTurn
    <2> HIDE DEF G
    <2> QED  BY <2>1 DEF KeptIn
  <1>4. PICK f \in [0 .. 5 -> S] :
           f[0] = mem /\ \A i \in 1 .. 5 : f[i] = G[i][f[i - 1]]
    <2> DEFINE n == 5
    <2>1. n \in Nat /\ KeptIn(G, 1, n, S)
      BY <1>3
    <2> HIDE DEF S, G, n
    <2>2. \E f \in [0 .. n -> S] :
             f[0] = mem /\ \A i \in 1 .. n : f[i] = G[i][f[i - 1]]
      BY <1>1, <2>1, LoopRuns
    <2> QED  BY <2>2 DEF n
  <1>5. \A i \in 1 .. 5 : f[i] = Remap(f[i - 1], Remaps[i])
    <2> SUFFICES ASSUME NEW i \in 1 .. 5 PROVE f[i] = Remap(f[i - 1], Remaps[i])
      OBVIOUS
    <2>1. i - 1 \in 0 .. 5
      OBVIOUS
    <2>2. f[i - 1] \in S
      BY <2>1
    <2> QED  BY <1>4, <2>2
  <1>6. Turns(f)
    <2> HIDE DEF S
    <2>1. \A i \in 0 .. 5 : i # 0 => i \in 1 .. 5
      OBVIOUS
    <2>2. \A i \in 0 .. 5 : f[i] = IF i = 0 THEN mem ELSE Remap(f[i - 1], Remaps[i])
      BY <1>4, <1>5, <2>1
    <2> QED  BY <2>2
  <1>7. Turns(Remapped)
    <2>1. Remapped = CHOOSE g : Turns(g)
      BY DEF Remapped
    <2> HIDE DEF Turns
    <2> QED  BY <1>6, <2>1
  <1>8. /\ Remapped[0] = mem
        /\ \A i \in 1 .. 5 : Remapped[i] = Remap(Remapped[i - 1], Remaps[i])
    <2>1. \A i \in 1 .. 5 : i \in 0 .. 5 /\ i # 0
      OBVIOUS
    <2>2. 0 \in 0 .. 5
      OBVIOUS
    <2> DEFINE R == Remapped
    <2>3. Turns(R)
      BY <1>7
    <2> HIDE DEF R
    <2>4. R[0] = mem
      BY <2>2, <2>3
    <2>5. \A i \in 1 .. 5 : R[i] = Remap(R[i - 1], Remaps[i])
      BY <2>1, <2>3
    <2> QED  BY <2>4, <2>5 DEF R
  <1> DEFINE I == {i \in 0 .. 5 : Remapped[i] \in S}
  <1>9. 0 \in I
    BY <1>1, <1>8
  <1>10. ASSUME NEW i \in 0 .. 5, i # 0, i - 1 \in I PROVE i \in I
    <2>1. i \in 1 .. 5 /\ Remapped[i - 1] \in S
      BY <1>10
    <2> QED  BY <1>2, <1>8, <2>1, RemapTurn
  <1>11. 0 .. 5 \subseteq I
    <2>1. 0 \in Nat /\ 5 \in Nat /\ 0 <= 5
      OBVIOUS
    <2> HIDE DEF I
    <2> QED  BY <1>9, <1>10, <2>1, IndicesInduction
  <1> QED  BY <1>11

-----------------------------------------------------------------------------
\* The segments of the module.

Segments == [v_addr : Nat, f_offs : Nat, f_size : Nat \ {0}, m_size : Nat,
             writable : BOOLEAN]

FirstFrame(p) == (p.f_offs + image.mod_start) \div PAGE_SIZE

SegmentRights(p) == IF p.writable THEN {"P", "W", "U"} ELSE {"P", "U"}

\* The pages root_invoke() maps for a segment, and what it puts there.
OfSegment(p, q) == FirstPage(p) <= q /\ q < FirstPage(p) + SegmentPages(p)

SegmentCell(p, q) == [frame |-> FirstFrame(p) + q - FirstPage(p),
                      attr  |-> SegmentRights(p)]

LEMMA LowPages ==
    /\ Split \in Nat /\ mempool_f \in Nat /\ mempool_f <= Split
    /\ \A q \in Nat : q < Split => q \in Pages
  <1>1. /\ PTES \in Nat /\ DIRS \in Nat /\ LINK_DIR \in Nat /\ LINK_DIR <= DIRS
    BY MemoryAssumption
  <1>2. LINK_DIR * PTES \in Nat /\ DIRS * PTES \in Nat /\ LINK_DIR * PTES <= DIRS * PTES
    BY <1>1
  <1>3. mempool_f \in Nat /\ mempool_f <= Split
    <2>1. /\ user_stack_bottom + 1 + MAIN_STACK_PAGES <= Split
          /\ MAIN_STACK_PAGES \in Nat
      BY MachineAssumption DEF Split
    <2>2. /\ {mempool_f, mempool_e, user_stack_bottom} \subseteq Nat
          /\ mempool_f <= mempool_e /\ mempool_e <= user_stack_bottom
      BY LayoutAssumption
    <2>3. Split \in Nat
      BY <1>2 DEF Split
    <2> QED  BY <2>1, <2>2, <2>3
  <1> DEFINE a == LINK_DIR * PTES
             b == DIRS * PTES
  <1>4. a \in Nat /\ b \in Nat /\ a <= b
    BY <1>2
  <1>5. Split = a /\ Pages = 0 .. b - 1
    BY DEF Split, Pages
  <1> HIDE DEF a, b
  <1> QED  BY <1>3, <1>4, <1>5

LEMMA DivSum ==
    ASSUME NEW k \in Nat \ {0}, NEW a \in Nat, NEW b \in Nat
    PROVE  /\ (a \div k) + (b \div k) <= (a + b) \div k
           /\ (a + b) \div k <= (a \div k) + (b \div k) + 1
  <1> DEFINE x == a \div k
             y == b \div k
             c == k * (x + y)
             d == k * (x + y + 2)
  <1>1. x \in Nat /\ y \in Nat /\ k * x <= a /\ k * y <= b
        /\ a < k * x + k /\ b < k * y + k
    BY DivRest
  <1> HIDE DEF x, y
  <1>2. c <= a + b /\ c \in Int /\ x + y \in Int /\ a + b \in Int /\ c = k * (x + y) + 0
    BY <1>1
  <1>3. c \div k = x + y
    <2> HIDE DEF c
    <2> QED  BY <1>1, <1>2, DivUnique
  <1>5. a + b < d /\ d = (x + y + 2) * k /\ x + y + 2 \in Nat /\ a + b \in Nat
    BY <1>1
  <1> HIDE DEF c, d
  <1>4. c \div k <= (a + b) \div k
    BY <1>2, DivMono
  <1>6. (a + b) \div k < x + y + 2
    <2> DEFINE z == a + b
               w == x + y + 2
    <2>1. z \in Nat /\ w \in Nat /\ z < w * k
      BY <1>5
    <2> HIDE DEF z, w
    <2>2. z \div k < w
      BY <2>1, DivBelow
    <2> QED  BY <2>2 DEF z, w
  <1>7. (a + b) \div k \in Int
    BY <1>2, DivRest
  <1> QED  BY <1>1, <1>3, <1>4, <1>6, <1>7 DEF x, y

\* The pages mapped are among those the segment's bytes are on, below the heap.
LEMMA SegmentExtent ==
    ASSUME image \in Images, NEW i \in DOMAIN image.segments,
           NEW p, p = image.segments[i]
    PROVE  /\ p \in Segments
           /\ FirstPage(p) \in Nat /\ SegmentPages(p) \in Nat \ {0} /\ LastPage(p) \in Nat
           /\ SegmentPages(p) = ((p.f_size - 1) \div PAGE_SIZE) + 1
           /\ FirstPage(p) + SegmentPages(p) - 1 <= LastPage(p)
           /\ LastPage(p) <= FirstPage(p) + SegmentPages(p)
           /\ LastPage(p) < mempool_f
  <1>1. /\ WellLinked(image) /\ PAGE_SIZE \in Nat \ {0}
    BY ImagesAssumption, PoolAssumption
  <1>2. p \in Segments
    <2>1. image.segments \in Seq(Segments)
      BY <1>1 DEF WellLinked, Segments
    <2> QED  BY <2>1
  <1> DEFINE v == p.v_addr
             f == p.f_size
             last == f - 1
  <1>3. v \in Nat /\ f \in Nat \ {0} /\ last \in Nat /\ v + last \in Nat
    BY <1>2 DEF Segments
  <1>4. v + f <= mempool_f * PAGE_SIZE
    BY <1>1 DEF WellLinked
  <1>5. LastPage(p) = (v + last) \div PAGE_SIZE
    <2>1. v + last = v + f - 1
      BY <1>3
    <2> QED  BY <2>1 DEF LastPage
  <1>6. SegmentPages(p) = (last + PAGE_SIZE) \div PAGE_SIZE
    <2>1. last + PAGE_SIZE = f + PAGE_SIZE - 1
      BY <1>1, <1>3
    <2> QED  BY <2>1 DEF SegmentPages
  <1> HIDE DEF v, last
  <1>7. SegmentPages(p) = (last \div PAGE_SIZE) + 1 /\ last \div PAGE_SIZE \in Nat
    <2>1. last \in Int /\ PAGE_SIZE \in Nat \ {0}
      BY <1>1, <1>3
    <2>2. (last + PAGE_SIZE) \div PAGE_SIZE = (last \div PAGE_SIZE) + 1
      BY <2>1, DivNext
    <2>3. last \div PAGE_SIZE \in Nat
      BY <1>3, <2>1, DivRest
    <2> QED  BY <1>6, <2>2, <2>3
  <1>8. FirstPage(p) = v \div PAGE_SIZE /\ FirstPage(p) \in Nat /\ LastPage(p) \in Nat
    <2> DEFINE w == v + last
    <2>1. w \in Nat /\ w \in Int /\ v \in Int
      BY <1>3
    <2> HIDE DEF w
    <2>2. w \div PAGE_SIZE \in Nat
      BY <1>1, <2>1, DivRest
    <2>3. v \div PAGE_SIZE \in Nat
      BY <1>1, <1>3, <2>1, DivRest
    <2> QED  BY <1>5, <2>2, <2>3 DEF FirstPage, v, w
  <1>9. /\ (v \div PAGE_SIZE) + (last \div PAGE_SIZE) <= LastPage(p)
        /\ LastPage(p) <= (v \div PAGE_SIZE) + (last \div PAGE_SIZE) + 1
    BY <1>1, <1>3, <1>5, DivSum
  <1>10. v + last < mempool_f * PAGE_SIZE
    <2> DEFINE end == mempool_f * PAGE_SIZE
    <2>1. end \in Int /\ v + f <= end
      BY <1>1, <1>4, LowPages
    <2> HIDE DEF end
    <2>2. v + last < end
      BY <1>3, <2>1 DEF last
    <2> QED  BY <2>2 DEF end
  <1>11. LastPage(p) < mempool_f
    BY <1>1, <1>3, <1>5, <1>10, DivBelow, LowPages
  <1>12. /\ FirstPage(p) + SegmentPages(p) - 1 <= LastPage(p)
         /\ LastPage(p) <= FirstPage(p) + SegmentPages(p)
    BY <1>7, <1>8, <1>9
  <1> QED  BY <1>2, <1>7, <1>8, <1>11, <1>12 DEF last

\* The module is behind the pool, and so are its frames.
LEMMA ModuleFar ==
    ASSUME image \in Images, NEW i \in DOMAIN image.segments,
           NEW p, p = image.segments[i]
    PROVE  FirstFrame(p) \in Int /\ Far(FirstFrame(p))
  <1> DEFINE o == p.f_offs
             b == image.mod_start
             f == b \div PAGE_SIZE
             g == (o + b) \div PAGE_SIZE
  <1>1. /\ PAGE_SIZE \in Nat \ {0} /\ b \in Nat /\ POOL_E <= b /\ b % PAGE_SIZE = 0
    BY ImagesAssumption, PoolAssumption DEF WellLinked
  <1>2. o \in Nat
    BY SegmentExtent DEF Segments
  <1> HIDE DEF o, b
  <1>3. o + b \in Nat /\ b <= o + b
    BY <1>1, <1>2
  <1>4. f \in Int /\ g \in Int /\ f <= g
    <2> DEFINE c == o + b
    <2>1. b \in Int /\ c \in Int /\ b <= c
      BY <1>1, <1>3
    <2> HIDE DEF c
    <2>2. b \div PAGE_SIZE \in Int /\ c \div PAGE_SIZE \in Int
      BY <1>1, <2>1, DivRest
    <2>3. b \div PAGE_SIZE <= c \div PAGE_SIZE
      BY <1>1, <2>1, DivMono
    <2> QED  BY <2>2, <2>3 DEF c
  <1>5. f * PAGE_SIZE = b
    <2>1. b = PAGE_SIZE * f + (b % PAGE_SIZE)
      BY <1>1, DivRest
    <2> HIDE DEF f
    <2> QED  BY <1>1, <1>4, <2>1
  <1> HIDE DEF f, g
  <1>6. Far(g)
    BY <1>1, <1>4, <1>5, FarUp DEF Far
  <1> QED  BY <1>4, <1>6 DEF FirstFrame, g, o, b

\* What is not bad begins in its first frame where it begins in its first page.
LEMMA SegmentOffset ==
    ASSUME image \in Images, NEW i \in DOMAIN image.segments,
           NEW p, p = image.segments[i], ~ BadSegment(p)
    PROVE  /\ p.f_offs + image.mod_start =
                 PAGE_SIZE * FirstFrame(p) + (p.v_addr % PAGE_SIZE)
           /\ p.v_addr = PAGE_SIZE * FirstPage(p) + (p.v_addr % PAGE_SIZE)
           /\ p.v_addr % PAGE_SIZE \in 0 .. PAGE_SIZE - 1
  <1> DEFINE o == p.f_offs
             b == image.mod_start
             v == p.v_addr
             B == b \div PAGE_SIZE
             O == o \div PAGE_SIZE
             r == v % PAGE_SIZE
  <1>1. /\ PAGE_SIZE \in Nat \ {0} /\ b \in Nat /\ b % PAGE_SIZE = 0
    BY ImagesAssumption, PoolAssumption DEF WellLinked
  <1>2. o \in Nat /\ v \in Nat
    BY SegmentExtent DEF Segments
  <1>3. o % PAGE_SIZE = r
    BY DEF BadSegment
  <1> HIDE DEF o, b, v
  <1>4. /\ o = PAGE_SIZE * O + r /\ b = PAGE_SIZE * B + 0 /\ r \in 0 .. PAGE_SIZE - 1
        /\ v = PAGE_SIZE * (v \div PAGE_SIZE) + r /\ O \in Int /\ B \in Int
    BY <1>1, <1>2, <1>3, DivRest
  <1> HIDE DEF O, B, r
  <1>5. o + b = PAGE_SIZE * (O + B) + r /\ O + B \in Int /\ o + b \in Int
    BY <1>1, <1>2, <1>4
  <1>6. (o + b) \div PAGE_SIZE = O + B
    BY <1>1, <1>4, <1>5, DivUnique
  <1>7. o + b = PAGE_SIZE * FirstFrame(p) + r
    BY <1>5, <1>6 DEF FirstFrame, o, b
  <1> QED  BY <1>4, <1>7 DEF FirstPage, o, b, v, r

\* A page with bytes of a segment on it.
OnSegment(p, page) == FirstPage(p) <= page /\ page <= LastPage(p)

\* Two segments on one page agree on what is there.
LEMMA SegmentsAgree ==
    ASSUME image \in Images,
           NEW i \in DOMAIN image.segments, NEW j \in DOMAIN image.segments, i < j,
           NEW p, p = image.segments[i], ~ BadSegment(p),
           NEW q, q = image.segments[j], ~ BadSegment(q),
           NEW page \in Int, OnSegment(p, page), OnSegment(q, page)
    PROVE  /\ SegmentCell(p, page).frame = SegmentCell(q, page).frame
           /\ SegmentRights(p) \subseteq SegmentRights(q)
  <1>1. /\ p \in Segments /\ q \in Segments
        /\ FirstPage(p) \in Nat /\ LastPage(p) \in Nat
        /\ FirstPage(q) \in Nat /\ LastPage(q) \in Nat
    BY SegmentExtent
  <1>2. FirstPage(p) <= LastPage(q) /\ FirstPage(q) <= LastPage(p)
    BY <1>1 DEF OnSegment
  <1>3. p.v_addr - p.f_offs = q.v_addr - q.f_offs /\ (p.writable => q.writable)
    BY <1>2, ImagesAssumption DEF WellLinked
  <1> DEFINE A == FirstPage(p)
             B == FirstPage(q)
             F == FirstFrame(p)
             G == FirstFrame(q)
             r == p.v_addr % PAGE_SIZE
             t == q.v_addr % PAGE_SIZE
             m == image.mod_start
  <1>4. /\ p.f_offs + m = PAGE_SIZE * F + r /\ p.v_addr = PAGE_SIZE * A + r
        /\ q.f_offs + m = PAGE_SIZE * G + t /\ q.v_addr = PAGE_SIZE * B + t
        /\ r \in Int /\ t \in Int
    BY SegmentOffset
  <1>5. F \in Int /\ G \in Int /\ A \in Int /\ B \in Int
    BY <1>1, ModuleFar
  <1>6. PAGE_SIZE \in Nat \ {0} /\ m \in Int
    <2>1. WellLinked(image)
      BY ImagesAssumption
    <2> QED  BY <2>1, PoolAssumption DEF WellLinked
  <1>7. p.v_addr \in Int /\ p.f_offs \in Int /\ q.v_addr \in Int /\ q.f_offs \in Int
    BY <1>1 DEF Segments
  <1> HIDE DEF A, B, F, G, r, t, m
  <1>8. PAGE_SIZE * (A - F) = PAGE_SIZE * (B - G)
    <2> DEFINE x == PAGE_SIZE * A
               y == PAGE_SIZE * F
               z == PAGE_SIZE * B
               w == PAGE_SIZE * G
    <2>1. x \in Int /\ y \in Int /\ z \in Int /\ w \in Int
      BY <1>5, <1>6
    <2>2. PAGE_SIZE * (A - F) = x - y /\ PAGE_SIZE * (B - G) = z - w
      BY <1>5, <1>6
    <2> HIDE DEF x, y, z, w
    <2>3. x - y = z - w
      <3> DEFINE pv == p.v_addr
                 po == p.f_offs
                 qv == q.v_addr
                 qo == q.f_offs
      <3>1. /\ pv - po = qv - qo
            /\ po + m = y + r /\ pv = x + r /\ qo + m = w + t /\ qv = z + t
        BY <1>3, <1>4 DEF x, y, z, w
      <3>2. pv \in Int /\ po \in Int /\ qv \in Int /\ qo \in Int
        BY <1>7
      <3> HIDE DEF pv, po, qv, qo
      <3> QED  BY <1>4, <1>6, <2>1, <3>1, <3>2
    <2> QED  BY <2>2, <2>3
  <1>9. A - F = B - G
    BY <1>5, <1>6, <1>8
  <1>10. F + page - A = G + page - B
    BY <1>5, <1>9
  <1>11. SegmentRights(p) \subseteq SegmentRights(q)
    BY <1>3 DEF SegmentRights
  <1> QED  BY <1>10, <1>11 DEF SegmentCell, A, B, F, G

\* One turn of the loop over the program headers.
SegmentTurn(v, p) ==
    MapRange(v, FirstPage(p), FirstFrame(p), SegmentPages(p), SegmentRights(p))

\* The pages of a segment are the user's, below LINK_ADDR.
LEMMA SegmentLow ==
    ASSUME image \in Images, NEW i \in DOMAIN image.segments,
           NEW p, p = image.segments[i]
    PROVE  /\ \A q \in Int : OfSegment(p, q) =>
                 OnSegment(p, q) /\ q \in Pages /\ q < Split /\ q < mempool_f
           /\ SegmentRights(p) \in SUBSET UserRights
           /\ "P" \in SegmentRights(p) /\ "U" \in SegmentRights(p)
  <1>1. /\ FirstPage(p) \in Nat /\ SegmentPages(p) \in Nat /\ LastPage(p) \in Nat
        /\ FirstPage(p) + SegmentPages(p) - 1 <= LastPage(p) /\ LastPage(p) < mempool_f
    BY SegmentExtent
  <1>2. ASSUME NEW q \in Int, OfSegment(p, q)
        PROVE  OnSegment(p, q) /\ q \in Pages /\ q < Split /\ q < mempool_f
    <2>1. FirstPage(p) <= q /\ q <= LastPage(p)
      BY <1>1, <1>2 DEF OfSegment
    <2>2. q \in Nat /\ q < mempool_f /\ q < Split
      BY <1>1, <2>1, LowPages
    <2> QED  BY <2>1, <2>2, LowPages DEF OnSegment
  <1> QED  BY <1>2 DEF SegmentRights, UserRights

LEMMA SegmentShape ==
    ASSUME image \in Images, NEW i \in DOMAIN image.segments,
           NEW p, p = image.segments[i], NEW v, Shape(v, RunDirs)
    PROVE  Shape(SegmentTurn(v, p), RunDirs)
  <1> DEFINE page == FirstPage(p)
             frame == FirstFrame(p)
             count == SegmentPages(p)
             attr == SegmentRights(p)
  <1>1. page \in Int /\ count \in Nat /\ frame \in Int
    BY SegmentExtent, ModuleFar
  <1>2. attr \in SUBSET {"P", "W", "U"} /\ "P" \in attr /\ "U" \in attr
    BY SegmentLow DEF UserRights
  <1>3. \A k \in 1 .. count : page + k - 1 \in Pages /\ page + k - 1 < Split
    <2> SUFFICES ASSUME NEW k \in 1 .. count
                 PROVE  page + k - 1 \in Pages /\ page + k - 1 < Split
      OBVIOUS
    <2>1. page + k - 1 \in Int /\ page <= page + k - 1 /\ page + k - 1 < page + count
      BY <1>1
    <2> QED  BY <2>1, SegmentLow DEF OfSegment
  <1> HIDE DEF page, frame, count, attr
  <1>4. \A k \in 1 .. count : Mapping(page + k - 1, frame + k - 1, attr, RunDirs)
    <2> SUFFICES ASSUME NEW k \in 1 .. count
                 PROVE  Mapping(page + k - 1, frame + k - 1, attr, RunDirs)
      OBVIOUS
    <2> DEFINE g == frame + k - 1
    <2>1. g \in Int
      BY <1>1
    <2> HIDE DEF g
    <2>2. Mapping(page + k - 1, g, attr, RunDirs)
      BY <1>2, <1>3, <2>1, MappingLow
    <2> QED  BY <2>2 DEF g
  <1>5. LinkDirs \subseteq RunDirs
    BY DEF RunDirs
  <1>6. \E f : /\ MapRange(v, page, frame, count, attr) = f[count]
               /\ \A k \in 0 .. count : Shape(f[k], RunDirs)
    BY <1>1, <1>4, <1>5, MapRangeTurns
  <1>7. count \in 0 .. count
    BY <1>1
  <1> QED  BY <1>6, <1>7 DEF SegmentTurn, page, frame, count, attr

\* How far the loop over the program headers comes.
LEMMA LastSegment ==
    ASSUME image \in Images,
           NEW bad, bad = {i \in DOMAIN image.segments : BadSegment(image.segments[i])},
           NEW n, n = IF bad = {} THEN Len(image.segments) ELSE Min(bad) - 1
    PROVE  /\ n \in Nat /\ n <= Len(image.segments)
           /\ \A i \in 1 .. n : i \in DOMAIN image.segments /\ ~ BadSegment(image.segments[i])
           /\ bad = {} => n = Len(image.segments)
  <1> DEFINE l == Len(image.segments)
  <1>1. l \in Nat /\ DOMAIN image.segments = 1 .. l
    <2>1. image.segments \in Seq(Segments)
      BY ImagesAssumption DEF WellLinked, Segments
    <2> QED  BY <2>1, LenProperties
  <1> HIDE DEF l
  <1>2. CASE bad = {}
    BY <1>1, <1>2 DEF l
  <1>3. CASE bad # {}
    <2>1. bad \in SUBSET Nat
      BY <1>1
    <2>2. \E i \in bad : \A j \in bad : i <= j
      BY <1>3, <2>1, LeastIndex
    <2> DEFINE m == Min(bad)
    <2>3. m \in bad /\ \A j \in bad : m <= j
      BY <2>2 DEF Min
    <2> HIDE DEF m
    <2>4. m \in 1 .. l /\ n = m - 1
      BY <1>1, <1>3, <2>3 DEF m
    <2>5. \A i \in 1 .. n : i \in 1 .. l /\ i \notin bad
      BY <1>1, <2>1, <2>3, <2>4
    <2>6. \A i \in 1 .. n : i \in DOMAIN image.segments
      BY <1>1, <2>5
    <2>7. \A i \in 1 .. n : ~ BadSegment(image.segments[i])
      BY <2>5, <2>6
    <2>8. n \in Nat /\ n <= l
      BY <1>1, <2>4
    <2> QED  BY <1>3, <2>6, <2>7, <2>8 DEF l
  <1> QED  BY <1>2, <1>3

\* The stores it goes through.
LoadTurns(f, s, n) ==
    /\ f[0] = s
    /\ \A i \in 1 .. n : f[i] = SegmentTurn(f[i - 1], image.segments[i])

LEMMA LoadedTurns ==
    ASSUME image \in Images, NEW s, Shape(s, RunDirs)
    PROVE  \E n \in Nat : \E f :
              /\ Loaded(s) = f[n] /\ LoadTurns(f, s, n)
              /\ \A i \in 1 .. n : /\ i \in DOMAIN image.segments
                                   /\ ~ BadSegment(image.segments[i])
              /\ (\A p \in Range(image.segments) : ~ BadSegment(p)) =>
                    n = Len(image.segments)
  <1> DEFINE bad == {i \in DOMAIN image.segments : BadSegment(image.segments[i])}
             n == IF bad = {} THEN Len(image.segments) ELSE Min(bad) - 1
             S == {v \in Stores : Shape(v, RunDirs)}
             G == [i \in 1 .. n |-> [v \in S |-> SegmentTurn(v, image.segments[i])]]
             Turns(f) == f = [i \in 0 .. n |-> IF i = 0 THEN s
                                ELSE SegmentTurn(f[i - 1], image.segments[i])]
             F == CHOOSE f : Turns(f)
  <1>1. /\ n \in Nat /\ n <= Len(image.segments)
        /\ \A i \in 1 .. n : i \in DOMAIN image.segments /\ ~ BadSegment(image.segments[i])
        /\ bad = {} => n = Len(image.segments)
    BY LastSegment
  <1>2. Loaded(s) = F[n]
    BY DEF Loaded, SegmentTurn, FirstFrame, SegmentRights
  <1>3. (\A p \in Range(image.segments) : ~ BadSegment(p)) => n = Len(image.segments)
    <2>1. ASSUME \A p \in Range(image.segments) : ~ BadSegment(p) PROVE bad = {}
      BY <2>1 DEF Range
    <2> QED  BY <1>1, <2>1
  <1> HIDE DEF n, bad
  <1>4. s \in S
    BY DEF Shape
  <1>5. ASSUME NEW i \in 1 .. n, NEW v \in S
        PROVE  SegmentTurn(v, image.segments[i]) \in S
    <2>1. Shape(SegmentTurn(v, image.segments[i]), RunDirs)
      BY <1>1, SegmentShape
    <2> QED  BY <2>1 DEF Shape
  <1>6. KeptIn(G, 1, n, S)
    <2>1. ASSUME NEW i \in 1 .. n, NEW v \in S PROVE G[i][v] \in S
      BY <1>5
    <2> HIDE DEF G
    <2> QED  BY <2>1 DEF KeptIn
  <1>7. PICK f \in [0 .. n -> S] :
           f[0] = s /\ \A i \in 1 .. n : f[i] = G[i][f[i - 1]]
    <2> HIDE DEF S, G
    <2> QED  BY <1>1, <1>4, <1>6, LoopRuns
  <1>8. ASSUME NEW i \in 1 .. n
        PROVE  f[i] = SegmentTurn(f[i - 1], image.segments[i])
    <2>1. i - 1 \in 0 .. n
      BY <1>1
    <2>2. f[i - 1] \in S
      BY <2>1
    <2>3. G[i][f[i - 1]] = SegmentTurn(f[i - 1], image.segments[i])
      BY <2>2
    <2> QED  BY <1>7, <2>3
  <1>9. Turns(f)
    <2> HIDE DEF S
    <2>1. \A i \in 0 .. n : i # 0 => i \in 1 .. n
      BY <1>1
    <2>2. \A i \in 0 .. n : f[i] = IF i = 0 THEN s
              ELSE SegmentTurn(f[i - 1], image.segments[i])
      BY <1>7, <1>8, <2>1
    <2> QED  BY <2>2
  <1>10. Turns(F)
    <2> HIDE DEF Turns
    <2> QED  BY <1>9
  <1> HIDE DEF F
  <1>11. LoadTurns(F, s, n)
    <2>1. F[0] = s
      BY <1>1, <1>10
    <2>2. ASSUME NEW i \in 1 .. n PROVE F[i] = SegmentTurn(F[i - 1], image.segments[i])
      <3>1. i \in 0 .. n /\ i # 0
        BY <1>1
      <3> QED  BY <1>10, <3>1
    <2> QED  BY <2>1, <2>2 DEF LoadTurns
  <1> QED  BY <1>1, <1>2, <1>3, <1>11

\* Page q shows what segment p has there, with the rights of the segment at least.
Shows(m, p, q) == /\ Walk(m, q).frame = SegmentCell(p, q).frame
                  /\ SegmentRights(p) \subseteq Walk(m, q).attr

Shown(m, p) == \A q \in Int : OfSegment(p, q) => Shows(m, p, q)

\* Nothing is there, or what one of the first i segments put there.
OfSegments(m, q, i) ==
    \/ Walk(m, q) = Zero
    \/ \E j \in 1 .. i : /\ OfSegment(image.segments[j], q)
                         /\ Walk(m, q) = SegmentCell(image.segments[j], q)

\* v is s after i segments.
Progress(s, v, i) ==
    /\ Shape(v, RunDirs) /\ Safe(v)
    /\ s.pool.oom => v.pool.oom
    /\ \A q \in Pages : Split <= q => Walk(v.mem, q) = Walk(s.mem, q)
    /\ \A q \in Pages : q < Split => OfSegments(v.mem, q, i)
    /\ ~ v.pool.oom => \A j \in 1 .. i : Shown(v.mem, image.segments[j])

Good(i) == i \in DOMAIN image.segments /\ ~ BadSegment(image.segments[i])

LEMMA LoadStep ==
    ASSUME image \in Images, NEW s, NEW v, NEW i \in Nat \ {0}, \A j \in 1 .. i : Good(j),
           NEW p, p = image.segments[i], Progress(s, v, i - 1),
           NEW r, r = SegmentTurn(v, p)
    PROVE  Progress(s, r, i)
  <1> DEFINE page == FirstPage(p)
             frame == FirstFrame(p)
             count == SegmentPages(p)
             attr == SegmentRights(p)
             C == RangeCells(page, frame, attr)
  <1>1. /\ page \in Int /\ count \in Nat /\ frame \in Int /\ Far(frame)
        /\ attr \in SUBSET {"P", "W", "U"} /\ "P" \in attr /\ "U" \in attr
    <2>1. Good(i)
      OBVIOUS
    <2>2. i \in DOMAIN image.segments
      BY <2>1 DEF Good
    <2>3. page \in Int /\ count \in Nat
      BY <2>2, SegmentExtent
    <2>4. frame \in Int /\ Far(frame)
      BY <2>2, ModuleFar
    <2>5. attr \in SUBSET {"P", "W", "U"} /\ "P" \in attr /\ "U" \in attr
      BY <2>2, SegmentLow DEF UserRights
    <2> QED  BY <2>3, <2>4, <2>5
  <1>2. \A q \in Int : OfSegment(p, q) => OnSegment(p, q) /\ q \in Pages /\ q < Split
    <2>1. Good(i)
      OBVIOUS
    <2> QED  BY <2>1, SegmentLow DEF Good
  <1>3. \A q \in Int : OfSegment(p, q) <=> q \in page .. page + count - 1
    BY <1>1 DEF OfSegment
  <1>4. ASSUME NEW j \in 1 .. i - 1, NEW q \in Int, OfSegment(p, q),
               OfSegment(image.segments[j], q)
        PROVE  /\ SegmentCell(image.segments[j], q).frame = frame + q - page
               /\ SegmentRights(image.segments[j]) \subseteq attr
    <2> DEFINE o == image.segments[j]
    <2>1. Good(i) /\ Good(j) /\ j < i
      OBVIOUS
    <2>2. OnSegment(p, q) /\ OnSegment(o, q)
      BY <1>2, <1>4, <2>1, SegmentLow DEF Good
    <2>3. /\ SegmentCell(o, q).frame = SegmentCell(p, q).frame
          /\ SegmentRights(o) \subseteq SegmentRights(p)
      <3> HIDE DEF o
      <3>1. o = image.segments[j]
        BY DEF o
      <3>2. /\ i \in DOMAIN image.segments /\ j \in DOMAIN image.segments
            /\ ~ BadSegment(p) /\ ~ BadSegment(o)
        BY <2>1, <3>1 DEF Good
      <3> QED  BY <2>1, <2>2, <3>1, <3>2, SegmentsAgree
    <2> QED  BY <2>3 DEF SegmentCell
  <1>5. /\ Shape(v, RunDirs) /\ Safe(v) /\ (s.pool.oom => v.pool.oom)
        /\ \A q \in Pages : Split <= q => Walk(v.mem, q) = Walk(s.mem, q)
        /\ \A q \in Pages : q < Split => OfSegments(v.mem, q, i - 1)
        /\ ~ v.pool.oom => \A j \in 1 .. i - 1 : Shown(v.mem, image.segments[j])
    BY DEF Progress
  <1>6. \A q \in page .. page + count - 1 :
           /\ q \in Pages /\ q < Split
           /\ \/ Walk(v.mem, q) = Zero
              \/ /\ Walk(v.mem, q).frame = frame + q - page
                 /\ Walk(v.mem, q).attr \subseteq attr
    <2> SUFFICES ASSUME NEW q \in page .. page + count - 1
                 PROVE  /\ q \in Pages /\ q < Split
                        /\ \/ Walk(v.mem, q) = Zero
                           \/ /\ Walk(v.mem, q).frame = frame + q - page
                              /\ Walk(v.mem, q).attr \subseteq attr
      OBVIOUS
    <2>1. q \in Int /\ OfSegment(p, q)
      <3>1. q \in Int
        BY <1>1
      <3> QED  BY <1>3, <3>1
    <2>2. q \in Pages /\ q < Split
      BY <1>2, <2>1
    <2>3. CASE Walk(v.mem, q) = Zero
      BY <2>2, <2>3
    <2>4. CASE Walk(v.mem, q) # Zero
      <3>1. PICK j \in 1 .. i - 1 : /\ OfSegment(image.segments[j], q)
                                    /\ Walk(v.mem, q) = SegmentCell(image.segments[j], q)
        BY <1>5, <2>2, <2>4 DEF OfSegments
      <3>2. SegmentCell(image.segments[j], q).attr = SegmentRights(image.segments[j])
        BY DEF SegmentCell
      <3> HIDE DEF page, frame, attr
      <3> QED  BY <1>4, <2>1, <2>2, <3>1, <3>2
    <2> QED  BY <2>3, <2>4
  <1>7. r = MapRange(v, page, frame, count, attr)
    BY DEF SegmentTurn
  <1> HIDE DEF page, frame, count, attr
  <1>8. /\ Shape(r, RunDirs) /\ Safe(r)
        /\ Added(v, r, page, page + count, C)
    BY <1>1, <1>5, <1>6, <1>7, MapRangeKeeps
  <1>9. ASSUME NEW q \in Pages PROVE C[q] = {SegmentCell(p, q)}
    BY DEF RangeCells, SegmentCell, page, frame, attr
  <1> HIDE DEF C
  <1>10. /\ v.pool.oom => r.pool.oom
         /\ \A q \in Pages : ~ OfSegment(p, q) => Walk(r.mem, q) = Walk(v.mem, q)
         /\ \A q \in Pages : \/ Walk(r.mem, q) = Walk(v.mem, q)
                             \/ OfSegment(p, q) /\ Walk(r.mem, q) = SegmentCell(p, q)
         /\ ~ r.pool.oom =>
               \A q \in Pages : OfSegment(p, q) => Walk(r.mem, q) = SegmentCell(p, q)
    <2>1. \A q \in Pages : OfSegment(p, q) <=> (page <= q /\ q < page + count)
      BY DEF OfSegment, page, count
    <2> QED  BY <1>8, <1>9, <2>1 DEF Added
  <1>11. \A q \in Pages : Split <= q => Walk(r.mem, q) = Walk(s.mem, q)
    <2> SUFFICES ASSUME NEW q \in Pages, Split <= q PROVE Walk(r.mem, q) = Walk(s.mem, q)
      OBVIOUS
    <2>1. q \in Int /\ Split \in Int
      BY LowPages DEF Pages
    <2>2. ~ OfSegment(p, q)
      BY <1>2, <2>1
    <2> QED  BY <1>5, <1>10, <2>2
  <1>12. \A q \in Pages : q < Split => OfSegments(r.mem, q, i)
    <2> SUFFICES ASSUME NEW q \in Pages, q < Split PROVE OfSegments(r.mem, q, i)
      OBVIOUS
    <2>1. i \in 1 .. i /\ 1 .. i - 1 \subseteq 1 .. i
      OBVIOUS
    <2>2. CASE Walk(r.mem, q) = Walk(v.mem, q)
      BY <1>5, <2>1, <2>2 DEF OfSegments
    <2>3. CASE OfSegment(p, q) /\ Walk(r.mem, q) = SegmentCell(p, q)
      BY <2>1, <2>3 DEF OfSegments
    <2> QED  BY <1>10, <2>2, <2>3
  <1>13. ASSUME ~ r.pool.oom, NEW j \in 1 .. i, NEW q \in Int,
                OfSegment(image.segments[j], q)
         PROVE  Shows(r.mem, image.segments[j], q)
    <2>1. q \in Pages
      <3>1. Good(j)
        OBVIOUS
      <3> QED  BY <1>13, <3>1, SegmentLow DEF Good
    <2>2. CASE j = i
      <3>1. Walk(r.mem, q) = SegmentCell(p, q)
        BY <1>10, <1>13, <2>1, <2>2
      <3> QED  BY <2>2, <3>1 DEF Shows, SegmentCell
    <2>3. CASE j # i
      <3>1. j \in 1 .. i - 1
        BY <2>3
      <3>2. Shows(v.mem, image.segments[j], q)
        BY <1>5, <1>10, <1>13, <3>1 DEF Shown
      <3>3. CASE Walk(r.mem, q) = Walk(v.mem, q)
        BY <3>2, <3>3 DEF Shows
      <3>4. CASE OfSegment(p, q) /\ Walk(r.mem, q) = SegmentCell(p, q)
        <4>1. /\ SegmentCell(image.segments[j], q).frame = frame + q - page
              /\ SegmentRights(image.segments[j]) \subseteq attr
          BY <1>4, <1>13, <3>1, <3>4
        <4> QED  BY <3>4, <4>1 DEF Shows, SegmentCell, frame, page, attr
      <3> QED  BY <1>10, <2>1, <3>3, <3>4
    <2> QED  BY <2>2, <2>3
  <1>14. ~ r.pool.oom => \A j \in 1 .. i : Shown(r.mem, image.segments[j])
    BY <1>13 DEF Shown
  <1>15. s.pool.oom => r.pool.oom
    BY <1>5, <1>10
  <1> QED  BY <1>8, <1>11, <1>12, <1>14, <1>15 DEF Progress

\* Every page of every segment shows what the module has there.
AllShown(m) == \A p \in Range(image.segments), q \in Int : OnSegment(p, q) => Shows(m, p, q)

\* The loop over the program headers, nothing of the user's being there before.
LEMMA LoadedKeeps ==
    ASSUME image \in Images, NEW s, Shape(s, RunDirs), Safe(s),
           \A q \in Pages : q < Split => Walk(s.mem, q) = Zero,
           NEW r, r = Loaded(s)
    PROVE  /\ Shape(r, RunDirs) /\ Safe(r)
           /\ s.pool.oom => r.pool.oom
           /\ \A q \in Pages : Split <= q => Walk(r.mem, q) = Walk(s.mem, q)
           /\ \A q \in Pages : q < Split /\ Walk(r.mem, q) # Zero =>
                 UserPage(r.mem, q) /\ q < mempool_f
           /\ (\A p \in Range(image.segments) : ~ BadSegment(p)) /\ ~ r.pool.oom =>
                 AllShown(r.mem)
  <1>1. PICK n \in Nat : \E f :
              /\ r = f[n] /\ LoadTurns(f, s, n)
              /\ \A i \in 1 .. n : /\ i \in DOMAIN image.segments
                                   /\ ~ BadSegment(image.segments[i])
              /\ (\A p \in Range(image.segments) : ~ BadSegment(p)) =>
                    n = Len(image.segments)
    BY LoadedTurns
  <1>2. PICK f : /\ r = f[n] /\ LoadTurns(f, s, n)
                 /\ \A i \in 1 .. n : Good(i)
                 /\ (\A p \in Range(image.segments) : ~ BadSegment(p)) =>
                       n = Len(image.segments)
    BY <1>1 DEF Good
  <1> DEFINE I == {i \in 0 .. n : Progress(s, f[i], i)}
  <1>3. 0 \in I
    <2>1. f[0] = s
      BY <1>2 DEF LoadTurns
    <2>2. Progress(s, s, 0)
      BY DEF Progress, OfSegments
    <2> QED  BY <2>1, <2>2
  <1>4. ASSUME NEW i \in 0 .. n, i # 0, i - 1 \in I PROVE i \in I
    <2> DEFINE p == image.segments[i]
               v == f[i - 1]
               w == f[i]
    <2>1. i \in Nat \ {0} /\ i \in 1 .. n /\ \A j \in 1 .. i : j \in 1 .. n
      BY <1>4
    <2>2. w = SegmentTurn(v, p) /\ (\A j \in 1 .. i : Good(j)) /\ Progress(s, v, i - 1)
      BY <1>2, <1>4, <2>1 DEF LoadTurns
    <2>3. p = image.segments[i]
      OBVIOUS
    <2> HIDE DEF p, v, w
    <2>4. Progress(s, w, i)
      BY <2>1, <2>2, <2>3, LoadStep
    <2> QED  BY <2>4 DEF w
  <1>5. 0 .. n \subseteq I
    <2>1. 0 \in Nat /\ 0 <= n
      OBVIOUS
    <2> HIDE DEF I
    <2> QED  BY <1>3, <1>4, <2>1, IndicesInduction
  <1>6. Progress(s, r, n)
    <2>1. n \in 0 .. n
      OBVIOUS
    <2> QED  BY <1>2, <1>5, <2>1
  <1>7. ASSUME NEW q \in Pages, q < Split, Walk(r.mem, q) # Zero
        PROVE  UserPage(r.mem, q) /\ q < mempool_f
    <2>1. PICK j \in 1 .. n : /\ OfSegment(image.segments[j], q)
                              /\ Walk(r.mem, q) = SegmentCell(image.segments[j], q)
      BY <1>6, <1>7 DEF Progress, OfSegments
    <2>2. q \in Int /\ Good(j)
      BY <1>2 DEF Pages
    <2>3. q < mempool_f /\ "U" \in SegmentRights(image.segments[j])
      BY <2>1, <2>2, SegmentLow DEF Good
    <2> QED  BY <2>1, <2>3 DEF UserPage, SegmentCell
  <1>8. ASSUME \A p \in Range(image.segments) : ~ BadSegment(p), ~ r.pool.oom,
               NEW p \in Range(image.segments), NEW q \in Int, OnSegment(p, q)
        PROVE  Shows(r.mem, p, q)
    <2>1. DOMAIN image.segments = 1 .. n
      <3>1. image.segments \in Seq(Segments)
        BY ImagesAssumption DEF WellLinked, Segments
      <3> QED  BY <1>2, <1>8, <3>1, LenProperties
    <2>2. PICK i \in 1 .. n : p = image.segments[i]
      BY <2>1 DEF Range
    <2>3. \A j \in 1 .. n : Shown(r.mem, image.segments[j])
      BY <1>6, <1>8 DEF Progress
    <2>4. CASE OfSegment(p, q)
      BY <2>2, <2>3, <2>4 DEF Shown
    <2>5. CASE ~ OfSegment(p, q)
      <3>1. /\ FirstPage(p) \in Nat /\ SegmentPages(p) \in Nat /\ LastPage(p) \in Nat
            /\ SegmentPages(p) = ((p.f_size - 1) \div PAGE_SIZE) + 1
            /\ LastPage(p) <= FirstPage(p) + SegmentPages(p)
        BY <2>1, <2>2, SegmentExtent
      <3>2. /\ q = LastPage(p) /\ LastPage(p) = FirstPage(p) + SegmentPages(p)
        BY <1>8, <2>5, <3>1 DEF OnSegment, OfSegment
      <3>3. LastPage(p) # FirstPage(p) + ((p.f_size - 1) \div PAGE_SIZE)
        <4> DEFINE k == (p.f_size - 1) \div PAGE_SIZE
        <4>1. SegmentPages(p) = k + 1 /\ k + 1 \in Nat
          BY <3>1
        <4>2. k \in Int
          <5>1. p \in Segments /\ PAGE_SIZE \in Nat \ {0}
            BY <2>1, <2>2, SegmentExtent, PoolAssumption
          <5>2. p.f_size - 1 \in Int
            BY <5>1 DEF Segments
          <5> QED  BY <5>1, <5>2, DivRest
        <4> HIDE DEF k
        <4>3. LastPage(p) # FirstPage(p) + k
          BY <3>1, <3>2, <4>1, <4>2
        <4> QED  BY <4>3 DEF k
      <3>4. PICK j \in 1 .. n : i < j /\ FirstPage(image.segments[j]) = q
        <4>1. WellLinked(image)
          BY ImagesAssumption
        <4>2. \/ LastPage(p) = FirstPage(p) + ((p.f_size - 1) \div PAGE_SIZE)
              \/ \E j \in DOMAIN image.segments :
                    i < j /\ FirstPage(image.segments[j]) = LastPage(p)
          BY <2>1, <2>2, <4>1 DEF WellLinked
        <4> QED  BY <2>1, <3>2, <3>3, <4>2
      <3> DEFINE o == image.segments[j]
      <3>5. o = image.segments[j]
        OBVIOUS
      <3> HIDE DEF o
      <3>6. /\ FirstPage(o) = q /\ SegmentPages(o) \in Nat \ {0} /\ LastPage(o) \in Nat
            /\ FirstPage(o) + SegmentPages(o) - 1 <= LastPage(o)
        BY <2>1, <3>4, <3>5, SegmentExtent
      <3>7. OfSegment(o, q) /\ OnSegment(o, q)
        BY <3>6 DEF OfSegment, OnSegment
      <3>8. Shows(r.mem, o, q)
        BY <2>3, <3>5, <3>7 DEF Shown
      <3>9. /\ SegmentCell(p, q).frame = SegmentCell(o, q).frame
            /\ SegmentRights(p) \subseteq SegmentRights(o)
        <4>1. Good(i) /\ Good(j)
          BY <1>2
        <4> QED  BY <1>8, <2>2, <3>4, <3>5, <3>7, <4>1, SegmentsAgree DEF Good
      <3> QED  BY <3>8, <3>9 DEF Shows
    <2> QED  BY <2>4, <2>5
  <1>9. (\A p \in Range(image.segments) : ~ BadSegment(p)) /\ ~ r.pool.oom => AllShown(r.mem)
    BY <1>8 DEF AllShown
  <1> QED  BY <1>6, <1>7, <1>9 DEF Progress

-----------------------------------------------------------------------------
\* The contexts of the ECs.

Table(f) == f = [e \in EC |-> f[e]]

Tables == Table(regs) /\ Table(left) /\ Table(cont)

\* No program runs, and no EC was scheduled, before root_invoke() is through.
Booting ==
    /\ phase # "user" => created = {}
    /\ phase \in {"root_invoke", "user"} => current \in EC

\* Every EC that was scheduled returns to user mode when its turn comes, and
\* finds what it left; the one that runs is one of them.
Resumable ==
    phase = "user" =>
        /\ created \subseteq EC /\ current \in created
        /\ \A e \in created : /\ cont[e] = "ret_user_iret"
                              /\ e # current => regs[e] = left[e]

\* The entry code saves where the TSS points: that must be the EC whose regs
\* the exit code loads.
CInv == sp0 = current /\ Tables /\ Booting /\ Resumable

LEMMA InitSwitches == Init => CInv
  BY DEF Init, CInv, Tables, Table, Booting, Resumable

\* The contexts that a step leaves alone.
LEMMA ContextsKept ==
    ASSUME CInv, UNCHANGED <<sp0, current, regs, left, cont, created>>,
           phase' = phase \/ phase' \notin {"root_invoke", "user"},
           phase' # "user" => phase # "user"
    PROVE  CInv'
  BY DEF CInv, Tables, Table, Booting, Resumable

\* bootstrap() and root_invoke() hand the processor to the root EC.
LEMMA BootKeeps ==
    ASSUME CInv, init \/ bootstrap \/ root_invoke
    PROVE  CInv'
  <1>1. CASE init
    BY <1>1, ContextsKept DEF init, contexts
  <1>2. CASE bootstrap
    BY <1>2, MachineAssumption
       DEF bootstrap, BecomeCurrent, CInv, Tables, Table, Booting, Resumable
  <1>3. CASE root_invoke
    <2>1. CASE UNCHANGED <<phase, created, contexts>>
      BY <2>1, ContextsKept DEF contexts
    <2>2. CASE ~ UNCHANGED <<phase, created, contexts>>
      <3>1. /\ phase = "root_invoke" /\ phase' = "user"
            /\ created' = created \cup {current}
            /\ cont' = [cont EXCEPT ![current] = "ret_user_iret"]
            /\ UNCHANGED <<current, sp0, left>>
        BY <1>3, <2>2 DEF root_invoke, contexts
      <3>2. \E r : regs' = [regs EXCEPT ![current] = r]
        BY <1>3, <2>2 DEF root_invoke, contexts
      <3> QED  BY <3>1, <3>2 DEF CInv, Tables, Table, Booting, Resumable
    <2> QED  BY <2>1, <2>2
  <1> QED  BY <1>1, <1>2, <1>3

\* Whoever leaves user mode has its own regs, and nobody else's, written.
LEMMA LeavesKeeps ==
    ASSUME CInv, NEW eip, regs' = Saved(eip), Leaves(eip),
           UNCHANGED <<phase, created, current, sp0, cont>>
    PROVE  CInv'
  BY DEF CInv, Tables, Table, Booting, Resumable, Saved, Leaves

\* A new EC begins with the regs of its constructor.
LEMMA CreateKeeps ==
    ASSUME CInv, NEW e \in EC, create_ec(e)
    PROVE  CInv'
  <1>1. /\ phase = "user" /\ e \notin created
        /\ UNCHANGED <<phase, current, sp0>>
    BY DEF create_ec, Started, UserRuns
  <1>2. PICK eip, func \in Points :
          \/ /\ regs' = [Saved(eip) EXCEPT
                            ![e] = [eip |-> func, esp |-> StackAt(begin)[2]]]
             /\ left' = [left EXCEPT ![current] = Context(eip), ![e] = regs'[e]]
             /\ cont' = [cont EXCEPT ![e] = "ret_user_iret"]
             /\ created' = created \cup {e}
          \/ /\ regs' = Saved(eip) /\ Leaves(eip)
             /\ UNCHANGED <<cont, created>>
    BY DEF create_ec
  <1>3. CASE UNCHANGED <<cont, created>> /\ regs' = Saved(eip) /\ Leaves(eip)
    BY <1>1, <1>3, LeavesKeeps
  <1>4. CASE /\ regs' = [Saved(eip) EXCEPT
                            ![e] = [eip |-> func, esp |-> StackAt(begin)[2]]]
             /\ left' = [left EXCEPT ![current] = Context(eip), ![e] = regs'[e]]
             /\ cont' = [cont EXCEPT ![e] = "ret_user_iret"]
             /\ created' = created \cup {e}
    <2> DEFINE c == Context(eip)
               n == [eip |-> func, esp |-> StackAt(begin)[2]]
    <2>1. /\ regs' = [[regs EXCEPT ![current] = c] EXCEPT ![e] = n]
          /\ left' = [left EXCEPT ![current] = c, ![e] = regs'[e]]
      BY <1>4 DEF Saved, CInv
    <2> HIDE DEF c, n
    <2>2. e # current /\ current \in EC
      BY <1>1 DEF CInv, Resumable
    <2>3. Tables'
      BY <1>4, <2>1 DEF CInv, Tables, Table
    <2>4. ASSUME NEW x \in created'
          PROVE  /\ cont'[x] = "ret_user_iret"
                 /\ x # current => regs'[x] = left'[x]
      <3>1. DOMAIN regs = EC /\ DOMAIN left = EC /\ DOMAIN cont = EC
        BY DEF CInv, Tables, Table
      <3>2. CASE x = e
        BY <3>1, <3>2, <1>4, <2>1
      <3>3. CASE x # e
        BY <3>1, <3>3, <1>1, <1>4, <2>1, <2>2 DEF CInv, Resumable
      <3> QED  BY <3>2, <3>3
    <2> QED  BY <1>1, <1>4, <2>3, <2>4 DEF CInv, Booting, Resumable
  <1> QED  BY <1>2, <1>3, <1>4

\* The switch itself: what it loads is what the next EC left.
LEMMA SwitchResumes ==
    ASSUME CInv, NEW next \in EC, switch(next)
    PROVE  /\ CInv'
           /\ current' # current => phase' = "user" /\ cpu' = left'[current']
  <1>1. /\ phase = "user" /\ next \in created
        /\ current' = next /\ sp0' = next
        /\ UNCHANGED <<created, cont>>
    BY DEF switch, Started, UserRuns, BecomeCurrent
  <1>2. cont[next] = "ret_user_iret" /\ current \in created
    BY <1>1 DEF CInv, Resumable
  <1>3. phase' = "user" /\ cpu' = regs'[next]
    BY <1>1, <1>2 DEF switch, Resumed
  <1>4. PICK eip \in Points : regs' = Saved(eip) /\ Leaves(eip)
    BY DEF switch
  <1> DEFINE c == Context(eip)
  <1>5. /\ regs' = [regs EXCEPT ![current] = c]
        /\ left' = [left EXCEPT ![current] = c]
    BY <1>4 DEF Saved, Leaves, CInv
  <1> HIDE DEF c
  <1>6. \A e \in created : regs'[e] = left'[e]
    BY <1>1, <1>2, <1>5 DEF CInv, Tables, Table, Resumable
  <1>7. Tables'
    BY <1>1, <1>5 DEF CInv, Tables, Table
  <1> QED  BY <1>1, <1>2, <1>3, <1>6, <1>7 DEF CInv, Booting, Resumable

LEMMA StepKeeps ==
    ASSUME CInv, [Next]_vars
    PROVE  CInv'
  <1>1. CASE init \/ bootstrap \/ root_invoke
    BY <1>1, BootKeeps
  <1>2. CASE start_main
    BY <1>2, LeavesKeeps DEF start_main
  <1>3. CASE create_pd
    BY <1>3, LeavesKeeps DEF create_pd
  <1>4. CASE push
    <2>1. CASE UNCHANGED <<halted, regs, left>>
      BY <1>4, <2>1, ContextsKept DEF push
    <2>2. CASE regs' = Saved(cpu.eip) /\ Leaves(cpu.eip)
      BY <1>4, <2>2, LeavesKeeps DEF push
    <2> QED  BY <1>4, <2>1, <2>2 DEF push
  <1>5. CASE exit_main
    BY <1>5, LeavesKeeps DEF exit_main
  <1>6. ASSUME NEW e \in EC, create_ec(e) \/ switch(e) PROVE CInv'
    BY <1>6, CreateKeeps, SwitchResumes
  <1>7. CASE UNCHANGED vars
    BY <1>7, ContextsKept DEF vars, contexts
  <1> QED  BY <1>1, <1>2, <1>3, <1>4, <1>5, <1>6, <1>7 DEF Next

\* Whoever comes to run goes on exactly where it left user mode: the regs that
\* entry.S:156 saves behind the TSS are those that ec.cc:65 loads, through
\* any number of switches (ec.h:69), whichever EC the scheduler picks.
THEOREM SwitchesAreExact == Spec => ResumesWhereItLeft
  <1>1. ASSUME CInv, [Next]_vars
        PROVE  [current' # current /\ phase = "user" =>
                  phase' = "user" /\ cpu' = left'[current']]_vars
    <2>1. CASE \E e \in EC : switch(e)
      BY <1>1, <2>1, SwitchResumes
    <2>2. CASE bootstrap
      BY <2>2 DEF bootstrap
    <2>3. CASE ~ bootstrap /\ ~ \E e \in EC : switch(e)
      <3>1. current' = current
        BY <1>1, <2>3
           DEF Next, init, root_invoke, start_main, create_ec, create_pd, push,
               exit_main, contexts, vars
      <3> QED  BY <3>1
    <2> QED  BY <2>1, <2>2, <2>3
  <1> QED  BY <1>1, InitSwitches, StepKeeps, PTL DEF Spec, ResumesWhereItLeft

-----------------------------------------------------------------------------
\* What holds of the machine throughout.

Kinds ==
    /\ phase \in {"init", "bootstrap", "root_invoke", "user"}
    /\ halted \in {"no", "out of memory", "Kernel PF", "not one module", "No ELF",
                   "Bad ELF", "User PF", "User Stack Overflow", "User EXC"}
    /\ image \in Images
    /\ created \subseteq EC /\ current \in EC \cup {NULL}
    /\ begin \in mempool_f .. mempool_e
    /\ pool.oom => halted = "out of memory"

\* Until bootstrap() is through, no page is a user's.
BeforeBoot ==
    phase \in {"init", "bootstrap"} =>
        /\ Shape(Store, BootDirs) /\ BootPages(mem)
        /\ phase = "init" =>
              halted = "no" /\ \A q \in KernelPages : Walk(mem, q) = Zero

\* Then all below LINK_ADDR are, and root_invoke() begins with none.
AfterBoot ==
    phase \in {"root_invoke", "user"} =>
        /\ Shape(Store, RunDirs)
        /\ \A q \in Pages : q < Split /\ Walk(mem, q) # Zero => UserPage(mem, q)
        /\ phase = "root_invoke" /\ halted = "no" =>
              \A q \in Pages : q < Split => Walk(mem, q) = Zero

KernelStays ==
    phase # "init" /\ halted # "out of memory" =>
        \A q \in KernelPages : Walk(mem, q) # Zero

NoStack == <<0, 0>>

\* The pages the program uses: those of the image and of the heap up to where
\* it goes on, and those of the main stack.
Taken(q) == q < begin \/ (stack[RootEc] # NoStack /\ user_stack_bottom < q)

\* What user code can reach was put there by root_invoke() and mmap().
Heap ==
    phase = "user" /\ halted # "out of memory" =>
        /\ \A q \in Pages : q < Split /\ Walk(mem, q) # Zero => Taken(q)
        /\ \A p \in Range(image.segments) : ~ BadSegment(p)
        /\ AllShown(mem)

\* The pages of a stack, and that the sentinel below it will not be mapped.
StackPlace(e) ==
    /\ 1 <= stack[e][1] /\ stack[e][1] <= stack[e][2] /\ stack[e][2] <= Split
    /\ stack[e][1] - 1 < begin \/ stack[e][1] - 1 = user_stack_bottom
    /\ halted # "out of memory" => ~ UserPage(mem, stack[e][1] - 1)

StackPlaces ==
    /\ stack \in [EC -> Int \X Int]
    /\ \A e \in EC : stack[e] # NoStack => StackPlace(e)
    /\ phase # "user" => begin = mempool_f /\ \A e \in EC : stack[e] = NoStack

\* Each EC is within its stack.
Framed(r) == r = [eip |-> r.eip, esp |-> r.esp]

Esp(e) == IF e = current THEN cpu.esp ELSE regs[e].esp

StackInside ==
    /\ Framed(cpu) /\ \A e \in EC : Framed(regs[e])
    /\ \A e \in created : stack[e] # NoStack => Esp(e) \in stack[e][1] .. stack[e][2]

MemInv == Safe(Store) /\ BeforeBoot /\ AfterBoot /\ KernelStays /\ Heap /\ StackPlaces

MInv == CInv /\ Kinds /\ MemInv /\ StackInside

-----------------------------------------------------------------------------
\* From boot to the first user code.

LEMMA InitMInv == Init => MInv
  <1> SUFFICES ASSUME Init PROVE MInv
    OBVIOUS
  <1>1. CInv
    BY InitSwitches
  <1>2. Kinds
    <2>1. mempool_f \in Nat /\ mempool_e \in Nat /\ mempool_f <= mempool_e
      BY LayoutAssumption
    <2> QED  BY <2>1 DEF Init, Kinds, EmptyPool
  <1>3. Store = [pool |-> EmptyPool, mem |-> BootMemory] /\ Store.mem = mem
    BY SameStore DEF Init, Store
  <1>4. /\ Shape(Store, BootDirs) /\ Safe(Store) /\ BootPages(mem)
        /\ \A q \in KernelPages : Walk(mem, q) = Zero
    <2> DEFINE s == Store
    <2>1. s = [pool |-> EmptyPool, mem |-> BootMemory] /\ s.mem = mem
      BY <1>3
    <2> HIDE DEF s
    <2>2. /\ Shape(s, BootDirs) /\ Safe(s) /\ BootPages(s.mem)
          /\ \A q \in KernelPages : Walk(s.mem, q) = Zero
      BY <2>1, BootKept
    <2> QED  BY <2>1, <2>2 DEF s
  <1>5. StackPlaces
    <2>1. stack = [e \in EC |-> NoStack] /\ begin = mempool_f
      BY DEF Init, NoStack
    <2>2. NoStack \in Int \X Int
      BY DEF NoStack
    <2> HIDE DEF NoStack
    <2> QED  BY <2>1, <2>2 DEF StackPlaces
  <1>6. StackInside
    BY DEF Init, StackInside, NoRegs, Framed
  <1>7. phase = "init" /\ halted = "no"
    BY DEF Init
  <1>8. BeforeBoot /\ AfterBoot /\ KernelStays /\ Heap
    BY <1>4, <1>7 DEF BeforeBoot, AfterBoot, KernelStays, Heap
  <1> QED  BY <1>1, <1>2, <1>4, <1>5, <1>6, <1>8 DEF MInv, MemInv

\* The stacks that a step before user code runs leaves alone.
LEMMA StacksAlone ==
    ASSUME StackPlaces, StackInside, phase # "user", created' \subseteq EC,
           UNCHANGED <<begin, stack, cpu, regs>>
    PROVE  StackPlaces' /\ StackInside'
  <1>1. \A e \in EC : stack'[e] = NoStack'
    BY DEF StackPlaces, NoStack
  <1>2. StackPlaces'
    BY <1>1 DEF StackPlaces, NoStack
  <1>3. StackInside'
    <2>1. Framed(cpu)' /\ \A e \in EC : Framed(regs[e])'
      BY DEF StackInside, Framed
    <2>2. \A e \in created' : stack'[e] = NoStack'
      BY <1>1
    <2> QED  BY <2>1, <2>2 DEF StackInside
  <1> QED  BY <1>2, <1>3

LEMMA InitStep ==
    ASSUME MInv, init
    PROVE  Kinds' /\ MemInv' /\ StackInside'
  <1>1. /\ phase = "init" /\ phase' = "bootstrap" /\ halted = "no"
        /\ UNCHANGED <<image, created, current, begin, stack, cpu, regs>>
    BY DEF init, contexts, MInv, MemInv, BeforeBoot
  <1>2. /\ Shape(Store, BootDirs) /\ Safe(Store) /\ BootPages(mem)
        /\ \A q \in KernelPages : Walk(mem, q) = Zero
    BY <1>1 DEF MInv, MemInv, BeforeBoot
  <1>3. /\ Shape(Store, BootDirs)' /\ Safe(Store)' /\ BootPages(mem)'
        /\ halted' # "out of memory" => \A q \in KernelPages : Walk(mem, q)' # Zero
        /\ pool'.oom => halted' = "out of memory"
        /\ halted' \in {halted, "out of memory"}
    BY <1>2, InitMaps
  <1>4. Kinds'
    BY <1>1, <1>3 DEF MInv, Kinds
  <1>5. StackPlaces' /\ StackInside'
    BY <1>1, <1>4, StacksAlone DEF MInv, MemInv, Kinds
  <1>6. (BeforeBoot /\ AfterBoot /\ KernelStays /\ Heap)'
    BY <1>1, <1>3 DEF BeforeBoot, AfterBoot, KernelStays, Heap
  <1> QED  BY <1>3, <1>4, <1>5, <1>6 DEF MemInv

LEMMA BootstrapStep ==
    ASSUME MInv, bootstrap
    PROVE  Kinds' /\ MemInv' /\ StackInside'
  <1>1. /\ phase = "bootstrap" /\ phase' = "root_invoke" /\ halted = "no"
        /\ current' = RootEc
        /\ UNCHANGED <<image, created, begin, stack, cpu, regs>>
    BY DEF bootstrap, BecomeCurrent
  <1>2. /\ Shape(Store, BootDirs) /\ Safe(Store) /\ BootPages(mem)
        /\ \A q \in KernelPages : Walk(mem, q) # Zero
    BY <1>1 DEF MInv, MemInv, BeforeBoot, KernelStays
  <1>3. /\ Shape(Store, RunDirs)' /\ Safe(Store)'
        /\ \A q \in Pages : q < Split => Walk(mem, q)' = Zero
        /\ \A q \in KernelPages : Walk(mem, q)' = Walk(mem, q)
        /\ pool'.oom => halted' = "out of memory"
        /\ halted' \in {halted, "out of memory"}
    BY <1>2, BootstrapUnmaps
  <1>4. Kinds'
    BY <1>1, <1>3, MachineAssumption DEF MInv, Kinds
  <1>5. StackPlaces' /\ StackInside'
    BY <1>1, <1>4, StacksAlone DEF MInv, MemInv, Kinds
  <1>6. (BeforeBoot /\ AfterBoot /\ KernelStays /\ Heap)'
    BY <1>1, <1>2, <1>3 DEF BeforeBoot, AfterBoot, KernelStays, Heap
  <1> QED  BY <1>3, <1>4, <1>5, <1>6 DEF MemInv

\* The kernel's pages are behind LINK_ADDR, and not where remap() is at work.
LEMMA KernelPagesHigh ==
    ASSUME NEW q \in KernelPages
    PROVE  q \in Pages /\ Split <= q /\ q \div PTES # REMAP_DIR
  <1>1. q \in Pages /\ LINK_DIR + LINK_DIRS <= q \div PTES /\ q \div PTES # REMAP_DIR
    BY MachineAssumption, LayoutAssumption DEF KernelPages
  <1>2. q \div PTES \in Int /\ (q < Split <=> q \div PTES < LINK_DIR)
    BY <1>1, PagePlace DEF Dirs
  <1>3. LINK_DIR \in Nat /\ LINK_DIRS \in Nat
    BY MemoryAssumption
  <1>4. q \in Int /\ Split \in Int
    BY <1>1, LowPages DEF Pages
  <1>5. ~ q < Split
    BY <1>1, <1>2, <1>3
  <1> QED  BY <1>1, <1>4, <1>5

\* The first non-zero of some numbers.
LEMMA FirstIndex ==
    ASSUME NEW S \in SUBSET Nat, S # {}
    PROVE  Min(S) \in S
  <1>1. \E i \in S : \A j \in S : i <= j
    BY LeastIndex
  <1> QED  BY <1>1 DEF Min

\* The memory after some of the reads through remap().
LEMMA RemappedStore ==
    ASSUME MInv, phase = "root_invoke", halted = "no",
           NEW k \in 0 .. 5, NEW s, s = MemSet(Store, Remapped[k])
    PROVE  /\ Shape(s, RunDirs) /\ Safe(s) /\ s.pool = pool /\ s.mem = Remapped[k]
           /\ \A q \in Pages : q < Split => Walk(s.mem, q) = Zero
           /\ \A q \in KernelPages : Walk(s.mem, q) # Zero
  <1>1. /\ Shape(Store, RunDirs) /\ Safe(Store) /\ image \in Images
        /\ \A q \in Pages : q < Split => Walk(mem, q) = Zero
        /\ \A q \in KernelPages : Walk(mem, q) # Zero
    BY DEF MInv, MemInv, Kinds, AfterBoot, KernelStays
  <1> DEFINE m == Remapped[k]
  <1>2. m \in RemapStates
    BY <1>1, RemapsKeep
  <1> HIDE DEF m
  <1>3. /\ Shape(s, RunDirs) /\ Safe(s) /\ WalksKept(mem, m, {REMAP_DIR})
    BY <1>2 DEF RemapStates, m
  <1>4. s.pool = pool /\ s.mem = m
    BY DEF MemSet, Store, m
  <1>5. \A q \in Pages : q \div PTES # REMAP_DIR => Walk(m, q) = Walk(mem, q)
    BY <1>3 DEF WalksKept
  <1>6. ASSUME NEW q \in Pages, q < Split PROVE Walk(m, q) = Zero
    <2>1. q \div PTES # REMAP_DIR
      BY <1>6, PagePlace, MemoryAssumption
    <2> QED  BY <1>1, <1>5, <1>6, <2>1
  <1>7. ASSUME NEW q \in KernelPages PROVE Walk(m, q) # Zero
    <2>1. q \in Pages /\ q \div PTES # REMAP_DIR
      BY KernelPagesHigh
    <2> QED  BY <1>1, <1>5, <2>1
  <1> QED  BY <1>3, <1>4, <1>6, <1>7 DEF m

\* root_invoke() stops at a module it does not like.
LEMMA RefusedStep ==
    ASSUME MInv, phase = "root_invoke", halted = "no",
           NEW refused, refused = {k \in 1 .. 5 : Refusal(k) # "no"}, refused # {},
           halted' = Refusal(Min(refused)), mem' = Remapped[Min(refused)],
           UNCHANGED <<pool, phase, created, contexts, image, begin, stack>>
    PROVE  Kinds' /\ MemInv' /\ StackInside'
  <1> DEFINE k == Min(refused)
             s == MemSet(Store, Remapped[k])
  <1>1. k \in 0 .. 5 /\ Refusal(k) # "no"
    <2>1. refused \in SUBSET Nat
      OBVIOUS
    <2>2. k \in refused
      BY <2>1, FirstIndex
    <2> QED  BY <2>2
  <1>2. halted' \in {"Kernel PF", "not one module", "No ELF"}
    BY <1>1 DEF Refusal
  <1>3. Store' = s
    BY DEF Store, MemSet
  <1> HIDE DEF k
  <1>4. /\ Shape(s, RunDirs) /\ Safe(s) /\ s.mem = Remapped[k]
        /\ \A q \in Pages : q < Split => Walk(s.mem, q) = Zero
        /\ \A q \in KernelPages : Walk(s.mem, q) # Zero
    BY <1>1, RemappedStore
  <1> HIDE DEF s
  <1>5. s.mem = mem'
    BY <1>4 DEF k
  <1>6. Shape(Store, RunDirs)' /\ Safe(Store)'
    BY <1>3, <1>4
  <1>7. ~ pool'.oom
    BY DEF MInv, Kinds
  <1>8. Kinds'
    BY <1>2, <1>7 DEF MInv, Kinds, contexts
  <1>9. StackPlaces' /\ StackInside'
    BY <1>8, StacksAlone DEF MInv, MemInv, Kinds, contexts
  <1>10. (BeforeBoot /\ AfterBoot /\ KernelStays /\ Heap)'
    BY <1>2, <1>4, <1>5, <1>6 DEF BeforeBoot, AfterBoot, KernelStays, Heap
  <1> QED  BY <1>6, <1>8, <1>9, <1>10 DEF MemInv

\* What loading the segments leaves, whether it comes to an end or not.
LEMMA LoadedStore ==
    ASSUME MInv, phase = "root_invoke", halted = "no",
           NEW r, r = Loaded([Store EXCEPT !.mem = Remapped[5]])
    PROVE  /\ Shape(r, RunDirs) /\ Safe(r)
           /\ \A q \in KernelPages : Walk(r.mem, q) # Zero
           /\ \A q \in Pages : q < Split /\ Walk(r.mem, q) # Zero =>
                 UserPage(r.mem, q) /\ q < mempool_f
           /\ (\A p \in Range(image.segments) : ~ BadSegment(p)) /\ ~ r.pool.oom =>
                 AllShown(r.mem)
  <1> DEFINE k == 5
             s == MemSet(Store, Remapped[k])
  <1>1. k \in 0 .. 5 /\ r = Loaded(s)
    BY DEF MemSet
  <1> HIDE DEF k
  <1>2. /\ Shape(s, RunDirs) /\ Safe(s)
        /\ \A q \in Pages : q < Split => Walk(s.mem, q) = Zero
        /\ \A q \in KernelPages : Walk(s.mem, q) # Zero
    BY <1>1, RemappedStore
  <1>3. image \in Images
    BY DEF MInv, Kinds
  <1> HIDE DEF s
  <1>4. /\ Shape(r, RunDirs) /\ Safe(r)
        /\ \A q \in Pages : Split <= q => Walk(r.mem, q) = Walk(s.mem, q)
        /\ \A q \in Pages : q < Split /\ Walk(r.mem, q) # Zero =>
              UserPage(r.mem, q) /\ q < mempool_f
        /\ (\A p \in Range(image.segments) : ~ BadSegment(p)) /\ ~ r.pool.oom =>
              AllShown(r.mem)
    BY <1>1, <1>2, <1>3, LoadedKeeps
  <1> QED  BY <1>2, <1>4, KernelPagesHigh

\* One register of a frame is written.
LEMMA FramedSet ==
    ASSUME NEW f, Framed(f), NEW x
    PROVE  /\ Framed([f EXCEPT !.eip = x])
           /\ Framed([f EXCEPT !.esp = x]) /\ [f EXCEPT !.esp = x].esp = x
  <1>1. \E a, b : f = [eip |-> a, esp |-> b]
    BY DEF Framed
  <1>2. PICK a, b : f = [eip |-> a, esp |-> b]
    BY <1>1
  <1>3. [f EXCEPT !.eip = x] = [eip |-> x, esp |-> b]
    BY <1>2
  <1>4. [f EXCEPT !.esp = x] = [eip |-> a, esp |-> x]
    BY <1>2
  <1> QED  BY <1>3, <1>4 DEF Framed

\* The segments are loaded, and user code starts unless one was bad.
LEMMA LoadedStep ==
    ASSUME MInv, phase = "root_invoke", halted = "no",
           NEW r, r = Loaded([Store EXCEPT !.mem = Remapped[5]]),
           pool' = r.pool, mem' = r.mem,
           UNCHANGED <<image, begin, stack>>,
           \/ /\ halted' = IF r.pool.oom THEN "out of memory" ELSE "Bad ELF"
              /\ UNCHANGED <<phase, created, contexts>>
           \/ /\ \A p \in Range(image.segments) : ~ BadSegment(p)
              /\ halted' = IF r.pool.oom THEN "out of memory" ELSE halted
              /\ regs' = [regs EXCEPT ![current] =
                             [regs[current] EXCEPT !.eip = image.entry]]
              /\ created' = created \cup {current}
              /\ cpu' = [regs[current] EXCEPT !.eip = image.entry]
              /\ phase' = "user" /\ UNCHANGED current
    PROVE  Kinds' /\ MemInv' /\ StackInside'
  <1>1. /\ Shape(r, RunDirs) /\ Safe(r)
        /\ \A q \in KernelPages : Walk(r.mem, q) # Zero
        /\ \A q \in Pages : q < Split /\ Walk(r.mem, q) # Zero =>
              UserPage(r.mem, q) /\ q < mempool_f
        /\ (\A p \in Range(image.segments) : ~ BadSegment(p)) /\ ~ r.pool.oom =>
              AllShown(r.mem)
    BY LoadedStore
  <1>2. Store' = r
    <2>1. r = [pool |-> r.pool, mem |-> r.mem]
      BY <1>1 DEF Shape, Stores
    <2> QED  BY <2>1 DEF Store
  <1>3. Shape(Store, RunDirs)' /\ Safe(Store)'
    BY <1>1, <1>2
  <1>4. /\ \A q \in KernelPages : Walk(mem, q)' # Zero
        /\ \A q \in Pages : q < Split /\ Walk(mem, q)' # Zero =>
              UserPage(mem, q)' /\ q < mempool_f
    BY <1>1 DEF UserPage
  <1>5. current \in EC /\ current' = current /\ phase' \in {"root_invoke", "user"}
    BY DEF MInv, CInv, Booting, contexts
  <1>6. halted' \in {"no", "out of memory", "Bad ELF"}
        /\ (pool'.oom => halted' = "out of memory")
    OBVIOUS
  <1>7. created' \subseteq EC
    BY <1>5 DEF MInv, Kinds
  <1>8. Kinds'
    BY <1>5, <1>6, <1>7 DEF MInv, Kinds
  <1>9. begin = mempool_f /\ (\A e \in EC : stack[e] = NoStack) /\ stack \in [EC -> Int \X Int]
    BY DEF MInv, MemInv, StackPlaces
  <1>10. StackPlaces'
    <2>1. \A e \in EC : stack'[e] = NoStack'
      BY <1>9 DEF NoStack
    <2> QED  BY <1>9, <2>1 DEF StackPlaces
  <1>11. StackInside'
    <2>1. Framed(cpu) /\ (\A e \in EC : Framed(regs[e])) /\ DOMAIN regs = EC
      BY DEF MInv, StackInside, CInv, Tables, Table
    <2> DEFINE started == [regs[current] EXCEPT !.eip = image.entry]
    <2>2. Framed(started)
      <3>1. Framed(regs[current])
        BY <1>5, <2>1
      <3> QED  BY <3>1, FramedSet
    <2>3. CASE UNCHANGED contexts
      BY <2>1, <2>3, <1>7, <1>9 DEF contexts, StackInside, Framed, NoStack
    <2>4. CASE /\ regs' = [regs EXCEPT ![current] = started]
               /\ cpu' = started
      <3> HIDE DEF started
      <3>1. \A e \in EC : Framed(regs'[e])
        BY <1>5, <2>1, <2>2, <2>4
      <3>2. Framed(cpu')
        BY <2>2, <2>4
      <3> QED  BY <3>1, <3>2, <1>7, <1>9 DEF StackInside, Framed, NoStack
    <2> QED  BY <2>3, <2>4
  <1>12. Heap'
    <2> SUFFICES ASSUME phase' = "user", halted' # "out of memory"
                 PROVE  /\ \A q \in Pages : q < Split /\ Walk(mem, q)' # Zero => Taken(q)'
                        /\ \A p \in Range(image'.segments) : ~ BadSegment(p)
                        /\ AllShown(mem)'
      BY DEF Heap, BadSegment
    <2>1. (\A p \in Range(image.segments) : ~ BadSegment(p)) /\ ~ r.pool.oom
      OBVIOUS
    <2>2. AllShown(r.mem)
      BY <1>1, <2>1
    <2>3. AllShown(mem)'
      BY <2>2 DEF AllShown, Shows, SegmentCell, FirstFrame, OnSegment
    <2> QED  BY <1>4, <1>9, <2>1, <2>3 DEF Taken
  <1>13. (BeforeBoot /\ AfterBoot /\ KernelStays)'
    <2>1. ~ (phase' = "root_invoke" /\ halted' = "no")
      OBVIOUS
    <2> QED  BY <1>3, <1>4, <1>5, <2>1 DEF BeforeBoot, AfterBoot, KernelStays
  <1> QED  BY <1>3, <1>8, <1>10, <1>11, <1>12, <1>13 DEF MemInv

LEMMA RootInvokeStep ==
    ASSUME MInv, root_invoke
    PROVE  Kinds' /\ MemInv' /\ StackInside'
  <1>1. phase = "root_invoke" /\ halted = "no" /\ UNCHANGED <<image, begin, stack>>
    BY DEF root_invoke
  <1> DEFINE refused == {k \in 1 .. 5 : Refusal(k) # "no"}
             r == Loaded([Store EXCEPT !.mem = Remapped[5]])
  <1>2. CASE /\ refused # {}
             /\ halted' = Refusal(Min(refused))
             /\ mem' = Remapped[Min(refused)]
             /\ UNCHANGED <<pool, phase, created, contexts>>
    BY <1>1, <1>2, RefusedStep
  <1>3. CASE /\ pool' = r.pool /\ mem' = r.mem
             /\ \/ /\ halted' = IF r.pool.oom THEN "out of memory" ELSE "Bad ELF"
                   /\ UNCHANGED <<phase, created, contexts>>
                \/ /\ \A p \in Range(image.segments) : ~ BadSegment(p)
                   /\ halted' = IF r.pool.oom THEN "out of memory" ELSE halted
                   /\ regs' = [regs EXCEPT ![current] =
                                  [regs[current] EXCEPT !.eip = image.entry]]
                   /\ created' = created \cup {current}
                   /\ cpu' = [regs[current] EXCEPT !.eip = image.entry]
                   /\ phase' = "user" /\ UNCHANGED current
    <2> HIDE DEF r
    <2> QED  BY <1>1, <1>3, LoadedStep DEF r
  <1> QED  BY <1>2, <1>3 DEF root_invoke, Becomes

-----------------------------------------------------------------------------
\* The steps of user code and of the system calls it makes.

\* A step of user code that maps the pages lo .. hi - 1, none of which the
\* program used and none of which is to stay empty below a stack.
LEMMA UserMemory ==
    ASSUME MInv, UserRuns, UNCHANGED <<phase, image>>,
           NEW lo \in Int, NEW hi \in Int,
           Shape(Store, RunDirs)', Safe(Store)',
           \A q \in Pages : \/ Walk(mem, q)' = Walk(mem, q)
                            \/ lo <= q /\ q < hi /\ UserPage(mem, q)',
           begin <= begin', begin' \in mempool_f .. mempool_e,
           stack' \in [EC -> Int \X Int],
           \A q \in Int : lo <= q /\ q < hi =>
               ~ q < begin /\ q # user_stack_bottom /\ Taken(q)',
           \A q \in Int : Taken(q) => Taken(q)',
           \A e \in EC :
               \/ stack'[e] = stack[e]
               \/ /\ stack'[e] = <<lo, hi>>
                  /\ 1 <= lo /\ lo <= hi /\ hi <= Split
                  /\ lo - 1 < begin' \/ lo - 1 = user_stack_bottom
                  /\ ~ Taken(lo - 1)
    PROVE  MemInv'
  <1>1. phase = "user" /\ phase' = "user" /\ halted = "no"
    BY DEF UserRuns
  <1>2. /\ \A q \in Pages : q < Split /\ Walk(mem, q) # Zero => UserPage(mem, q) /\ Taken(q)
        /\ \A q \in KernelPages : Walk(mem, q) # Zero
        /\ \A p \in Range(image.segments) : ~ BadSegment(p)
        /\ AllShown(mem)
        /\ StackPlaces
    BY <1>1 DEF MInv, MemInv, AfterBoot, KernelStays, Heap
  <1>3. mempool_f \in Int /\ mempool_e \in Int /\ begin \in Int /\ begin' \in Int
        /\ user_stack_bottom \in Int /\ mempool_f <= begin
    BY <1>1, LayoutAssumption DEF MInv, Kinds
  <1>4. \A q \in Pages : q \in Int
    BY DEF Pages
  <1>5. \A q \in Pages : UserPage(mem, q)' => Walk(mem, q)' # Zero
    BY DEF UserPage, Zero
  <1>6. AfterBoot'
    <2>1. ASSUME NEW q \in Pages, q < Split, Walk(mem, q)' # Zero
          PROVE  UserPage(mem, q)'
      BY <1>2, <2>1 DEF UserPage
    <2> QED  BY <1>1, <2>1 DEF AfterBoot
  <1>7. KernelStays'
    <2>1. ASSUME NEW q \in KernelPages PROVE Walk(mem, q)' # Zero
      BY <1>2, <1>5, KernelPagesHigh
    <2> QED  BY <2>1 DEF KernelStays
  <1>8. Heap'
    <2>1. ASSUME NEW q \in Pages, q < Split, Walk(mem, q)' # Zero
          PROVE  Taken(q)'
      BY <1>2, <1>4, <2>1
    <2>2. ASSUME NEW p \in Range(image.segments), NEW q \in Int, OnSegment(p, q)
          PROVE  Shows(mem, p, q)'
      <3>1. Shows(mem, p, q)
        BY <1>2, <2>2 DEF AllShown
      <3>2. PICK i \in DOMAIN image.segments : p = image.segments[i]
        BY <2>2 DEF Range
      <3>3. image \in Images
        BY DEF MInv, Kinds
      <3>4. /\ FirstPage(p) \in Nat /\ LastPage(p) \in Nat /\ LastPage(p) < mempool_f
        BY <3>2, <3>3, SegmentExtent
      <3>5. q < begin /\ q \in Nat /\ q < Split
        BY <1>3, <2>2, <3>4, LowPages DEF OnSegment
      <3>6. q \in Pages
        BY <3>5, LowPages
      <3>7. Walk(mem, q)' = Walk(mem, q)
        BY <2>2, <3>5, <3>6
      <3> QED  BY <3>1, <3>7 DEF Shows, SegmentCell, FirstFrame
    <2>3. AllShown(mem)'
      BY <2>2 DEF AllShown, OnSegment
    <2> QED  BY <1>2, <2>1, <2>3 DEF Heap
  <1>9. ASSUME NEW e \in EC, stack'[e] # NoStack PROVE StackPlace(e)'
    <2>1. CASE stack'[e] = stack[e]
      <3>1. PICK a \in Int, b \in Int : stack[e] = <<a, b>>
        BY <1>2 DEF StackPlaces
      <3>2. /\ 1 <= a /\ a <= b /\ b <= Split
            /\ a - 1 < begin \/ a - 1 = user_stack_bottom
            /\ ~ UserPage(mem, a - 1)
        BY <1>1, <1>2, <1>9, <2>1, <3>1 DEF StackPlaces, StackPlace
      <3>3. a - 1 \in Nat /\ a - 1 < Split /\ a - 1 \in Int
        BY <3>1, <3>2, LowPages
      <3>4. a - 1 \in Pages
        BY <3>3, LowPages
      <3>5. Walk(mem, a - 1)' = Walk(mem, a - 1)
        BY <3>2, <3>3, <3>4
      <3>6. ~ UserPage(mem, a - 1)'
        BY <3>2, <3>5 DEF UserPage
      <3>7. a - 1 < begin' \/ a - 1 = user_stack_bottom
        BY <1>3, <3>2, <3>3
      <3>8. stack'[e][1] = a /\ stack'[e][2] = b
        BY <2>1, <3>1
      <3> QED  BY <3>1, <3>2, <3>6, <3>7, <3>8 DEF StackPlace
    <2>2. CASE /\ stack'[e] = <<lo, hi>>
               /\ 1 <= lo /\ lo <= hi /\ hi <= Split
               /\ lo - 1 < begin' \/ lo - 1 = user_stack_bottom
               /\ ~ Taken(lo - 1)
      <3>1. lo - 1 \in Nat /\ lo - 1 < Split /\ ~ lo <= lo - 1
        BY <2>2, LowPages
      <3>2. lo - 1 \in Pages
        BY <3>1, LowPages
      <3>3. Walk(mem, lo - 1) = Zero
        BY <1>2, <2>2, <3>1, <3>2
      <3>4. ~ UserPage(mem, lo - 1)'
        BY <3>1, <3>2, <3>3 DEF UserPage, Zero
      <3>5. stack'[e][1] = lo /\ stack'[e][2] = hi
        BY <2>2
      <3> QED  BY <2>2, <3>4, <3>5 DEF StackPlace
    <2> QED  BY <2>1, <2>2
  <1>10. StackPlaces'
    <2>1. \A e \in EC : stack'[e] # NoStack' => StackPlace(e)'
      BY <1>9 DEF NoStack
    <2> QED  BY <1>1, <2>1 DEF StackPlaces
  <1>11. BeforeBoot'
    BY <1>1 DEF BeforeBoot
  <1> QED  BY <1>6, <1>7, <1>8, <1>10, <1>11 DEF MemInv

\* A step that maps nothing.
LEMMA NothingMapped ==
    ASSUME MInv, UserRuns, UNCHANGED <<phase, image, begin, stack>>,
           Shape(Store, RunDirs)', Safe(Store)',
           \A q \in Pages : Walk(mem, q)' = Walk(mem, q)
    PROVE  MemInv'
  <1> DEFINE lo == 0
             hi == 0
  <1>1. lo \in Int /\ hi \in Int /\ \A q \in Int : ~ (lo <= q /\ q < hi)
    OBVIOUS
  <1> HIDE DEF lo, hi
  <1>2. begin \in mempool_f .. mempool_e /\ begin <= begin'
    <2>1. begin \in mempool_f .. mempool_e
      BY DEF MInv, Kinds
    <2>2. mempool_f \in Int /\ mempool_e \in Int
      BY LayoutAssumption
    <2>3. begin \in Int
      BY <2>1, <2>2
    <2> QED  BY <2>1, <2>3
  <1>3. stack \in [EC -> Int \X Int]
    BY DEF MInv, MemInv, StackPlaces
  <1>4. \A q \in Int : Taken(q)' <=> Taken(q)
    BY DEF Taken, NoStack
  <1> QED  BY <1>1, <1>2, <1>3, <1>4, UserMemory

LEMMA MemoryAlone ==
    ASSUME MInv, UserRuns, UNCHANGED <<pool, mem, phase, image, begin, stack>>
    PROVE  MemInv'
  <1>1. Shape(Store, RunDirs) /\ Safe(Store)
    BY DEF UserRuns, MInv, MemInv, AfterBoot
  <1>2. Store' = Store
    BY DEF Store
  <1>3. Shape(Store, RunDirs)' /\ Safe(Store)'
    BY <1>1, <1>2
  <1>4. \A q \in Pages : Walk(mem, q)' = Walk(mem, q)
    OBVIOUS
  <1> QED  BY <1>3, <1>4, NothingMapped

\* SYS_MMAP of pages the program did not use.
LEMMA MmapStore ==
    ASSUME MInv, UserRuns, NEW count \in Nat, NEW page \in Nat, page + count <= Split,
           \A q \in Int : page <= q /\ q < page + count => ~ Taken(q),
           NEW s, s = Mmap(Store, count, page)
    PROVE  /\ Shape(s, RunDirs) /\ Safe(s)
           /\ \A q \in Pages : \/ Walk(s.mem, q) = Walk(mem, q)
                               \/ /\ page <= q /\ q < page + count
                                  /\ UserPage(s.mem, q)
  <1>1. /\ Shape(Store, RunDirs) /\ Safe(Store)
        /\ \A q \in Pages : q < Split /\ Walk(mem, q) # Zero => Taken(q)
    BY DEF UserRuns, MInv, MemInv, AfterBoot, Heap
  <1> DEFINE t == Store
  <1>2. t.mem = mem /\ Shape(t, RunDirs) /\ Safe(t) /\ s = Mmap(t, count, page)
    BY <1>1, SameStore
  <1> HIDE DEF t
  <1>3. \A q \in page .. page + count - 1 :
           q \in Pages /\ q < Split /\ Walk(t.mem, q) = Zero
    <2> SUFFICES ASSUME NEW q \in page .. page + count - 1
                 PROVE  q \in Pages /\ q < Split /\ Walk(t.mem, q) = Zero
      OBVIOUS
    <2>1. q \in Nat /\ page <= q /\ q < page + count /\ q < Split
      BY LowPages
    <2>2. q \in Pages
      BY <2>1, LowPages
    <2> QED  BY <1>1, <1>2, <2>1, <2>2
  <1>4. page \in Int
    OBVIOUS
  <1>5. /\ Shape(s, RunDirs) /\ Safe(s)
        /\ Added(t, s, page, page + count, MmapCells)
    BY <1>2, <1>3, <1>4, MmapKeeps
  <1>6. ASSUME NEW q \in Pages, Walk(s.mem, q) \in MmapCells[q]
        PROVE  UserPage(s.mem, q)
    <2>1. PICK g \in Int : Walk(s.mem, q) = [frame |-> g, attr |-> UserRights]
      BY <1>6 DEF MmapCells
    <2> QED  BY <2>1 DEF UserPage, UserRights
  <1> QED  BY <1>2, <1>5, <1>6 DEF Added

\* What the entry code saves.
LEMMA SavedRegs ==
    ASSUME MInv, UserRuns, NEW eip, regs' = Saved(eip)
    PROVE  /\ current \in EC /\ current \in created
           /\ regs'[current] = Context(eip) /\ regs'[current].esp = cpu.esp
           /\ \A e \in EC : e # current => regs'[e] = regs[e]
           /\ \A e \in EC : Framed(regs'[e])
  <1>1. sp0 = current /\ current \in EC /\ current \in created /\ DOMAIN regs = EC
    BY DEF MInv, UserRuns, CInv, Tables, Table, Resumable
  <1>2. \A e \in EC : Framed(regs[e])
    BY DEF MInv, StackInside
  <1> DEFINE c == Context(eip)
  <1>3. c.esp = cpu.esp /\ Framed(c)
    BY DEF Context, Framed
  <1>4. regs' = [regs EXCEPT ![current] = c]
    BY <1>1 DEF Saved
  <1> HIDE DEF c
  <1> QED  BY <1>1, <1>2, <1>3, <1>4 DEF c

\* A program that leaves the kernel as it came, its registers saved or not.
LEMMA InsideAlone ==
    ASSUME MInv, UserRuns, UNCHANGED <<current, created, stack>>,
           NEW eip, regs' = Saved(eip), cpu' = cpu \/ cpu' = regs'[current]
    PROVE  StackInside'
  <1>1. /\ current \in EC /\ current \in created
        /\ regs'[current].esp = cpu.esp
        /\ \A e \in EC : e # current => regs'[e] = regs[e]
        /\ \A e \in EC : Framed(regs'[e])
    BY SavedRegs
  <1>2. Framed(cpu) /\ created \subseteq EC
    BY DEF MInv, Kinds, StackInside
  <1>3. Framed(cpu') /\ cpu'.esp = cpu.esp
    BY <1>1, <1>2
  <1>4. \A e \in created : Esp(e)' = Esp(e)
    BY <1>1, <1>2, <1>3 DEF Esp
  <1>5. \A e \in created : stack[e] # NoStack => Esp(e) \in stack[e][1] .. stack[e][2]
    BY DEF MInv, StackInside
  <1> QED  BY <1>1, <1>3, <1>4, <1>5 DEF StackInside, Framed, NoStack

LEMMA BeginPlace ==
    ASSUME MInv
    PROVE  /\ begin \in Int /\ begin \in mempool_f .. mempool_e
           /\ begin <= user_stack_bottom
           /\ created \subseteq EC /\ stack \in [EC -> Int \X Int]
  <1>1. begin \in mempool_f .. mempool_e /\ created \subseteq EC
    BY DEF MInv, Kinds
  <1>2. /\ mempool_f \in Int /\ mempool_e \in Int /\ user_stack_bottom \in Int
        /\ mempool_e <= user_stack_bottom
    BY LayoutAssumption
  <1>3. stack \in [EC -> Int \X Int]
    BY DEF MInv, MemInv, StackPlaces
  <1>4. begin \in Int /\ begin <= mempool_e
    BY <1>1, <1>2
  <1> QED  BY <1>1, <1>2, <1>3, <1>4

\* __start: the main stack, above its sentinel.
LEMMA StartMainStep ==
    ASSUME MInv, start_main
    PROVE  Kinds' /\ MemInv' /\ StackInside'
  <1> DEFINE lo == user_stack_bottom + 1
             top == lo + MAIN_STACK_PAGES
             s == Mmap(Store, MAIN_STACK_PAGES, lo)
  <1>1. /\ UserRuns /\ current = RootEc /\ stack[RootEc] = NoStack
        /\ UNCHANGED <<phase, image, created, current, begin>>
        /\ Becomes(s) /\ cpu' = [regs'[current] EXCEPT !.esp = top]
        /\ stack' = [stack EXCEPT ![RootEc] = <<lo, top>>]
    BY DEF start_main, NoStack
  <1>2. PICK eip \in Points : regs' = Saved(eip)
    BY DEF start_main
  <1>3. /\ user_stack_bottom \in Nat /\ MAIN_STACK_PAGES \in Nat \ {0}
        /\ top <= Split /\ lo \in Nat /\ lo \in Int /\ top \in Int
        /\ mempool_f \in Nat /\ mempool_e \in Nat /\ mempool_e <= user_stack_bottom
        /\ RootEc \in EC
    BY MachineAssumption, LayoutAssumption DEF Split
  <1>4. begin \in Int /\ begin <= user_stack_bottom /\ begin \in mempool_f .. mempool_e
        /\ created \subseteq EC
    BY BeginPlace
  <1>5. \A q \in Int : lo <= q /\ q < top =>
            ~ q < begin /\ q # user_stack_bottom /\ ~ Taken(q)
    BY <1>1, <1>3, <1>4 DEF Taken
  <1>6. /\ Shape(s, RunDirs) /\ Safe(s)
        /\ \A q \in Pages : \/ Walk(s.mem, q) = Walk(mem, q)
                            \/ lo <= q /\ q < top /\ UserPage(s.mem, q)
    <2> DEFINE n == MAIN_STACK_PAGES
    <2>1. n \in Nat /\ s = Mmap(Store, n, lo) /\ lo + n <= Split /\ top = lo + n
      BY <1>3
    <2> HIDE DEF s, lo, top, n
    <2> QED  BY <1>1, <1>3, <1>5, <2>1, MmapStore
  <1>7. NoStack # <<lo, top>>
    BY <1>3 DEF NoStack
  <1> HIDE DEF s, lo, top
  <1>8. Store' = s /\ mem' = s.mem /\ pool' = s.pool
        /\ halted' = IF s.pool.oom THEN "out of memory" ELSE halted
    BY <1>1, <1>6, NextStore DEF Becomes
  <1>9. Shape(Store, RunDirs)' /\ Safe(Store)'
    BY <1>6, <1>8
  <1>10. /\ \A q \in Pages : \/ Walk(mem, q)' = Walk(mem, q)
                             \/ lo <= q /\ q < top /\ UserPage(mem, q)'
    BY <1>6, <1>8 DEF UserPage
  <1>11. stack \in [EC -> Int \X Int]
    BY DEF MInv, MemInv, StackPlaces
  <1>12. /\ stack' \in [EC -> Int \X Int] /\ stack'[RootEc] = <<lo, top>>
         /\ \A e \in EC : e # RootEc => stack'[e] = stack[e]
    BY <1>1, <1>3, <1>11
  <1>13. \A q \in Int : (Taken(q) => Taken(q)') /\ (user_stack_bottom < q => Taken(q)')
    BY <1>1, <1>7, <1>12 DEF Taken, NoStack
  <1>14. \A q \in Int : lo <= q /\ q < top =>
             ~ q < begin /\ q # user_stack_bottom /\ Taken(q)'
    <2> SUFFICES ASSUME NEW q \in Int, lo <= q, q < top
                 PROVE  ~ q < begin /\ q # user_stack_bottom /\ Taken(q)'
      OBVIOUS
    <2>1. user_stack_bottom < q
      BY <1>3 DEF lo
    <2> QED  BY <1>5, <1>13, <2>1
  <1>15. \A e \in EC : \/ stack'[e] = stack[e]
                       \/ /\ stack'[e] = <<lo, top>>
                          /\ 1 <= lo /\ lo <= top /\ top <= Split
                          /\ lo - 1 < begin' \/ lo - 1 = user_stack_bottom
                          /\ ~ Taken(lo - 1)
    <2>1. lo - 1 = user_stack_bottom /\ 1 <= lo /\ lo <= top
      BY <1>3 DEF lo, top
    <2>2. ~ Taken(lo - 1)
      BY <1>1, <1>3, <1>4, <2>1 DEF Taken
    <2> QED  BY <1>3, <1>12, <2>1, <2>2
  <1>16. begin <= begin' /\ begin' \in mempool_f .. mempool_e
    BY <1>1, <1>4
  <1>17. MemInv'
    BY <1>1, <1>3, <1>9, <1>10, <1>12, <1>13, <1>14, <1>15, <1>16, UserMemory
  <1>18. Kinds'
    BY <1>1, <1>8 DEF MInv, Kinds, UserRuns
  <1>19. StackInside'
    <2>1. /\ Framed(regs'[current]) /\ current \in EC
          /\ \A e \in EC : e # current => regs'[e] = regs[e]
          /\ \A e \in EC : Framed(regs'[e])
      BY <1>1, <1>2, SavedRegs
    <2>2. Framed(cpu') /\ cpu'.esp = top
      BY <1>1, <2>1, FramedSet
    <2>3. ASSUME NEW e \in created, stack'[e] # NoStack
          PROVE  Esp(e)' \in stack'[e][1] .. stack'[e][2]
      <3>1. CASE e = current
        <4>1. Esp(e)' = top /\ stack'[e] = <<lo, top>>
          BY <1>1, <1>12, <2>2, <3>1 DEF Esp
        <4>2. top \in lo .. top
          BY <1>3 DEF top, lo
        <4> QED  BY <4>1, <4>2
      <3>2. CASE e # current
        <4>1. e \in EC /\ stack'[e] = stack[e] /\ Esp(e)' = Esp(e)
          BY <1>1, <1>4, <1>12, <2>1, <3>2 DEF Esp
        <4>2. stack[e] # NoStack => Esp(e) \in stack[e][1] .. stack[e][2]
          BY DEF MInv, StackInside
        <4> QED  BY <2>3, <4>1, <4>2
      <3> QED  BY <3>1, <3>2
    <2> QED  BY <1>1, <2>1, <2>2, <2>3 DEF StackInside, Framed, NoStack
  <1> QED  BY <1>17, <1>18, <1>19

\* alloc_stack() and SYS_CREATE_EC.
LEMMA CreateEcStep ==
    ASSUME MInv, NEW e \in EC, create_ec(e)
    PROVE  Kinds' /\ MemInv' /\ StackInside'
  <1> DEFINE lo == begin + 1
             hi == begin + 1 + USER_STACK_PAGES
             s == Mmap(Store, USER_STACK_PAGES, lo)
             p == Alloc(s.pool, EC_SIZE)
             w == [s EXCEPT !.pool = p]
  <1>1. /\ UserRuns /\ stack[current] # NoStack /\ e \notin created
        /\ UNCHANGED <<phase, image, current>>
        /\ hi <= mempool_e /\ begin' = hi /\ Becomes(w) /\ cpu' = regs'[current]
    BY DEF create_ec, Started, NoStack, StackAt, Resumed
  <1>2. PICK eip, func \in Points :
          \/ /\ regs' = [Saved(eip) EXCEPT ![e] = [eip |-> func, esp |-> hi]]
             /\ created' = created \cup {e}
             /\ stack' = [stack EXCEPT ![e] = <<lo, hi>>]
          \/ regs' = Saved(eip) /\ UNCHANGED <<created, stack>>
    BY DEF create_ec, StackAt
  <1>3. /\ user_stack_bottom \in Nat /\ MAIN_STACK_PAGES \in Nat
        /\ USER_STACK_PAGES \in Nat \ {0} /\ EC_SIZE \in Sizes
        /\ mempool_f \in Nat /\ mempool_e \in Nat /\ mempool_e <= user_stack_bottom
        /\ user_stack_bottom + 1 + MAIN_STACK_PAGES <= Split
    BY MachineAssumption, LayoutAssumption DEF Split
  <1>4. /\ begin \in Int /\ begin \in mempool_f .. mempool_e /\ created \subseteq EC
        /\ stack \in [EC -> Int \X Int]
    BY BeginPlace
  <1>5. /\ lo \in Nat /\ lo \in Int /\ hi \in Int /\ lo <= hi /\ 1 <= lo /\ begin < hi
        /\ hi <= Split /\ hi <= user_stack_bottom /\ hi \in mempool_f .. mempool_e
    BY <1>1, <1>3, <1>4, LowPages
  <1>6. \A q \in Int : begin <= q /\ q < hi =>
            ~ q < begin /\ q # user_stack_bottom /\ ~ Taken(q)
    BY <1>3, <1>4, <1>5 DEF Taken
  <1>7. /\ Shape(s, RunDirs) /\ Safe(s)
        /\ \A q \in Pages : \/ Walk(s.mem, q) = Walk(mem, q)
                            \/ lo <= q /\ q < hi /\ UserPage(s.mem, q)
    <2> DEFINE n == USER_STACK_PAGES
    <2>1. n \in Nat /\ s = Mmap(Store, n, lo) /\ lo + n <= Split /\ hi = lo + n
      BY <1>3, <1>5
    <2>2. \A q \in Int : lo <= q /\ q < hi => ~ Taken(q)
      BY <1>4, <1>6
    <2> HIDE DEF s, lo, hi, n
    <2> QED  BY <1>1, <1>5, <2>1, <2>2, MmapStore
  <1>8. /\ Shape(w, RunDirs) /\ Safe(w) /\ w.mem = s.mem /\ w.pool = p
    <2>1. PoolOK(s.pool) /\ NextFrame(s.pool) \in Int
      BY <1>7, StoreParts
    <2>2. PoolOK(p) /\ NextFrame(p) = NextFrame(s.pool)
      BY <1>3, <2>1, ObjectAlloc
    <2>3. NextFrame(s.pool) <= NextFrame(p)
      BY <2>1, <2>2
    <2> HIDE DEF s, p
    <2> QED  BY <1>7, <2>2, <2>3, PoolChanged
  <1>9. begin = lo - 1 /\ lo - 1 < hi
    BY <1>4, <1>5
  <1> HIDE DEF s, p, w, lo, hi
  <1>10. Store' = w /\ mem' = s.mem /\ pool' = w.pool
         /\ halted' = IF w.pool.oom THEN "out of memory" ELSE halted
    BY <1>1, <1>8, NextStore DEF Becomes
  <1>11. Shape(Store, RunDirs)' /\ Safe(Store)'
    BY <1>8, <1>10
  <1>12. PICK a \in Nat, b \in Int : a = lo /\ b = hi
    BY <1>5
  <1>13. \A q \in Pages : \/ Walk(mem, q)' = Walk(mem, q)
                          \/ a <= q /\ q < b /\ UserPage(mem, q)'
    BY <1>7, <1>10, <1>12 DEF UserPage
  <1>14. /\ stack' \in [EC -> Int \X Int]
         /\ \A x \in EC : stack'[x] = stack[x] \/ (x = e /\ stack'[x] = <<a, b>>)
    <2>1. CASE UNCHANGED stack
      BY <1>4, <2>1
    <2>2. CASE stack' = [stack EXCEPT ![e] = <<a, b>>]
      BY <1>4, <2>2
    <2> QED  BY <1>2, <1>12, <2>1, <2>2
  <1>15. stack[RootEc] # NoStack => stack'[RootEc] # NoStack
    <2>1. RootEc \in EC /\ <<a, b>> # NoStack
      BY <1>5, <1>12, MachineAssumption DEF NoStack
    <2> QED  BY <1>14, <2>1
  <1>16. \A q \in Int : (Taken(q) => Taken(q)') /\ (q < b => Taken(q)')
    <2> SUFFICES ASSUME NEW q \in Int
                 PROVE  (Taken(q) => Taken(q)') /\ (q < b => Taken(q)')
      OBVIOUS
    <2>1. begin' = b /\ begin < b
      BY <1>1, <1>5, <1>12
    <2>2. q < begin => q < b
      BY <1>4, <2>1
    <2> QED  BY <1>15, <2>1, <2>2 DEF Taken, NoStack
  <1>17. \A q \in Int : a <= q /\ q < b =>
             ~ q < begin /\ q # user_stack_bottom /\ Taken(q)'
    <2> SUFFICES ASSUME NEW q \in Int, a <= q, q < b
                 PROVE  ~ q < begin /\ q # user_stack_bottom /\ Taken(q)'
      OBVIOUS
    <2>1. begin <= q /\ q < hi
      BY <1>4, <1>5, <1>9, <1>12
    <2> QED  BY <1>6, <1>16, <2>1
  <1>18. \A x \in EC : \/ stack'[x] = stack[x]
                       \/ /\ stack'[x] = <<a, b>>
                          /\ 1 <= a /\ a <= b /\ b <= Split
                          /\ a - 1 < begin' \/ a - 1 = user_stack_bottom
                          /\ ~ Taken(a - 1)
    <2>1. a - 1 = begin /\ a - 1 < begin' /\ 1 <= a /\ a <= b /\ b <= Split
      BY <1>1, <1>5, <1>9, <1>12
    <2>2. ~ Taken(a - 1)
      <3>1. begin <= begin /\ begin < hi
        BY <1>4, <1>5
      <3>2. ~ Taken(begin)
        BY <1>4, <1>6, <3>1
      <3> QED  BY <2>1, <3>2
    <2> QED  BY <1>14, <2>1, <2>2
  <1>19. begin <= begin' /\ begin' \in mempool_f .. mempool_e
    BY <1>1, <1>4, <1>5
  <1>20. a \in Int
    BY <1>12
  <1>21. MemInv'
    BY <1>1, <1>11, <1>13, <1>14, <1>16, <1>17, <1>18, <1>19, <1>20, UserMemory
  <1>22. Kinds'
    <2>1. created' \subseteq EC
      BY <1>2, <1>4
    <2> QED  BY <1>1, <1>10, <1>19, <2>1 DEF MInv, Kinds, UserRuns
  <1>23. StackInside'
    <2>1. CASE regs' = Saved(eip) /\ UNCHANGED <<created, stack>>
      BY <1>1, <2>1, InsideAlone
    <2>2. CASE /\ regs' = [Saved(eip) EXCEPT ![e] = [eip |-> func, esp |-> hi]]
               /\ created' = created \cup {e}
               /\ stack' = [stack EXCEPT ![e] = <<lo, hi>>]
      <3> DEFINE n == [eip |-> func, esp |-> hi]
                 c == Context(eip)
      <3>1. /\ sp0 = current /\ current \in EC /\ current \in created /\ e # current
            /\ DOMAIN regs = EC
        BY <1>1 DEF MInv, UserRuns, CInv, Tables, Table, Resumable
      <3>2. Framed(n) /\ n.esp = hi /\ Framed(c) /\ c.esp = cpu.esp
        BY DEF Framed, Context
      <3>3. regs' = [[regs EXCEPT ![current] = c] EXCEPT ![e] = n]
        BY <2>2, <3>1 DEF Saved
      <3> HIDE DEF n, c
      <3>4. /\ regs'[e] = n /\ regs'[current] = c
            /\ \A x \in EC : x # e /\ x # current => regs'[x] = regs[x]
        BY <3>1, <3>3
      <3>5. /\ \A x \in EC : Framed(regs[x])
            /\ \A x \in created : stack[x] # NoStack => Esp(x) \in stack[x][1] .. stack[x][2]
        BY DEF MInv, StackInside
      <3>6. \A x \in EC : Framed(regs'[x])
        BY <3>2, <3>4, <3>5
      <3>7. Framed(cpu') /\ cpu'.esp = cpu.esp
        BY <1>1, <3>2, <3>4
      <3>8. ASSUME NEW x \in created', stack'[x] # NoStack
            PROVE  Esp(x)' \in stack'[x][1] .. stack'[x][2]
        <4>1. CASE x = e
          <5>1. Esp(x)' = hi /\ stack'[x] = <<lo, hi>>
            BY <1>1, <1>4, <2>2, <3>1, <3>2, <3>4, <4>1 DEF Esp
          <5>2. hi \in lo .. hi
            BY <1>5
          <5> QED  BY <5>1, <5>2
        <4>2. CASE x # e
          <5>1. x \in created /\ x \in EC /\ stack'[x] = stack[x] /\ Esp(x)' = Esp(x)
            BY <1>1, <1>4, <2>2, <3>4, <3>7, <4>2 DEF Esp
          <5> QED  BY <3>5, <3>8, <5>1
        <4> QED  BY <4>1, <4>2
      <3> QED  BY <3>6, <3>7, <3>8 DEF StackInside, Framed, NoStack
    <2> QED  BY <1>2, <2>1, <2>2
  <1> QED  BY <1>21, <1>22, <1>23

LEMMA CreatePdStep ==
    ASSUME MInv, create_pd
    PROVE  Kinds' /\ MemInv' /\ StackInside'
  <1> DEFINE p == Alloc(pool, PD_SIZE)
             w == [Store EXCEPT !.pool = p]
  <1>1. /\ UserRuns /\ UNCHANGED <<phase, image, created, current, begin, stack>>
        /\ cpu' = regs'[current]
    BY DEF create_pd, Started, Resumed
  <1>2. PICK eip \in Points : regs' = Saved(eip)
    BY DEF create_pd
  <1>3. Shape(Store, RunDirs) /\ Safe(Store)
    BY <1>1 DEF UserRuns, MInv, MemInv, AfterBoot
  <1>4. Shape(w, RunDirs) /\ Safe(w) /\ w.mem = mem /\ w.pool = p
    <2>1. PoolOK(pool) /\ NextFrame(pool) \in Int /\ PD_SIZE \in Sizes
      BY <1>3, StoreParts, SameStore, MachineAssumption
    <2>2. PoolOK(p) /\ NextFrame(p) = NextFrame(pool)
      BY <2>1, ObjectAlloc
    <2> DEFINE t == Store
    <2>3. t.pool = pool /\ t.mem = mem /\ w = [t EXCEPT !.pool = p]
          /\ Shape(t, RunDirs) /\ Safe(t)
      BY <1>3, SameStore
    <2>4. NextFrame(t.pool) <= NextFrame(p)
      BY <2>1, <2>2, <2>3
    <2> HIDE DEF t, w, p
    <2> QED  BY <2>2, <2>3, <2>4, PoolChanged
  <1>5. Becomes(w)
    BY SameStore DEF create_pd
  <1> HIDE DEF w
  <1>6. Store' = w /\ mem' = mem
        /\ halted' = IF pool'.oom THEN "out of memory" ELSE halted
    BY <1>4, <1>5, NextStore DEF Becomes
  <1>7. Shape(Store, RunDirs)' /\ Safe(Store)'
    BY <1>4, <1>6
  <1>8. MemInv'
    <2>1. \A q \in Pages : Walk(mem, q)' = Walk(mem, q)
      BY <1>6
    <2> QED  BY <1>1, <1>7, <2>1, NothingMapped
  <1>9. Kinds'
    BY <1>1, <1>6 DEF MInv, Kinds
  <1>10. StackInside'
    BY <1>1, <1>2, InsideAlone
  <1> QED  BY <1>8, <1>9, <1>10

\* User code reaches the sentinel below its stack, and no further.
LEMMA PushStep ==
    ASSUME MInv, push
    PROVE  Kinds' /\ MemInv' /\ StackInside'
  <1>1. /\ UserRuns /\ stack[current] # NoStack
        /\ UNCHANGED <<pool, mem, phase, image, created, current, begin, stack>>
    BY DEF push, Started, NoStack
  <1>2. MemInv'
    BY <1>1, MemoryAlone
  <1> DEFINE page == cpu.esp - 1
  <1>3. \/ /\ {"P", "W", "U"} \subseteq Walk(mem, page).attr
           /\ cpu' = [cpu EXCEPT !.esp = page] /\ UNCHANGED <<halted, regs>>
        \/ /\ halted' = HandlePageFault(page)
           /\ regs' = Saved(cpu.eip) /\ cpu' = cpu
    BY DEF push
  <1>4. halted' = halted \/ halted' \in {"User Stack Overflow", "User PF"}
    BY <1>3 DEF HandlePageFault
  <1>5. ~ pool.oom
    BY <1>1 DEF MInv, Kinds, UserRuns
  <1>6. Kinds'
    BY <1>1, <1>4, <1>5 DEF MInv, Kinds
  <1>7. StackInside'
    <2>1. CASE regs' = Saved(cpu.eip) /\ cpu' = cpu
      BY <1>1, <2>1, InsideAlone
    <2>2. CASE /\ {"P", "W", "U"} \subseteq Walk(mem, page).attr
               /\ cpu' = [cpu EXCEPT !.esp = page] /\ UNCHANGED regs
      <3>1. current \in EC /\ current \in created /\ created \subseteq EC
        BY <1>1 DEF MInv, UserRuns, CInv, Resumable
      <3>2. PICK a \in Int, b \in Int : stack[current] = <<a, b>>
        BY <3>1, BeginPlace
      <3>3. /\ Framed(cpu) /\ \A e \in EC : Framed(regs[e])
            /\ \A e \in created : stack[e] # NoStack => Esp(e) \in stack[e][1] .. stack[e][2]
        BY DEF MInv, StackInside
      <3>4. cpu.esp \in a .. b
        <4>1. stack[current] # NoStack
          BY DEF push, Started, NoStack
        <4>2. Esp(current) \in stack[current][1] .. stack[current][2]
          BY <3>1, <3>3, <4>1
        <4>3. Esp(current) = cpu.esp
          BY DEF Esp
        <4> QED  BY <3>2, <4>2, <4>3
      <3>5. ~ UserPage(mem, a - 1)
        <4>1. StackPlace(current) /\ halted = "no"
          BY <1>1, <3>1 DEF MInv, MemInv, StackPlaces, UserRuns
        <4> QED  BY <3>2, <4>1 DEF StackPlace
      <3>6. UserPage(mem, page)
        BY <2>2 DEF UserPage
      <3>7. page \in a .. b
        <4>1. page # a - 1
          BY <3>5, <3>6
        <4> HIDE DEF page
        <4>2. page = cpu.esp - 1
          BY DEF page
        <4> QED  BY <3>4, <4>1, <4>2
      <3> HIDE DEF page
      <3>8. Framed(cpu') /\ cpu'.esp = page
        BY <2>2, <3>3, FramedSet
      <3>9. ASSUME NEW e \in created, stack[e] # NoStack
            PROVE  Esp(e)' \in stack[e][1] .. stack[e][2]
        <4>1. CASE e = current
          <5>1. Esp(e)' = page
            BY <1>1, <3>8, <4>1 DEF Esp
          <5> QED  BY <3>2, <3>7, <4>1, <5>1
        <4>2. CASE e # current
          <5>1. Esp(e)' = Esp(e)
            BY <1>1, <2>2, <4>2 DEF Esp
          <5> QED  BY <3>3, <3>9, <5>1
        <4> QED  BY <4>1, <4>2
      <3>10. \A e \in EC : Framed(regs'[e])
        BY <2>2, <3>3
      <3> QED  BY <1>1, <3>8, <3>9, <3>10 DEF StackInside, Framed, NoStack
    <2> QED  BY <1>3, <2>1, <2>2
  <1> QED  BY <1>2, <1>6, <1>7

LEMMA ExitStep ==
    ASSUME MInv, exit_main
    PROVE  Kinds' /\ MemInv' /\ StackInside'
  <1>1. /\ UserRuns /\ halted' = "User EXC" /\ regs' = Saved(cpu.eip)
        /\ UNCHANGED <<pool, mem, phase, image, created, current, cpu, begin, stack>>
    BY DEF exit_main, Started
  <1>2. MemInv'
    BY <1>1, MemoryAlone
  <1>3. ~ pool.oom
    BY <1>1 DEF MInv, Kinds, UserRuns
  <1>4. Kinds'
    BY <1>1, <1>3 DEF MInv, Kinds
  <1>5. StackInside'
    BY <1>1, InsideAlone
  <1> QED  BY <1>2, <1>4, <1>5

\* The next EC finds itself where its regs say.
LEMMA SwitchStep ==
    ASSUME MInv, NEW next \in EC, switch(next)
    PROVE  Kinds' /\ MemInv' /\ StackInside'
  <1>1. /\ UserRuns /\ next \in created /\ current' = next
        /\ UNCHANGED <<pool, mem, halted, image, created, begin, stack>>
    BY DEF switch, Started, BecomeCurrent
  <1>2. cont[next] = "ret_user_iret"
    BY <1>1 DEF MInv, CInv, Resumable, UserRuns
  <1>3. phase' = phase /\ cpu' = regs'[next]
    BY <1>2 DEF switch, Resumed
  <1>4. PICK eip \in Points : regs' = Saved(eip)
    BY DEF switch
  <1>5. MemInv'
    BY <1>1, <1>3, MemoryAlone
  <1>6. Kinds'
    BY <1>1, <1>3 DEF MInv, Kinds
  <1>7. /\ current \in EC /\ current \in created
        /\ regs'[current].esp = cpu.esp
        /\ \A e \in EC : e # current => regs'[e] = regs[e]
        /\ \A e \in EC : Framed(regs'[e])
    BY <1>1, <1>4, SavedRegs
  <1>8. created \subseteq EC
        /\ \A e \in created : stack[e] # NoStack => Esp(e) \in stack[e][1] .. stack[e][2]
    BY DEF MInv, Kinds, StackInside
  <1>9. \A e \in created : Esp(e)' = Esp(e)
    BY <1>1, <1>3, <1>7, <1>8 DEF Esp
  <1>10. Framed(cpu')
    BY <1>3, <1>7
  <1>11. StackInside'
    BY <1>1, <1>7, <1>8, <1>9, <1>10 DEF StackInside, Framed, NoStack
  <1> QED  BY <1>5, <1>6, <1>11

LEMMA MachineStep == MInv /\ [Next]_vars => MInv'
  <1> SUFFICES ASSUME MInv, [Next]_vars PROVE MInv'
    OBVIOUS
  <1>1. CInv'
    BY StepKeeps DEF MInv
  <1>2. CASE init
    BY <1>1, <1>2, InitStep DEF MInv
  <1>3. CASE bootstrap
    BY <1>1, <1>3, BootstrapStep DEF MInv
  <1>4. CASE root_invoke
    BY <1>1, <1>4, RootInvokeStep DEF MInv
  <1>5. CASE start_main
    BY <1>1, <1>5, StartMainStep DEF MInv
  <1>6. CASE create_pd
    BY <1>1, <1>6, CreatePdStep DEF MInv
  <1>7. CASE push
    BY <1>1, <1>7, PushStep DEF MInv
  <1>8. CASE exit_main
    BY <1>1, <1>8, ExitStep DEF MInv
  <1>9. ASSUME NEW e \in EC, create_ec(e) \/ switch(e) PROVE MInv'
    BY <1>1, <1>9, CreateEcStep, SwitchStep DEF MInv
  <1>10. CASE UNCHANGED vars
    <2>1. /\ UNCHANGED <<pool, mem, phase, halted, image, created, begin, stack>>
          /\ UNCHANGED <<current, regs, cpu>> /\ Store' = Store
      BY <1>10 DEF vars, contexts, Store
    <2>2. Kinds'
      BY <2>1 DEF MInv, Kinds
    <2>3. Safe(Store)' /\ BeforeBoot' /\ AfterBoot' /\ KernelStays'
      BY <2>1 DEF MInv, MemInv, BeforeBoot, AfterBoot, KernelStays
    <2>4. Heap'
      BY <2>1 DEF MInv, MemInv, Heap, Taken, NoStack, BadSegment, AllShown, Shows,
                  SegmentCell, FirstFrame, OnSegment
    <2>5. StackPlaces'
      BY <2>1 DEF MInv, MemInv, StackPlaces, StackPlace, NoStack
    <2>6. StackInside'
      BY <2>1 DEF MInv, StackInside, Framed, Esp, NoStack
    <2> QED  BY <1>1, <2>2, <2>3, <2>4, <2>5, <2>6 DEF MInv, MemInv
  <1> QED  BY <1>2, <1>3, <1>4, <1>5, <1>6, <1>7, <1>8, <1>9, <1>10 DEF Next

THEOREM MachineInvariant == Spec => []MInv
  <1>1. Init => MInv
    BY InitMInv
  <1>2. MInv /\ [Next]_vars => MInv'
    BY MachineStep
  <1> QED  BY <1>1, <1>2, PTL DEF Spec

-----------------------------------------------------------------------------
\* What the invariant says of the memory.

LEMMA MachineShape ==
    ASSUME MInv
    PROVE  \E D : Shape(Store, D)
  <1>1. phase \in {"init", "bootstrap", "root_invoke", "user"}
    BY DEF MInv, Kinds
  <1>2. CASE phase \in {"init", "bootstrap"}
    BY <1>2 DEF MInv, MemInv, BeforeBoot
  <1>3. CASE phase \in {"root_invoke", "user"}
    BY <1>3 DEF MInv, MemInv, AfterBoot
  <1> QED  BY <1>1, <1>2, <1>3

LEMMA MachineMemory ==
    ASSUME MInv
    PROVE  /\ PoolOK(pool) /\ mem \in Memories /\ Safe(Store)
           /\ \E D : Rights(mem, D) /\ TablesApart(mem, NextFrame(pool))
  <1>1. PICK D : Shape(Store, D)
    BY MachineShape
  <1> QED  BY <1>1, StoreParts, SameStore DEF MInv, MemInv

LEMMA TypeHolds == MInv => TypeOK
  <1> SUFFICES ASSUME MInv PROVE TypeOK
    OBVIOUS
  <1>1. PoolOK(pool) /\ mem \in Memories
    BY MachineMemory
  <1>2. /\ pool.begin \in Int /\ pool.end \in Int
        /\ POOL_F <= pool.begin /\ pool.begin <= pool.end /\ pool.end <= POOL_E
        /\ POOL_F \in Int /\ POOL_E \in Int
    BY <1>1, PoolAssumption DEF PoolOK, PoolInv, Pools, Apart
  <1>3. DOMAIN mem.pdir = 0 .. DIRS - 1 /\ DOMAIN mem.ptab = Frames
    BY <1>1, MemoryParts DEF Dirs
  <1>4. sp0 = current
    BY DEF MInv, CInv
  <1>5. /\ pool.begin \in POOL_F .. POOL_E /\ pool.end \in POOL_F .. POOL_E
        /\ pool.begin <= pool.end
    BY <1>2
  <1>6. {current, sp0} \subseteq EC \cup {NULL}
    BY <1>4 DEF MInv, Kinds
  <1> QED  BY <1>3, <1>5, <1>6 DEF MInv, Kinds, TypeOK

\* In every state the pool, the tables and the variables of the machine are of
\* their types: init.cc, ec.cc and ptab.cc leave nothing outside them.
THEOREM TypeCorrect == Spec => []TypeOK
  BY MachineInvariant, TypeHolds, PTL

\* Whatever boot, root_invoke(), mmap() and the new operators ask of it, the
\* two ends of the pool never meet in a piece (kalloc.cc:13, 21).
THEOREM PoolStaysApart == Spec => []NoOverlap
  <1>1. MInv => NoOverlap
    BY MachineMemory DEF PoolOK, PoolInv, Apart, NoOverlap
  <1> QED  BY <1>1, MachineInvariant, PTL

\* No translation the processor may have cached is wrong or gives a right that
\* the tables do not: insert_mapping(), which flushes nothing, only adds
\* (ptab.cc:20), and bootstrap() and remap() flush what they take away.
THEOREM NothingStale == Spec => []TlbCoherent
  <1>1. MInv => TlbCoherent
    BY MachineMemory, SameStore DEF Safe, Coherent, Backed, TlbCoherent
  <1> QED  BY <1>1, MachineInvariant, PTL

\* The kernel's part of the address space is mapped one to one.
LEMMA KernelMapped ==
    ASSUME NEW m, NEW D, Rights(m, D), NEW page \in Split .. Split + LINK_DIRS * PTES - 1
    PROVE  Walk(m, page).frame = LINK_P + page - Split
  <1> DEFINE d == page \div PTES
             i == page % PTES
             c == d - LINK_DIR
             k == c * PTES
             f == LINK_P + k
  <1>1. /\ PTES \in Nat \ {0} /\ LINK_DIR \in Nat /\ LINK_DIRS \in Nat /\ LINK_P \in Nat
        /\ LINK_P % PTES = 0 /\ LINK_DIR + LINK_DIRS <= DIRS /\ DIRS \in Nat
    BY MemoryAssumption
  <1>2. page \in Nat /\ Split = LINK_DIR * PTES /\ page < (LINK_DIR + LINK_DIRS) * PTES
        /\ ~ page < LINK_DIR * PTES
    BY <1>1 DEF Split
  <1>3. d < LINK_DIR + LINK_DIRS /\ ~ d < LINK_DIR /\ d \in Nat
    BY <1>1, <1>2, DivBelow
  <1>4. page = PTES * d + i /\ i \in Nat
    BY <1>1, <1>2
  <1> HIDE DEF d, i
  <1>5. d \in LinkDirs
    BY <1>1, <1>3 DEF LinkDirs
  <1>6. m.pdir[d] = [frame |-> f, attr |-> {"P", "W", "S", "G"}]
    BY <1>5 DEF Rights, KernelEntry
  <1>7. f % PTES = 0
    <2> DEFINE n == LINK_P \div PTES
    <2>1. LINK_P = PTES * n /\ n \in Int
      BY <1>1
    <2> HIDE DEF n
    <2>2. c \in Int
      BY <1>1, <1>3
    <2> HIDE DEF c
    <2>3. f = PTES * (n + c) + 0 /\ n + c \in Int /\ 0 \in 0 .. PTES - 1 /\ f \in Int
      BY <1>1, <2>1, <2>2
    <2> HIDE DEF f
    <2> QED  BY <1>1, <2>3, DivUnique
  <1>8. Walk(m, page) = [frame |-> f + i, attr |-> {"P", "W", "S", "G"}]
    <2> HIDE DEF f
    <2> QED  BY <1>6, <1>7 DEF Walk, d, i
  <1>9. f + i = LINK_P + page - Split
    <2>1. k = PTES * d - LINK_DIR * PTES /\ k \in Int
      BY <1>1, <1>3
    <2> DEFINE x == PTES * d
               y == LINK_DIR * PTES
    <2>2. x \in Int /\ y \in Int
      BY <1>1, <1>3
    <2> HIDE DEF x, y, k
    <2> QED  BY <1>1, <1>2, <1>4, <2>1, <2>2 DEF x, y
  <1> QED  BY <1>8, <1>9

\* User rights end below LINK_ADDR; from bootstrap() on nothing else is mapped
\* there, and the kernel's image, its stack and the I/O bitmap stay where
\* init() and start.S put them (init.cc:86, ptab.cc:15).
THEOREM SplitKept == Spec => []UserKernelSplit
  <1>1. ASSUME MInv PROVE UserKernelSplit
    <2>1. Users(mem, NextFrame(pool))
      BY <1>1, MachineMemory, SameStore DEF Safe
    <2>2. Split \in Nat /\ \A q \in Nat : q < Split => q \in Pages
      BY LowPages
    <2>3. PICK D : Rights(mem, D)
      BY <1>1, MachineMemory
    <2>4. \A page \in Split .. Split + LINK_DIRS * PTES - 1 :
              Walk(mem, page).frame = LINK_P + page - Split
      BY <2>3, KernelMapped
    <2>5. \A page \in UserMapped : page < Split
      BY <2>1 DEF Users, UserMapped, UserPage
    <2>6. ASSUME phase \in {"root_invoke", "user"}, NEW page \in 0 .. Split - 1,
                 Walk(mem, page) # Zero
          PROVE  page \in UserMapped
      <3>1. page \in Pages /\ page < Split
        BY <2>2
      <3> QED  BY <1>1, <2>6, <3>1 DEF MInv, MemInv, AfterBoot, UserMapped, UserPage
    <2>7. phase # "init" /\ halted # "out of memory" =>
             \A page \in {KSTCK, IOBMP, IOBMP + 1} : Walk(mem, page) # Zero
      BY <1>1 DEF MInv, MemInv, KernelStays, KernelPages
    <2> QED  BY <2>4, <2>5, <2>6, <2>7 DEF UserKernelSplit, Split
  <1> QED  BY <1>1, MachineInvariant, PTL

\* What was handed out for page frame f ends before the next that will be.
LEMMA FrameGiven ==
    ASSUME PoolOK(pool), NEW f \in Int, f < NextFrame(pool)
    PROVE  (f + 1) * PAGE_SIZE <= pool.begin
  <1> DEFINE n == NextFrame(pool)
             b == pool.begin
  <1>1. n \in Int /\ b = PAGE_SIZE * n /\ PAGE_SIZE \in Nat \ {0} /\ f < n
    BY NextPage, PoolAssumption
  <1> HIDE DEF n, b
  <1>2. (f + 1) * PAGE_SIZE <= n * PAGE_SIZE
    BY <1>1
  <1> QED  BY <1>1, <1>2 DEF b

LEMMA FarFrame ==
    ASSUME NEW f \in Int, Far(f)
    PROVE  POOL_F \div PAGE_SIZE <= f /\ ~ f * PAGE_SIZE < POOL_E
  <1> DEFINE a == f * PAGE_SIZE
  <1>1. PAGE_SIZE \in Nat \ {0} /\ POOL_F \in Nat /\ POOL_E \in Nat /\ POOL_F <= POOL_E
    BY PoolAssumption
  <1>2. a \in Int /\ POOL_E <= a /\ a = PAGE_SIZE * f + 0 /\ 0 \in 0 .. PAGE_SIZE - 1
    BY <1>1 DEF Far
  <1>3. a \div PAGE_SIZE = f
    <2> HIDE DEF a
    <2> QED  BY <1>1, <1>2, DivUnique
  <1> HIDE DEF a
  <1>4. POOL_F \div PAGE_SIZE <= a \div PAGE_SIZE
    BY <1>1, <1>2, DivMono
  <1> QED  BY <1>1, <1>2, <1>3, <1>4 DEF a

\* No two user pages share a frame of the pool, and none shows user code a page
\* table, a kernel object or the kernel's image: SyscallMmap maps what
\* alloc_page() just gave it (syscall.cc:17), insert_mapping() the same for its
\* tables (ptab.cc:15), and root_invoke() what is behind the pool.
THEOREM FramesPrivate == Spec => []NoAliasing
  <1>1. ASSUME MInv, NEW page \in UserMapped
        PROVE  LET tables == {mem.pdir[d].frame : d \in
                      {x \in DOMAIN mem.pdir : /\ "P" \in mem.pdir[x].attr
                                               /\ "S" \notin mem.pdir[x].attr}}
                   frame(q) == Walk(mem, q).frame
               IN  /\ frame(page) >= POOL_F \div PAGE_SIZE
                   /\ frame(page) \notin tables
                   /\ frame(page) * PAGE_SIZE < POOL_E =>
                         /\ (frame(page) + 1) * PAGE_SIZE <= pool.begin
                         /\ \A other \in UserMapped \ {page} : frame(other) # frame(page)
    <2> DEFINE f == Walk(mem, page).frame
    <2>1. /\ PoolOK(pool) /\ mem \in Memories
          /\ TablesApart(mem, NextFrame(pool)) /\ Users(mem, NextFrame(pool))
      BY <1>1, MachineMemory, SameStore DEF Safe
    <2>2. page \in Pages /\ UserPage(mem, page)
      BY DEF UserMapped, UserPage
    <2>3. Held(mem, NextFrame(pool), page, f)
      BY <2>1, <2>2 DEF Users
    <2>4. f \in Int
      <3>1. Walk(mem, page) \in Entries
        BY <2>1, <2>2, WalkEntry
      <3> QED  BY <3>1, EntryParts
    <2>5. \A d \in DOMAIN mem.pdir : "P" \in mem.pdir[d].attr /\ "S" \notin mem.pdir[d].attr
              => d \in Dirs /\ IsTable(mem, d)
      BY <2>1, MemoryParts DEF IsTable
    <2>6. \A q \in UserMapped \ {page} : q \in Pages /\ q # page /\ UserPage(mem, q)
      BY DEF UserMapped, UserPage
    <2> HIDE DEF f
    <2>7. CASE Far(f)
      <3>1. POOL_F \div PAGE_SIZE <= f /\ ~ f * PAGE_SIZE < POOL_E
        BY <2>4, <2>7, FarFrame
      <3>2. ASSUME NEW d \in Dirs, IsTable(mem, d)
            PROVE  mem.pdir[d].frame # f
        <4>1. mem.pdir[d].frame \in Frames
          BY <2>1, <3>2 DEF TablesApart
        <4> QED  BY <2>7, <4>1, PoolNotFar
      <3>3. POOL_F \div PAGE_SIZE \in Int
        BY PoolAssumption
      <3> QED  BY <2>4, <2>5, <3>1, <3>2, <3>3 DEF f
    <2>8. CASE ~ Far(f)
      <3>1. /\ f \in Frames /\ f < NextFrame(pool)
            /\ \A d \in Dirs : IsTable(mem, d) => mem.pdir[d].frame # f
            /\ \A q \in Pages : q # page /\ UserPage(mem, q) => Walk(mem, q).frame # f
        BY <2>3, <2>8 DEF Held
      <3>2. (f + 1) * PAGE_SIZE <= pool.begin
        BY <2>1, <2>4, <3>1, FrameGiven
      <3>3. POOL_F \div PAGE_SIZE <= f /\ POOL_F \div PAGE_SIZE \in Int
        BY <3>1, PoolAssumption DEF Frames
      <3> QED  BY <2>4, <2>5, <2>6, <3>1, <3>2, <3>3 DEF f
    <2> QED  BY <2>7, <2>8
  <1>2. MInv => NoAliasing
    BY <1>1 DEF NoAliasing
  <1> QED  BY <1>2, MachineInvariant, PTL

\* Every EC stays within its own stack: the sentinel below it, which
\* alloc_stack() (mempool.cc:17) and linker.ld leave, is never mapped, so that
\* what goes deeper stops the machine before it reaches another stack.
THEOREM StacksStayApart == Spec => []StacksGuarded
  <1>1. ASSUME MInv PROVE StacksGuarded
    <2> SUFFICES ASSUME NEW e \in created, stack[e] # <<0, 0>>
                 PROVE  /\ stack[e][1] <= Esp(e) /\ Esp(e) <= stack[e][2]
      BY DEF StacksGuarded, Esp
    <2>1. e \in EC
      BY <1>1 DEF MInv, Kinds
    <2>2. stack[e] \in Int \X Int
      BY <1>1, <2>1 DEF MInv, MemInv, StackPlaces
    <2>3. Esp(e) \in stack[e][1] .. stack[e][2]
      BY <1>1 DEF MInv, StackInside, NoStack
    <2> QED  BY <2>2, <2>3
  <1> QED  BY <1>1, MachineInvariant, PTL

\* A byte of a segment: on a page with bytes of it, and as far behind the start
\* of the frame as the header says it is behind the segment's first byte.
LEMMA SegmentByte ==
    ASSUME image \in Images, NEW i \in DOMAIN image.segments,
           NEW p, p = image.segments[i], ~ BadSegment(p),
           NEW v \in p.v_addr .. p.v_addr + p.f_size - 1
    PROVE  LET q == v \div PAGE_SIZE
           IN  /\ q \in Int /\ OnSegment(p, q)
               /\ SegmentCell(p, q).frame * PAGE_SIZE + (v % PAGE_SIZE)
                     = image.mod_start + p.f_offs + (v - p.v_addr)
  <1> DEFINE q == v \div PAGE_SIZE
             r == v % PAGE_SIZE
             a == p.v_addr
             t == a % PAGE_SIZE
             o == p.f_offs
             F == FirstFrame(p)
             A == FirstPage(p)
             last == p.v_addr + p.f_size - 1
             m == image.mod_start
  <1>1. PAGE_SIZE \in Nat \ {0} /\ m \in Int
    <2>1. WellLinked(image)
      BY ImagesAssumption
    <2> QED  BY <2>1, PoolAssumption DEF WellLinked
  <1>2. p \in Segments /\ A \in Int
    BY SegmentExtent
  <1>3. a \in Nat /\ o \in Nat /\ p.f_size \in Nat \ {0} /\ last \in Int
    BY <1>2 DEF Segments
  <1>4. v \in Int /\ a <= v /\ v <= last
    BY <1>3
  <1>5. OnSegment(p, q)
    <2> HIDE DEF last
    <2>1. a \div PAGE_SIZE <= v \div PAGE_SIZE
      BY <1>1, <1>3, <1>4, DivMono
    <2>2. v \div PAGE_SIZE <= last \div PAGE_SIZE
      BY <1>1, <1>3, <1>4, DivMono
    <2> QED  BY <2>1, <2>2 DEF OnSegment, FirstPage, LastPage, last
  <1>6. /\ o + m = PAGE_SIZE * F + t
        /\ a = PAGE_SIZE * A + t
        /\ t \in 0 .. PAGE_SIZE - 1
    BY SegmentOffset
  <1>7. F \in Int
    BY ModuleFar
  <1>8. v = PAGE_SIZE * q + r /\ q \in Int /\ r \in Int
    BY <1>1, <1>4
  <1>9. SegmentCell(p, q).frame = F + q - A
    BY DEF SegmentCell
  <1> HIDE DEF q, r, a, t, o, F, A, last, m
  <1>10. (F + q - A) * PAGE_SIZE = PAGE_SIZE * F + PAGE_SIZE * q - PAGE_SIZE * A
    BY <1>1, <1>2, <1>7, <1>8
  <1> DEFINE x == PAGE_SIZE * F
             y == PAGE_SIZE * q
             z == PAGE_SIZE * A
             w == (F + q - A) * PAGE_SIZE
  <1>11. x \in Int /\ y \in Int /\ z \in Int /\ t \in Int
    BY <1>1, <1>2, <1>6, <1>7, <1>8
  <1>12. o + m = x + t /\ a = z + t /\ v = y + r /\ w = x + y - z
    BY <1>6, <1>8, <1>10
  <1> HIDE DEF x, y, z, w
  <1>13. w + r = m + o + (v - a)
    BY <1>1, <1>3, <1>4, <1>8, <1>11, <1>12
  <1> QED  BY <1>5, <1>8, <1>9, <1>13 DEF q, r, a, o, m, w

\* When user code runs, every byte of every segment of the module is where its
\* header says, with the rights it asks for, and stays there: no later mapping
\* takes its page. The last page of a segment whose size is rounded up, but
\* not its end, is there because the next segment begins on it (ec.cc:123).
THEOREM ProgramInPlace == Spec => []SegmentsMapped
  <1>1. ASSUME MInv PROVE SegmentsMapped
    <2> SUFFICES ASSUME phase = "user", halted # "out of memory",
                        NEW p \in Range(image.segments),
                        NEW v \in p.v_addr .. p.v_addr + p.f_size - 1
                 PROVE  LET w == Walk(mem, v \div PAGE_SIZE)
                        IN  /\ {"P", "U"} \subseteq w.attr
                            /\ p.writable => "W" \in w.attr
                            /\ w.frame * PAGE_SIZE + (v % PAGE_SIZE)
                                   = image.mod_start + p.f_offs + (v - p.v_addr)
      BY DEF SegmentsMapped
    <2> DEFINE q == v \div PAGE_SIZE
               w == Walk(mem, q)
    <2>1. image \in Images /\ ~ BadSegment(p) /\ AllShown(mem)
      BY <1>1 DEF MInv, MemInv, Kinds, Heap
    <2>2. PICK i \in DOMAIN image.segments : p = image.segments[i]
      BY DEF Range
    <2>3. /\ q \in Int /\ OnSegment(p, q)
          /\ SegmentCell(p, q).frame * PAGE_SIZE + (v % PAGE_SIZE)
                 = image.mod_start + p.f_offs + (v - p.v_addr)
      BY <2>1, <2>2, SegmentByte
    <2> HIDE DEF q
    <2>4. Shows(mem, p, q)
      BY <2>1, <2>3 DEF AllShown
    <2>5. w.frame = SegmentCell(p, q).frame /\ SegmentRights(p) \subseteq w.attr
      BY <2>4 DEF Shows
    <2> HIDE DEF w
    <2>6. {"P", "U"} \subseteq w.attr /\ (p.writable => "W" \in w.attr)
      BY <2>5 DEF SegmentRights
    <2>7. w.frame * PAGE_SIZE + (v % PAGE_SIZE)
              = image.mod_start + p.f_offs + (v - p.v_addr)
      BY <2>3, <2>5
    <2> QED  BY <2>6, <2>7 DEF w, q
  <1> QED  BY <1>1, MachineInvariant, PTL
==============================================================================
