-------------------------------- MODULE Kalloc --------------------------------
(***************************************************************************)
(* The kernel's memory pool (kern/src/kalloc.cc): pages are taken from its *)
(* beginning and objects from its end, nothing is ever given back, and an  *)
(* allocation that does not fit stops the machine. Addresses are bytes of  *)
(* physical memory; the kernel sees them at the constant distance OFFSET.  *)
(* PoolSpec is the pool alone, asked for anything in any order.            *)
(***************************************************************************)
EXTENDS Integers, Sequences

CONSTANTS
    PAGE_SIZE,  \* bytes of a page
    POOL_F,     \* _mempool_f, the first byte of the pool
    POOL_E,     \* _mempool_e, the byte after its last
    Sizes       \* the sizes of kernel objects

\* Page sizes and addresses of the linker script. The largest object is
\* smaller than the address of the pool: end - size does not wrap.
ASSUME PoolAssumption == /\ PAGE_SIZE \in Nat \ {0}
                         /\ POOL_F \in Nat
                         /\ POOL_E \in Nat
                         /\ POOL_F <= POOL_E
                         /\ POOL_F % PAGE_SIZE = 0
                         /\ Sizes \in SUBSET (Nat \ {0})

\* begin and end as in class Kalloc; given lists what was handed out, each
\* piece as <<first byte, byte after the last>>; oom: the pool panicked.
VARIABLE pool

EmptyPool == [begin |-> POOL_F, end |-> POOL_E, given |-> << >>, oom |-> FALSE]

\* Kalloc::alloc(size)
Alloc(p, size) ==
    IF p.oom \/ p.end - size < p.begin
    THEN [p EXCEPT !.oom = TRUE]
    ELSE [p EXCEPT !.end = @ - size,
                   !.given = Append(@, <<p.end - size, p.end>>)]

\* Mutant: the last page of the pool is handed out over the objects.
AllocPageOneMore(p, n) ==
    IF p.oom \/ p.begin + (n - 1) * PAGE_SIZE > p.end
    THEN [p EXCEPT !.oom = TRUE]
    ELSE [p EXCEPT !.begin = @ + n * PAGE_SIZE,
                   !.given = Append(@, <<p.begin, p.begin + n * PAGE_SIZE>>)]

\* Kalloc::alloc_page(n)
AllocPage(p, n) ==
    IF p.oom \/ p.begin + n * PAGE_SIZE > p.end
    THEN [p EXCEPT !.oom = TRUE]
    ELSE [p EXCEPT !.begin = @ + n * PAGE_SIZE,
                   !.given = Append(@, <<p.begin, p.begin + n * PAGE_SIZE>>)]

\* The page that alloc_page(1) is about to hand out, by its number.
NextFrame(p) == p.begin \div PAGE_SIZE

-----------------------------------------------------------------------------

PoolInit == pool = EmptyPool
PoolNext == \/ \E size \in Sizes : pool' = Alloc(pool, size)
            \/ \E n \in Nat \ {0} : pool' = AllocPage(pool, n)
PoolSpec == PoolInit /\ [][PoolNext]_pool

\* The two ends never meet in a piece that was handed out: no two pieces share
\* a byte, and all lie in the pool (kalloc.cc:13, 21).
NoOverlap ==
    /\ \A i \in 1 .. Len(pool.given) :
          POOL_F <= pool.given[i][1] /\ pool.given[i][2] <= POOL_E
    /\ \A i, j \in 1 .. Len(pool.given) :
          i # j => \/ pool.given[i][2] <= pool.given[j][1]
                   \/ pool.given[j][2] <= pool.given[i][1]
===============================================================================
