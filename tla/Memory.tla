-------------------------------- MODULE Memory --------------------------------
(***************************************************************************)
(* Paging (kern/src/ptab.cc and the page tables of kern/src/start.S) as    *)
(* operators on a store [pool, mem], mem being                             *)
(*                                                                         *)
(*   pdir   the page directory                                             *)
(*   ptab   what each frame holds when it is read as a page table          *)
(*   tlb    the translations the processor may have cached                 *)
(*                                                                         *)
(* A virtual page is a number; PTES pages make one entry of the directory. *)
(* An entry names a frame and the attributes of its lower bits: "P"resent, *)
(* "W"ritable, "U"ser, "S"uper (one entry for PTES pages), "G"lobal. The   *)
(* processor may walk the tables at any time, so every translation they    *)
(* give enters tlb at once, and leaves it only when it is flushed.         *)
(***************************************************************************)
EXTENDS Kalloc, FiniteSets

CONSTANTS
    PTES,       \* entries of a page table
    DIRS,       \* entries of the page directory
    LOAD_DIRS,  \* entries below LOAD_E, that start.S maps one to one
    LINK_DIR,   \* the entry of LINK_ADDR, where the kernel is linked
    LINK_DIRS,  \* entries up to LINK_E
    LINK_P,     \* the frame LINK_ADDR is mapped to
    REMAP_DIR   \* the entry of REMAP_SADDR

ASSUME MemoryAssumption == /\ {PTES, DIRS, LOAD_DIRS, LINK_DIRS} \subseteq Nat \ {0}
                           /\ {LINK_DIR, LINK_P, REMAP_DIR} \subseteq Nat
                           /\ LINK_DIR + LINK_DIRS <= REMAP_DIR
                           /\ REMAP_DIR < DIRS
                           /\ PTES % 4 = 0
                           /\ LINK_P % PTES = 0

Pages  == 0 .. DIRS * PTES - 1

\* The frames page tables are taken from.
Frames == (POOL_F \div PAGE_SIZE) .. (POOL_E \div PAGE_SIZE) - 1

\* A quarter of what one entry of the directory covers.
Megabyte == (PTES \div 4) * PAGE_SIZE

Zero == [frame |-> 0, attr |-> {}]
ZeroTable == [i \in 0 .. PTES - 1 |-> Zero]

\* What the processor finds when it walks the tables for a page. A superpage
\* that does not start at a multiple of its size has reserved bits set.
Walk(mem, page) ==
    LET d == mem.pdir[page \div PTES]
        e == mem.ptab[d.frame][page % PTES]
    IN  IF "P" \notin d.attr THEN Zero
        ELSE IF "S" \in d.attr
        THEN IF d.frame % PTES # 0 THEN Zero
             ELSE [frame |-> d.frame + (page % PTES), attr |-> d.attr]
        ELSE IF "P" \notin e.attr THEN Zero
        ELSE [frame |-> e.frame,
              attr  |-> IF "U" \in d.attr THEN e.attr ELSE e.attr \ {"U"}]

Translations(mem) ==
    {<<page, Walk(mem, page)>> : page \in {p \in Pages : Walk(mem, p) # Zero}}

\* The processor has seen the tables.
Walked(mem) == [mem EXCEPT !.tlb = @ \cup Translations(mem)]

\* Cpu::flush(): cr3 is written, which spares what is global.
Flush(mem) == [mem EXCEPT !.tlb = {t \in @ : "G" \in t[2].attr}]

\* Cpu::flush(addr): invlpg for a page under directory entry dir.
FlushSuper(mem, dir) == [mem EXCEPT !.tlb = {t \in @ : t[1] \div PTES # dir}]

-----------------------------------------------------------------------------

\* start.S: superpages one to one below LOAD_E, and for the kernel.
BootMemory ==
    Walked([pdir |-> [d \in 0 .. DIRS - 1 |->
                         IF d < LOAD_DIRS
                         THEN [frame |-> d * PTES, attr |-> {"P", "W", "S"}]
                         ELSE IF d \in LINK_DIR .. LINK_DIR + LINK_DIRS - 1
                         THEN [frame |-> LINK_P + (d - LINK_DIR) * PTES,
                               attr  |-> {"P", "W", "S", "G"}]
                         ELSE Zero],
            ptab |-> [f \in Frames |-> ZeroTable],
            tlb  |-> {}])

\* Ptab::insert_mapping(): a directory entry that is not present gets a fresh
\* table, with the user right of this page. Nothing is flushed.
InsertMapping(s, page, frame, attr) ==
    LET dir    == page \div PTES
        fresh  == "P" \notin s.mem.pdir[dir].attr
        pool1  == IF fresh THEN AllocPage(s.pool, 1) ELSE s.pool
        table  == IF fresh THEN NextFrame(s.pool) ELSE s.mem.pdir[dir].frame
        before == IF fresh THEN ZeroTable ELSE s.mem.ptab[table]
        entry  == IF fresh
                  THEN [frame |-> table,
                        attr  |-> {"P", "W"} \cup (attr \cap {"U"})]
                  ELSE s.mem.pdir[dir]
    IN  IF pool1.oom THEN [s EXCEPT !.pool = pool1]
        ELSE [pool |-> pool1,
              mem  |-> Walked([s.mem EXCEPT
                  !.pdir[dir] = entry,
                  !.ptab[table] = [before EXCEPT
                      ![page % PTES] = [frame |-> frame, attr |-> attr]]])]

\* The loop of root_invoke() over the pages of a segment.
MapRange(s, page, frame, count, attr) ==
    LET mapped[i \in 0 .. count] ==
            IF i = 0 THEN s
            ELSE InsertMapping(mapped[i - 1], page + i - 1, frame + i - 1, attr)
    IN  mapped[count]

\* Mutant: one page is taken before the loop and mapped everywhere.
MmapOnePage(s, n_pages, page) ==
    LET p == AllocPage(s.pool, 1)
        mapped[i \in 0 .. n_pages] ==
            IF i = 0 THEN [s EXCEPT !.pool = p]
            ELSE InsertMapping(mapped[i - 1], page + i - 1, NextFrame(s.pool),
                               {"P", "W", "U"})
    IN  mapped[n_pages]

\* SyscallMmap::handle: n_pages fresh pages, each zeroed, mapped from page on.
Mmap(s, n_pages, page) ==
    LET mapped[i \in 0 .. n_pages] ==
            IF i = 0 THEN s
            ELSE LET m == mapped[i - 1]
                     p == AllocPage(m.pool, 1)
                 IN  IF p.oom THEN [m EXCEPT !.pool = p]
                     ELSE InsertMapping([m EXCEPT !.pool = p], page + i - 1,
                                        NextFrame(m.pool), {"P", "W", "U"})
    IN  mapped[n_pages]

\* Mutant: the old mapping is not flushed.
RemapUnflushed(mem, addr) ==
    Walked([mem EXCEPT !.pdir[REMAP_DIR] =
            [frame |-> (addr \div Megabyte) * (PTES \div 4),
             attr  |-> {"P", "W", "S"}]])

\* Ptab::remap(addr): one superpage over addr. The mask 0xfff00000 keeps the
\* megabyte, not the 4M page, and the offset returned is within a megabyte.
Remap(mem, addr) ==
    LET gone == [mem EXCEPT !.pdir[REMAP_DIR] = Zero]
    IN  Walked([FlushSuper(gone, REMAP_DIR) EXCEPT !.pdir[REMAP_DIR] =
            [frame |-> (addr \div Megabyte) * (PTES \div 4),
             attr  |-> {"P", "W", "S"}]])

\* The pointer remap(addr) returned can be read.
Readable(mem) == Walk(mem, REMAP_DIR * PTES) # Zero

===============================================================================
