-------------------------------- MODULE Machine --------------------------------
(***************************************************************************)
(* The kernel's memory and context switches from boot on: init() and       *)
(* bootstrap() of kern/src/init.cc, root_invoke(), make_current() and the  *)
(* entries and exits of kern/src/ec.cc and entry.S, and the steps of user  *)
(* programs that change memory: the start code, stacks, new ECs and PDs.   *)
(* Which EC runs next is the business of Scheduling; here it may be any.   *)
(* The kernel runs with interrupts masked, so one pass through it, from    *)
(* sysenter to sysexit or iret, is one step.                               *)
(***************************************************************************)
EXTENDS Memory, FiniteSetsExt

CONSTANTS
    EC, RootEc, NULL,
    Images,           \* what the bootloader may have left in memory
    EC_SIZE, PD_SIZE, \* bytes of the kernel's objects
    KSTCK, IOBMP,     \* the pages KSTCK_ADDR and IOBMP_SADDR
    Points,           \* return addresses of system calls and entries of ECs
    USER_HEAP_START, USER_HEAP_END, USER_MAIN_STACK_START,
    KERN_STACK_SIZE,  \* USER_STACK_SIZE of kern/include/memory.h, in pages
    USER_STACK_PAGES, \* of user/include/symbols.h
    mempool_f, mempool_e,                 \* pages of user/src/linker.ld:
    user_stack_bottom, MAIN_STACK_PAGES   \* its heap and its main stack

ASSUME MachineAssumption ==
    /\ RootEc \in EC /\ NULL \notin EC
    /\ {EC_SIZE, PD_SIZE} \subseteq Sizes
    /\ {KSTCK, IOBMP, IOBMP + 1} \subseteq Pages
    /\ {USER_STACK_PAGES, MAIN_STACK_PAGES, KERN_STACK_SIZE} \subseteq Nat \ {0}
    /\ user_stack_bottom + 1 + MAIN_STACK_PAGES <= LINK_DIR * PTES

\* memory.h and hypervisor.ld: what init() maps is behind the kernel, and not
\* where remap() is at work. linker.ld: the heap is before the main stack.
ASSUME LayoutAssumption ==
    /\ LOAD_DIRS <= LINK_DIR
    /\ \A page \in {KSTCK, IOBMP, IOBMP + 1} :
          /\ LINK_DIR + LINK_DIRS <= page \div PTES
          /\ page \div PTES # REMAP_DIR
    /\ KSTCK \notin {IOBMP, IOBMP + 1}
    /\ {mempool_f, mempool_e, user_stack_bottom} \subseteq Nat
    /\ mempool_f <= mempool_e /\ mempool_e <= user_stack_bottom

\* The pages that the bytes of a segment are on.
FirstPage(p) == p.v_addr \div PAGE_SIZE
LastPage(p)  == (p.v_addr + p.f_size - 1) \div PAGE_SIZE

\* The bootloader puts the module behind the kernel and its pool, on a page of
\* its own. A linker keeps the segments below the heap and in the order of the
\* file; where two share a page they are one piece of it, and the later may
\* write it if the earlier may. A segment that goes on to one page more than
\* its size makes is followed by one that begins there.
WellLinked(img) ==
    LET segments == img.segments
    IN  /\ {img.mbi, img.mods_addr, img.cmdline, img.ph_offset} \subseteq Nat
        /\ img.mod_start \in Nat
        /\ POOL_E <= img.mod_start /\ img.mod_start % PAGE_SIZE = 0
        /\ segments \in Seq([v_addr : Nat, f_offs : Nat, f_size : Nat \ {0},
                             m_size : Nat, writable : BOOLEAN])
        /\ \A i \in DOMAIN segments : LET p == segments[i] IN
              /\ p.v_addr + p.f_size <= mempool_f * PAGE_SIZE
              /\ \/ LastPage(p) = FirstPage(p) + ((p.f_size - 1) \div PAGE_SIZE)
                 \/ \E j \in DOMAIN segments :
                       i < j /\ FirstPage(segments[j]) = LastPage(p)
        /\ \A i, j \in DOMAIN segments : LET p == segments[i]
                                             q == segments[j] IN
              i < j /\ FirstPage(p) <= LastPage(q) /\ FirstPage(q) <= LastPage(p)
                 => /\ p.v_addr - p.f_offs = q.v_addr - q.f_offs
                    /\ p.writable => q.writable

ASSUME ImagesAssumption == \A img \in Images : WellLinked(img)

VARIABLES
    mem,      \* see Memory; pool is in Kalloc
    phase,    \* "init", "bootstrap", "root_invoke", then "user"
    halted,   \* "no", or the panic that stopped the machine
    image,    \* the boot module
    created,  \* the ECs that were scheduled
    current,  \* Ec::current
    sp0,      \* the EC whose regs the TSS points behind
    cont,     \* what make_current() jumps to, for each EC
    regs,     \* eip and esp in the regs of each EC
    cpu,      \* eip and esp while user code runs
    begin,    \* the page UserMemPool::heap hands out next
    left,     \* history: eip and esp of each EC when it last left user mode,
              \* or was created
    stack     \* history: the pages of each EC's stack, <<first, after last>>

contexts == <<current, sp0, cont, regs, cpu, left>>
vars == <<pool, mem, phase, halted, image, created, contexts, begin, stack>>

Store == [pool |-> pool, mem |-> mem]

\* The machine goes on with store s, unless the pool was exhausted.
Becomes(s) == /\ pool' = s.pool
              /\ mem' = s.mem
              /\ halted' = IF s.pool.oom THEN "out of memory" ELSE halted

NoRegs == [eip |-> 0, esp |-> 0]

-----------------------------------------------------------------------------

\* What start.S leaves to init().
Init ==
    /\ pool = EmptyPool
    /\ mem = BootMemory
    /\ phase = "init" /\ halted = "no"
    /\ image \in Images
    /\ created = {} /\ current = NULL /\ sp0 = NULL
    /\ cont = [e \in EC |-> NULL]
    /\ regs = [e \in EC |-> NoRegs]
    /\ cpu = NoRegs /\ left = regs
    /\ begin = mempool_f
    /\ stack = [e \in EC |-> <<0, 0>>]

\* init(): the I/O bitmap, the kernel stack, and where they are mapped.
init ==
    /\ phase = "init"
    /\ LET iobm  == NextFrame(pool)
           bitmap == [Store EXCEPT !.pool = AllocPage(@, 2)]
           kstck == [bitmap EXCEPT !.pool = AllocPage(@, 1)]
           s1 == InsertMapping(kstck, KSTCK, NextFrame(bitmap.pool), {"P", "W"})
           s2 == InsertMapping(s1, IOBMP, iobm, {"P", "W"})
       IN  Becomes(InsertMapping(s2, IOBMP + 1, iobm + 1, {"P", "W"}))
    /\ phase' = "bootstrap"
    /\ UNCHANGED <<image, created, contexts, begin, stack>>

\* Mutant: the loop of bootstrap() stops before LOAD_E.
LowUnmappedShort(m) ==
    Flush([m EXCEPT !.pdir = [d \in DOMAIN @ |->
              IF d < LOAD_DIRS - 1 THEN Zero ELSE @[d]]])

\* The loop of bootstrap(), and Cpu::flush().
LowUnmapped(m) ==
    Flush([m EXCEPT !.pdir = [d \in DOMAIN @ |->
              IF d < LOAD_DIRS THEN Zero ELSE @[d]]])

\* Mutant: the TSS goes on pointing to the EC that ran before.
KeepCurrent(e) == current' = e /\ sp0' = IF sp0 = NULL THEN e ELSE sp0

\* Ec::make_current() up to its jump
BecomeCurrent(e) == current' = e /\ sp0' = e

\* bootstrap(): the root PD, the root EC, and its first turn.
bootstrap ==
    /\ phase = "bootstrap" /\ halted = "no"
    /\ Becomes([pool |-> Alloc(Alloc(pool, PD_SIZE), EC_SIZE),
                mem  |-> LowUnmapped(mem)])
    /\ cont' = [cont EXCEPT ![RootEc] = "root_invoke"]
    /\ BecomeCurrent(RootEc)
    /\ phase' = "root_invoke"
    /\ UNCHANGED <<image, created, regs, cpu, left, begin, stack>>

-----------------------------------------------------------------------------

\* The addresses root_invoke() reads through remap(), in order.
Remaps == <<image.mbi, image.mods_addr, image.cmdline, image.mod_start,
            image.mod_start + image.ph_offset>>

\* The memory after the k-th of them, and whether root_invoke() stops there.
Remapped[k \in 0 .. 5] ==
    IF k = 0 THEN mem ELSE Remap(Remapped[k - 1], Remaps[k])

Refusal(k) == IF ~ Readable(Remapped[k]) THEN "Kernel PF"
              ELSE IF k = 1 /\ ~ image.one_module THEN "not one module"
              ELSE IF k = 4 /\ ~ image.elf THEN "No ELF"
              ELSE "no"

BadSegment(p) == \/ p.f_size # p.m_size
                 \/ p.v_addr % PAGE_SIZE # p.f_offs % PAGE_SIZE

\* Mutant: the size of a segment is rounded down.
SegmentPagesDown(p) == p.f_size \div PAGE_SIZE

\* align_up(p->f_size, PAGE_SIZE), in pages
SegmentPages(p) == (p.f_size + PAGE_SIZE - 1) \div PAGE_SIZE

\* The loop over the program headers, up to the first that is bad.
Loaded(s) ==
    LET bad  == {i \in DOMAIN image.segments : BadSegment(image.segments[i])}
        last == IF bad = {} THEN Len(image.segments) ELSE Min(bad) - 1
        after[i \in 0 .. last] ==
            IF i = 0 THEN s
            ELSE LET p == image.segments[i]
                 IN  MapRange(after[i - 1], FirstPage(p),
                              (p.f_offs + image.mod_start) \div PAGE_SIZE,
                              SegmentPages(p),
                              IF p.writable THEN {"P", "W", "U"} ELSE {"P", "U"})
    IN  after[last]

\* Ec::root_invoke()
root_invoke ==
    /\ phase = "root_invoke" /\ halted = "no"
    /\ LET refused == {k \in 1 .. 5 : Refusal(k) # "no"}
           loaded  == Loaded([Store EXCEPT !.mem = Remapped[5]])
           started == [regs[current] EXCEPT !.eip = image.entry]
       IN  \/ /\ refused # {}
              /\ halted' = Refusal(Min(refused))
              /\ mem' = Remapped[Min(refused)]
              /\ UNCHANGED <<pool, phase, created, contexts>>
           \/ /\ refused = {}
              /\ \E p \in Range(image.segments) : BadSegment(p)
              /\ pool' = loaded.pool /\ mem' = loaded.mem
              /\ halted' = IF pool'.oom THEN "out of memory" ELSE "Bad ELF"
              /\ UNCHANGED <<phase, created, contexts>>
           \/ /\ refused = {}
              /\ \A p \in Range(image.segments) : ~ BadSegment(p)
              /\ Becomes(loaded)
              /\ regs' = [regs EXCEPT ![current] = started]
              /\ created' = created \cup {current}
              /\ cont' = [cont EXCEPT ![current] = "ret_user_iret"]
              /\ cpu' = started
              /\ phase' = "user"
              /\ UNCHANGED <<current, sp0, left>>
    /\ UNCHANGED <<image, begin, stack>>

-----------------------------------------------------------------------------

UserRuns == phase = "user" /\ halted = "no"

\* entry_sysenter, or the processor and SAVE_STATE: what user code was doing is
\* saved where sp0 points.
Context(eip) == [eip |-> eip, esp |-> cpu.esp]
Saved(eip)   == [regs EXCEPT ![sp0] = Context(eip)]
Leaves(eip)  == left' = [left EXCEPT ![current] = Context(eip)]

\* ret_user_sysexit() and ret_user_iret(), e being current
Resumed(e) == cpu' = regs'[e]

\* __start: the main stack is mapped above its sentinel, then used.
start_main ==
    /\ UserRuns /\ current = RootEc /\ stack[RootEc] = <<0, 0>>
    /\ \E eip \in Points : regs' = Saved(eip) /\ Leaves(eip)
    /\ LET top == user_stack_bottom + 1 + MAIN_STACK_PAGES
       IN  /\ Becomes(Mmap(Store, MAIN_STACK_PAGES, user_stack_bottom + 1))
           /\ cpu' = [regs'[current] EXCEPT !.esp = top]
           /\ stack' = [stack EXCEPT ![RootEc] = <<user_stack_bottom + 1, top>>]
    /\ UNCHANGED <<phase, image, created, current, sp0, cont, begin>>

Started == UserRuns /\ stack[current] # <<0, 0>>

\* Mutant: stacks are laid out without their sentinels.
AdjoiningStack(b) == <<b, b + USER_STACK_PAGES>>

\* The pages that alloc_stack() maps when begin is b, <<first, after last>>: a
\* sentinel is left below them. The heap goes on after the last.
StackAt(b) == <<b + 1, b + 1 + USER_STACK_PAGES>>

\* create_ec() of user/include/ec.h: alloc_stack(), which gives up when the
\* heap is full, and SYS_CREATE_EC, whose EC is lost if the slot is refused.
create_ec(e) ==
    /\ Started /\ e \notin created
    /\ StackAt(begin)[2] <= mempool_e
    /\ begin' = StackAt(begin)[2]
    /\ LET s == Mmap(Store, USER_STACK_PAGES, StackAt(begin)[1])
       IN  Becomes([s EXCEPT !.pool = Alloc(@, EC_SIZE)])
    /\ \E eip, func \in Points :
          \/ /\ regs' = [Saved(eip) EXCEPT
                            ![e] = [eip |-> func, esp |-> StackAt(begin)[2]]]
             /\ left' = [left EXCEPT ![current] = Context(eip), ![e] = regs'[e]]
             /\ cont' = [cont EXCEPT ![e] = "ret_user_iret"]
             /\ created' = created \cup {e}
             /\ stack' = [stack EXCEPT ![e] = StackAt(begin)]
          \/ /\ regs' = Saved(eip) /\ Leaves(eip)
             /\ UNCHANGED <<cont, created, stack>>
    /\ Resumed(current)
    /\ UNCHANGED <<phase, image, current, sp0>>

\* SyscallCreatePD::handle: whether the parent has room is decided afterwards.
create_pd ==
    /\ Started
    /\ Becomes([Store EXCEPT !.pool = Alloc(@, PD_SIZE)])
    /\ \E eip \in Points : regs' = Saved(eip) /\ Leaves(eip)
    /\ Resumed(current)
    /\ UNCHANGED <<phase, image, created, current, sp0, cont, begin, stack>>

\* A system call after which another EC runs, or the same one through its cont.
switch(next) ==
    /\ Started /\ next \in created
    /\ \E eip \in Points : regs' = Saved(eip) /\ Leaves(eip)
    /\ BecomeCurrent(next)
    /\ IF cont[next] = "root_invoke"
       THEN phase' = "root_invoke" /\ UNCHANGED cpu
       ELSE Resumed(next) /\ UNCHANGED phase
    /\ UNCHANGED <<pool, mem, halted, image, created, cont, begin, stack>>

\* handle_exc() for a page fault at a page: it never returns. The guards are
\* told by the kernel's own constants, whatever the layout of the program.
HandlePageFault(page) ==
    IF \/ page = USER_MAIN_STACK_START
       \/ /\ page >= USER_HEAP_START /\ page < USER_HEAP_END
          /\ (page - USER_HEAP_START) % KERN_STACK_SIZE = 0
    THEN "User Stack Overflow"
    ELSE "User PF"

\* User code goes one page deeper into its stack.
push ==
    /\ Started
    /\ LET page == cpu.esp - 1
       IN  IF {"P", "W", "U"} \subseteq Walk(mem, page).attr
           THEN cpu' = [cpu EXCEPT !.esp = page] /\ UNCHANGED <<halted, regs, left>>
           ELSE /\ halted' = HandlePageFault(page)
                /\ regs' = Saved(cpu.eip) /\ Leaves(cpu.eip)
                /\ UNCHANGED cpu
    /\ UNCHANGED <<pool, mem, phase, image, created, current, sp0, cont, begin,
                   stack>>

\* main_func() returns to the ud2 of __start.
exit_main ==
    /\ Started /\ current = RootEc
    /\ halted' = "User EXC"
    /\ regs' = Saved(cpu.eip) /\ Leaves(cpu.eip)
    /\ UNCHANGED <<pool, mem, phase, image, created, current, sp0, cont, cpu,
                   begin, stack>>

Next == \/ init \/ bootstrap \/ root_invoke
        \/ start_main \/ create_pd \/ push \/ exit_main
        \/ \E e \in EC : create_ec(e) \/ switch(e)

Spec == Init /\ [][Next]_vars

-----------------------------------------------------------------------------

TypeOK ==
    /\ pool.begin \in POOL_F .. POOL_E /\ pool.end \in POOL_F .. POOL_E
    /\ pool.begin <= pool.end
    /\ DOMAIN mem.pdir = 0 .. DIRS - 1 /\ DOMAIN mem.ptab = Frames
    /\ phase \in {"init", "bootstrap", "root_invoke", "user"}
    /\ halted \in {"no", "out of memory", "Kernel PF", "not one module", "No ELF",
                   "Bad ELF", "User PF", "User Stack Overflow", "User EXC"}
    /\ image \in Images
    /\ created \subseteq EC /\ {current, sp0} \subseteq EC \cup {NULL}
    /\ begin \in mempool_f .. mempool_e

\* Whatever the processor may have cached for a page leads to the frame the
\* tables name, with no right they do not give: every change that takes
\* something away is followed by a flush, the low identity mapping is not
\* global, and insert_mapping(), which flushes nothing, only adds (ptab.cc:20).
TlbCoherent ==
    \A t \in mem.tlb : LET now == Walk(mem, t[1])
                       IN  t[2].frame = now.frame /\ t[2].attr \subseteq now.attr

UserMapped == {page \in Pages : "U" \in Walk(mem, page).attr}

\* No two user pages share a frame of the pool, and none shows user code a page
\* table, a kernel object or the kernel's image (syscall.cc:17, ptab.cc:15).
NoAliasing ==
    LET tables == {mem.pdir[d].frame : d \in
                      {x \in DOMAIN mem.pdir : /\ "P" \in mem.pdir[x].attr
                                               /\ "S" \notin mem.pdir[x].attr}}
        frame(page) == Walk(mem, page).frame
    IN  \A page \in UserMapped :
           /\ frame(page) >= POOL_F \div PAGE_SIZE
           /\ frame(page) \notin tables
           /\ frame(page) * PAGE_SIZE < POOL_E =>
                 /\ (frame(page) + 1) * PAGE_SIZE <= pool.begin
                 /\ \A other \in UserMapped \ {page} : frame(other) # frame(page)

\* User rights end below LINK_ADDR; from bootstrap() on nothing else is mapped
\* there, and what the kernel runs on stays where it was (init.cc:86).
UserKernelSplit ==
    LET split == LINK_DIR * PTES
    IN  /\ \A page \in UserMapped : page < split
        /\ phase \in {"root_invoke", "user"} =>
              /\ \A page \in 0 .. split - 1 :
                    Walk(mem, page) # Zero => page \in UserMapped
              /\ halted # "out of memory" =>
                    \A page \in {KSTCK, IOBMP, IOBMP + 1} : Walk(mem, page) # Zero
        /\ \A page \in split .. split + LINK_DIRS * PTES - 1 :
              Walk(mem, page).frame = LINK_P + page - split

\* An EC that is not running, or is running, is within its own stack: a stack
\* that overflows stops the machine before it reaches another (mempool.cc:17).
StacksGuarded ==
    \A e \in created : stack[e] # <<0, 0>> =>
        LET esp == IF e = current THEN cpu.esp ELSE regs[e].esp
        IN  stack[e][1] <= esp /\ esp <= stack[e][2]

\* When user code runs, every byte of every segment of the module is where its
\* header says, with the rights it asks for, and stays there. root_invoke()
\* rounds the size up but not the end: the last page of the text is there only
\* because the data begins on it (ec.cc:123).
SegmentsMapped ==
    phase = "user" /\ halted # "out of memory" =>
        \A p \in Range(image.segments) :
            \A v \in p.v_addr .. p.v_addr + p.f_size - 1 :
                LET w == Walk(mem, v \div PAGE_SIZE)
                IN  /\ {"P", "U"} \subseteq w.attr
                    /\ p.writable => "W" \in w.attr
                    /\ w.frame * PAGE_SIZE + (v % PAGE_SIZE)
                           = image.mod_start + p.f_offs + (v - p.v_addr)

\* Whoever comes to run goes on exactly where it left user mode, however many
\* others ran in between and wherever the TSS pointed (ec.h:69, entry.S:156).
ResumesWhereItLeft ==
    [][current' # current /\ phase = "user" =>
          phase' = "user" /\ cpu' = left'[current']]_vars
================================================================================
