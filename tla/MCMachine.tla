------------------------------ MODULE MCMachine ------------------------------
(***************************************************************************)
(* Machine with pages of four bytes and page tables of four entries. The   *)
(* directory: 0-2 user, 3-6 the kernel at LINK_ADDR, 7 its stack, 8 the    *)
(* I/O bitmap, 9 REMAP. The modules are what linker.ld makes of programs   *)
(* with texts of several sizes, and malformed ones.                        *)
(***************************************************************************)
EXTENDS Machine

\* A header byte on page 0 of the file, the text from byte 1 of page 1 on, and
\* the data after it up to the heap.
Linked(text) ==
    [mbi |-> 1, mods_addr |-> 2, cmdline |-> 3, mod_start |-> 80, ph_offset |-> 1,
     one_module |-> TRUE, elf |-> TRUE, entry |-> 5,
     segments |-> <<[v_addr |-> 5, f_offs |-> 1, f_size |-> text,
                     m_size |-> text, writable |-> FALSE],
                    [v_addr |-> 5 + text, f_offs |-> 1 + text, f_size |-> 7 - text,
                     m_size |-> 7 - text, writable |-> TRUE]>>]

MCImages == {Linked(2), Linked(3), Linked(4)} \cup
    {[Linked(3) EXCEPT !.one_module = FALSE], [Linked(3) EXCEPT !.elf = FALSE],
     [Linked(3) EXCEPT !.segments[2].m_size = 5],
     [Linked(3) EXCEPT !.mod_start = 84]}
==============================================================================
