-------------------------------- MODULE Console --------------------------------
(***************************************************************************)
(* Output: printf() and panic() of kern/src/stdio.cc with the ticket lock  *)
(* of spinlock.h, the formatting of kern/src/console.cc, and the serial    *)
(* line of console_serial.cc with the UART behind it. There is one         *)
(* processor; what can come in the way of a print is a page fault on the   *)
(* string it is given, whose handler panics and never returns.             *)
(*                                                                         *)
(* Words have BITS bits, and a long long two words. Characters are strings *)
(* of length one. A message to print is a sequence of items: literal       *)
(* characters and directives with their arguments. The code is given the   *)
(* format string and the arguments of a message; what should come out is   *)
(* told by its items.                                                      *)
(***************************************************************************)
EXTENDS Integers, SequencesExt

CONSTANTS
    NULL, Unmapped, \* pointers: none, and one to a page that is not mapped
    BITS,
    TICKETS,        \* values of each byte of the lock
    Strings,        \* what each other pointer points to
    Messages,       \* messages for printf() and SYS_PRINT
    PanicMessage    \* the message of the page fault handler

ASSUME ConsoleAssumption == /\ BITS \in Nat \ {0} /\ TICKETS \in Nat \ {0, 1}
                            /\ {NULL, Unmapped} \cap DOMAIN Strings = {}

VARIABLES
    serial_base, \* the port start.S found in the BIOS data area, or 0
    val,         \* Spinlock::val, by its bytes
    job,         \* the print under way, or NULL
    thr,         \* the UART's transmit holding register, NULL when empty
    halted,      \* Cpu::shutdown()
    due          \* history: what was asked to be printed and is not sent yet

vars == <<serial_base, val, job, thr, halted, due>>

WORD == 2 ^ BITS
DOUBLE == WORD * WORD
DigitChars == <<"0", "1", "2", "3", "4", "5", "6", "7", "8", "9",
                "a", "b", "c", "d", "e", "f">>
Spaces(n) == [i \in 1 .. n |-> " "]
Zeros(n)  == [i \in 1 .. n |-> "0"]

-----------------------------------------------------------------------------
(* Formatting *)

\* Console::print_number(): the digits are found from the last to the first,
\* and the sign counts as a digit when the number is padded.
print_number(u, base, signed, width, zero, alt) ==
    LET neg == signed /\ u >= DOUBLE \div 2
        digits[v \in 0 .. DOUBLE - 1] ==
            Append(IF v < base THEN << >> ELSE digits[v \div base],
                   DigitChars[(v % base) + 1])
        text == (IF neg THEN <<"-">> ELSE << >>)
                    \o digits[IF neg THEN DOUBLE - u ELSE u]
        prefix  == IF alt THEN <<"0", "x">> ELSE << >>
        missing == width - Len(prefix) - Len(text)
    IN  IF zero THEN prefix \o Zeros(missing) \o text
        ELSE Spaces(missing) \o prefix \o text

\* Console::print_str(): a precision of 0 is none.
print_str(s, width, precs) ==
    LET shown == IF precs = 0 THEN Len(s) ELSE Min({precs, Len(s)})
    IN  SubSeq(s, 1, shown) \o Spaces(width - shown)

\* What vprintf() knows of the directive it is in.
NoSpec == [mode |-> "flags", zero |-> FALSE, alt |-> FALSE, width |-> 0,
           precs |-> 0, len |-> 0]

\* Mutant: a 0 is a flag wherever it stands.
WithDigitFlag(spec, d) ==
    IF d = 0 THEN [spec EXCEPT !.zero = TRUE]
    ELSE IF spec.mode = "precs" THEN [spec EXCEPT !.precs = @ * 10 + d]
    ELSE [spec EXCEPT !.mode = "width", !.width = @ * 10 + d]

\* The digits of a directive: a 0 before the width is a flag.
WithDigit(spec, d) ==
    IF spec.mode = "flags" /\ d = 0 THEN [spec EXCEPT !.zero = TRUE]
    ELSE IF spec.mode = "precs" THEN [spec EXCEPT !.precs = @ * 10 + d]
    ELSE [spec EXCEPT !.mode = "width", !.width = @ * 10 + d]

\* The character c within a directive, when it does not end it.
Modified(spec, c) ==
    IF c = "." THEN [spec EXCEPT !.mode = "precs"]
    ELSE IF c = "#" THEN [spec EXCEPT !.alt = @ \/ spec.mode = "flags"]
    ELSE IF c = "l" THEN [spec EXCEPT !.len = @ + 1]
    ELSE WithDigit(spec, (CHOOSE i \in 1 .. 10 : DigitChars[i] = c) - 1)

Modifiers == {".", "#", "l"} \cup {DigitChars[i] : i \in 1 .. 10}

\* The integer a %d, %u or %x takes from the arguments, as an uint64.
Taken(spec, c, args) ==
    IF spec.len >= 2 THEN args[1] + args[2] * WORD
    ELSE IF c = "d" /\ args[1] >= WORD \div 2 THEN args[1] + (DOUBLE - WORD)
    ELSE args[1]

\* What a directive that ends in c prints, and how many arguments it takes.
Printed(spec, c, args) ==
    IF c = "c" THEN <<args[1]>>
    ELSE IF c = "s"
    THEN IF args[1] = NULL THEN << >>
         ELSE print_str(Strings[args[1]], spec.width, spec.precs)
    ELSE IF c = "p" THEN print_number(args[1], 16, FALSE, spec.width, FALSE, TRUE)
    ELSE IF c \in {"d", "u", "x"}
    THEN print_number(Taken(spec, c, args), IF c = "x" THEN 16 ELSE 10, c = "d",
                      spec.width, spec.zero, spec.alt)
    ELSE <<c>>

Arity(spec, c) == IF c \in {"c", "s", "p"} THEN 1
                  ELSE IF c \notin {"d", "u", "x"} THEN 0
                  ELSE IF spec.len >= 2 THEN 2 ELSE 1
-----------------------------------------------------------------------------
(* Messages: items are [kind |-> "lit", char], [kind |-> "int", conv, arg,   *)
(* zero, alt, width, len], [kind |-> "str", arg, width, precs], and at the   *)
(* end [kind |-> "end", char |-> "%"], a directive that was not completed.   *)

\* The numeral of n, by the places of its digits.
Numeral(n, base) ==
    LET k == CHOOSE i \in 1 .. 2 * BITS :
                 n < base ^ i /\ (i > 1 => base ^ (i - 1) <= n)
    IN  [i \in 1 .. k |-> DigitChars[((n \div base ^ (k - i)) % base) + 1]]

\* What the programmer writes for an item.
Optional(cond, s) == IF cond THEN s ELSE << >>
Written(item) ==
    IF item.kind = "end" THEN <<item.char>>
    ELSE IF item.kind = "lit"
    THEN Optional(item.char = "%", <<"%">>) \o <<item.char>>
    ELSE IF item.kind = "str"
    THEN <<"%">> \o Optional(item.width > 0, Numeral(item.width, 10))
             \o Optional(item.precs > 0, <<".">> \o Numeral(item.precs, 10))
             \o <<"s">>
    ELSE <<"%">> \o Optional(item.zero, <<"0">>) \o Optional(item.alt, <<"#">>)
             \o Optional(item.width > 0, Numeral(item.width, 10))
             \o [i \in 1 .. item.len |-> "l"] \o <<item.conv>>

\* The words it passes for it; a long long is two of them.
Passed(item) ==
    IF item.kind \in {"lit", "end"} THEN << >>
    ELSE IF item.kind = "str" THEN <<item.arg>>
    ELSE <<item.arg % WORD>> \o
             Optional(item.len = 2, <<(item.arg % DOUBLE) \div WORD>>)

\* What should come out: numbers to the right of their field, strings to the
\* left, cut at their precision.
Meaning(item) ==
    IF item.kind \in {"lit", "end"} THEN <<item.char>>
    ELSE IF item.kind = "str"
    THEN IF item.arg = NULL THEN << >>
         ELSE LET s == Strings[item.arg]
                  n == IF item.precs = 0 THEN Len(s) ELSE Min({Len(s), item.precs})
              IN  [i \in 1 .. Max({n, item.width}) |-> IF i <= n THEN s[i] ELSE " "]
    ELSE LET prefix == Optional(item.alt \/ item.conv = "p", <<"0", "x">>)
             sign   == Optional(item.arg < 0, <<"-">>)
             number == Numeral(IF item.arg < 0 THEN - item.arg ELSE item.arg,
                               IF item.conv \in {"x", "p"} THEN 16 ELSE 10)
             fill   == item.width - Len(prefix \o sign \o number)
         IN  IF item.zero THEN sign \o prefix \o Zeros(fill) \o number
             ELSE Spaces(fill) \o prefix \o sign \o number

Each(F(_), m) == FlattenSeq([i \in 1 .. Len(m) |-> F(m[i])])

\* A new line is a carriage return and a line feed on the line (putc()).
OnTheLine(c) == IF c = "\n" THEN <<"\r", "\n">> ELSE <<c>>

\* The text of a message, up to the string that faults and then the panic's.
Text(m) ==
    LET faults == {i \in DOMAIN m : m[i].kind = "str" /\ m[i].arg = Unmapped}
    IN  Each(OnTheLine,
             IF faults = {} THEN Each(Meaning, m)
             ELSE Each(Meaning, SubSeq(m, 1, Min(faults) - 1))
                      \o Each(Meaning, PanicMessage))

-----------------------------------------------------------------------------

\* What Console_serial::init() found out.
initialized == serial_base # 0

Init == /\ serial_base \in {0, 1}
        /\ val = [lo |-> 0, hi |-> 0]
        /\ job = NULL /\ thr = NULL /\ halted = FALSE
        /\ due = << >>

\* A call of vprintf(): at is the place in the format, 0 before the lock is
\* taken; spec the directive under way; out the characters for putc(), and cr
\* whether the carriage return of the first was sent.
Job(caller, m) == [caller |-> caller, fmt |-> Each(Written, m),
                   args |-> Each(Passed, m), at |-> 1, ticket |-> 0,
                   spec |-> NULL, out |-> << >>, cr |-> FALSE]

Idle == job = NULL /\ ~ halted
Asked(m) == due' = due \o Optional(initialized, Text(m))

\* printf(): Lock_guard, whose xadd draws a ticket.
printf(m) ==
    /\ Idle /\ Asked(m)
    /\ val' = [val EXCEPT !.hi = (@ + 1) % TICKETS]
    /\ job' = [Job("printf", m) EXCEPT !.at = 0, !.ticket = val.hi]
    /\ UNCHANGED <<serial_base, thr, halted>>

\* The loop of Spinlock::lock()
Lock ==
    /\ job # NULL /\ job.at = 0 /\ val.lo = job.ticket
    /\ job' = [job EXCEPT !.at = 1]
    /\ UNCHANGED <<serial_base, val, thr, halted, due>>

\* SyscallPrint::handle takes no lock.
sys_print(m) ==
    /\ Idle /\ Asked(m)
    /\ job' = Job("SYS_PRINT", m)
    /\ UNCHANGED <<serial_base, val, thr, halted>>

\* Mutant: panic() prints under the lock.
PanicUnderLock ==
    /\ job' = [Job("panic", PanicMessage) EXCEPT !.at = 0, !.ticket = val.hi]
    /\ val' = [val EXCEPT !.hi = (@ + 1) % TICKETS]

\* panic(): what was under way is abandoned, the lock left as it is.
Panic == job' = Job("panic", PanicMessage) /\ UNCHANGED val

panic == /\ Idle /\ Asked(PanicMessage) /\ Panic
         /\ UNCHANGED <<serial_base, thr, halted>>

\* The loops of vprintf() before the next character of the format is read.
Reading == job # NULL /\ job.at > 0 /\ job.out = << >> /\ initialized
Char == job.fmt[job.at]

ReadLiteral ==
    /\ Reading /\ job.spec = NULL /\ job.at <= Len(job.fmt)
    /\ job' = IF Char = "%" THEN [job EXCEPT !.at = @ + 1, !.spec = NoSpec]
              ELSE [job EXCEPT !.at = @ + 1, !.out = <<Char>>]
    /\ UNCHANGED <<serial_base, val, thr, halted, due>>

ReadDirective ==
    /\ Reading /\ job.spec # NULL
    /\ IF job.at > Len(job.fmt)  \* case 0: the last character, whatever it was
       THEN job' = [job EXCEPT !.spec = NULL, !.out = <<job.fmt[job.at - 1]>>]
       ELSE IF Char \in Modifiers
       THEN job' = [job EXCEPT !.at = @ + 1, !.spec = Modified(@, Char)]
       ELSE /\ ~ (Char = "s" /\ job.args[1] = Unmapped)
            /\ job' = [job EXCEPT !.at = @ + 1, !.spec = NULL,
                          !.out = Printed(job.spec, Char, job.args),
                          !.args = SubSeq(@, Arity(job.spec, Char) + 1, Len(@))]
    /\ UNCHANGED <<serial_base, val, thr, halted, due>>

\* The string is read; the page fault becomes a panic.
Fault ==
    /\ Reading /\ job.spec # NULL /\ job.at <= Len(job.fmt)
    /\ Char = "s" /\ job.args[1] = Unmapped
    /\ Panic
    /\ UNCHANGED <<serial_base, thr, halted, due>>

\* Console_serial::putc(), once the UART is ready: a new line goes out after a
\* carriage return.
Putc ==
    /\ job # NULL /\ job.out # << >> /\ thr = NULL
    /\ IF Head(job.out) = "\n" /\ ~ job.cr
       THEN thr' = "\r" /\ job' = [job EXCEPT !.cr = TRUE]
       ELSE thr' = Head(job.out)
            /\ job' = [job EXCEPT !.out = Tail(@), !.cr = FALSE]
    /\ UNCHANGED <<serial_base, val, halted, due>>

\* Mutant: the ticket served is counted in the whole word.
UnlockWord(v) ==
    [lo |-> (v.lo + 1) % TICKETS,
     hi |-> IF v.lo + 1 = TICKETS THEN (v.hi + 1) % TICKETS ELSE v.hi]

\* Spinlock::unlock(): incb changes the lower byte only.
Unlock(v) == [v EXCEPT !.lo = (@ + 1) % TICKETS]

\* vprintf() returns to its caller; panic() shuts the processor down.
Return ==
    /\ job # NULL /\ job.at > 0 /\ job.out = << >> /\ job.spec = NULL
    /\ initialized => job.at > Len(job.fmt)
    /\ job' = NULL
    /\ val' = IF job.caller = "printf" THEN Unlock(val) ELSE val
    /\ halted' = (job.caller = "panic")
    /\ UNCHANGED <<serial_base, thr, due>>

\* The UART sends what it holds; the line shows the next character due.
UartSends ==
    /\ thr # NULL
    /\ thr' = NULL
    /\ due' = SubSeq(due, 2, Len(due))
    /\ UNCHANGED <<serial_base, val, job, halted>>

Prints == Lock \/ ReadLiteral \/ ReadDirective \/ Fault \/ Putc \/ Return
Next == \/ \E m \in Messages : printf(m) \/ sys_print(m)
        \/ panic \/ Prints \/ UartSends

\* The processor goes on while it prints, and the UART sends what it is given.
Spec == Init /\ [][Next]_vars /\ WF_vars(Prints) /\ WF_vars(UartSends)

-----------------------------------------------------------------------------

\* The line carries what was asked for, character by character: the directives
\* of console.cc:89 mean what their items say, for any width, sign and size,
\* nothing overtakes or overwrites anything (console_serial.cc:46), and a fault
\* cuts a message short at the string that cannot be read.
WrittenAsAsked ==
    [][/\ thr # NULL /\ thr' = NULL => due # << >> /\ thr = Head(due)
       /\ job' = NULL /\ thr' = NULL => due' = << >>]_vars

\* Whoever prints comes back, or the machine was stopped, however often the
\* lock was taken before: its bytes wrap around on their own (spinlock.h:49).
EveryCallEnds == job # NULL ~> (job = NULL \/ halted)

\* A panic gets its last words out, also from within a printf() that holds the
\* lock (stdio.cc:31).
PanicHeard == (job # NULL /\ job.caller = "panic") ~> (halted /\ due = << >>)
================================================================================
