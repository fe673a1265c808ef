------------------------------- MODULE MCConsole -------------------------------
(***************************************************************************)
(* Console with words of 8 bits, a lock that wraps after three tickets and *)
(* messages with every conversion and every kind of field.                 *)
(***************************************************************************)
EXTENDS Console

CONSTANT name \* a pointer to a string

MCStrings == name :> <<"n", "o", "v", "a">>

Lit(c) == [kind |-> "lit", char |-> c]
Str(s, width, precs) ==
    [kind |-> "str", arg |-> s, width |-> width, precs |-> precs]
Num(conv, n, zero, alt, width, len) ==
    [kind |-> "int", conv |-> conv, arg |-> n, zero |-> zero, alt |-> alt,
     width |-> width, len |-> len]

MCMessages ==
    {<<Num("d", n, FALSE, FALSE, 0, 0), Lit("\n")>> : n \in {0, 9, 10, 127, -1, -128}}
    \cup {<<Num("d", n, FALSE, FALSE, 7, 2), Lit("%")>> : n \in {-32768, -1, 32767}}
    \cup {<<Num("u", n, TRUE, FALSE, w, l)>> : n \in {0, 255}, w \in {2, 10}, l \in {0, 1}}
    \cup {<<Num("x", 171, z, a, w, 0), Num("x", 3, FALSE, FALSE, 0, 0)>> :
              z \in BOOLEAN, a \in BOOLEAN, w \in {0, 3, 6}}
    \cup {<<Str(name, w, p), Num("p", 16, FALSE, FALSE, w, 0)>> :
              w \in {0, 10}, p \in {0, 3}}
    \cup {<<Str(NULL, 0, 0), Lit("%"), [kind |-> "end", char |-> "%"]>>,
          <<Lit("a"), Num("d", 5, FALSE, FALSE, 0, 0), Str(Unmapped, 0, 0), Lit("b")>>}

MCPanicMessage == <<Lit("P"), Num("x", 20, FALSE, TRUE, 0, 1), Lit("\n")>>
================================================================================
