------------------------- MODULE MCWritingVariables -------------------------
(* Small instances of WritingVariables for TLC. *)
EXTENDS WritingVariables

CONSTANTS pump, valve

Request(kind, x, first, bits, given) ==
    [kind |-> kind, x |-> x, first |-> first, bits |-> bits, given |-> given]

\* Without a list; with lists that spell the value, that name none or a wrong
\* one; with a bit of two digits, and numbers that do not start at the byte's.
SomeCreates ==
    {Request("byte", 1, 0, NoBits, FALSE), Request("plain", 1, 0, NoBits, TRUE),
     Request("byte", 1, 0, [p \in 0 .. 1 |-> p], FALSE),
     Request("byte", 4, 0, [p \in 0 .. 1 |-> p], FALSE),
     Request("plain", 4, 0, [p \in 0 .. 1 |-> Default], FALSE),
     Request("byte", 1, 1, [p \in 0 .. 1 |-> IF p = 0 THEN 10 ELSE 0], TRUE)}

Symmetry == Permutations(Clients)
=============================================================================
