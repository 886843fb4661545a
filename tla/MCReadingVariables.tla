------------------------- MODULE MCReadingVariables -------------------------
(* Small instances of ReadingVariables and Decoding for TLC. *)
EXTENDS ReadingVariables

CONSTANTS v1, v2

\* A variable that reads from the end of the message.
SomeVariables == {[fn |-> Ordered("float", {"ABCD"}), start |-> -3, seq |-> 2]}

\* Bytes that are a float in each of the four orders (25.0 or its turned bytes), with a
\* digit that is left over, and with eleven values, the last of which is decoded third.
SomePayloads == {[kind |-> "HEX", items |-> <<4, 1, 12, 8, 0, 0, 0, 0, 15, 15, 9>>],
                 [kind |-> "JSON", items |-> <<0, 0, 65, 4, 5, 6, 7, 8, 9, 10, 200>>]}
=============================================================================
