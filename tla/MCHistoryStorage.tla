-------------------------- MODULE MCHistoryStorage --------------------------
(* Small instances of HistoryStorage for TLC. *)
EXTENDS HistoryStorage, TLC

CONSTANTS e1, e2, e3, e4

\* Three scheduled samples, or two and a utility sample.
ThreeAndOne == [e \in {e1, e2, e3, e4} |-> IF e = e4 THEN "utility" ELSE "history"]
ThreeOfThem == {{e1, e2, e3}, {e1, e2, e4}}
=============================================================================
