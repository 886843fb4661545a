---------------------------- MODULE MCAlarmSystem ----------------------------
(* Small instances of AlarmSystem for TLC. *)
EXTENDS AlarmSystem, TLC

CONSTANTS a1, v1

\* One threshold alarm condition, and the values on both
\* sides of it; one that is not a number leaves an alarm as it is.
AboveOne == {[conditionType |-> "GT", thresholdValue |-> 1]}
LowHigh == {0, 2}
LowHighNaN == {0, 2, NaN}

\* One alarm on one variable.
OneAlarm == [a \in {a1} |-> v1]

\* Slots are interchangeable, and so are the requests in flight.
SlotSymmetry == Permutations(Slots) \cup Permutations(Requests)
=============================================================================
