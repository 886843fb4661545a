----------------------------- MODULE MCTelemetry -----------------------------
(* Small instances of Telemetry for TLC. *)
EXTENDS Telemetry, TLC

CONSTANTS level, pump, worker, closer, tick1, tick2, first, second

TwoVariables == {level, pump}
TwoPackets == {first, second}
BothThenOne == first :> {level, pump} @@ second :> {level}
BothTwice == [p \in TwoPackets |-> {level, pump}]
AllFaults == Await

=============================================================================
