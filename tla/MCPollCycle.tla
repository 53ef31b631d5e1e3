---------------------------- MODULE MCPollCycle ----------------------------
(* PollCycle for TLC. *)
EXTENDS PollCycle, TLC

CONSTANTS c1, c2
TwoHistorians == {c1, c2}
Swap == Permutations(TwoHistorians)
=============================================================================
