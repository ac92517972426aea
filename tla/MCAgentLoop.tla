---------------------------- MODULE MCAgentLoop ----------------------------
(* Both queues drained one batch at a time, or both as a whole.            *)
EXTENDS AgentLoop

EqualModes == {[q \in Queues |-> m] : m \in Modes}
=============================================================================
