---------------------------- MODULE MCFlowLease ----------------------------
(* Two kernels; two callers in the first, one in the second.               *)
EXTENDS FlowLease

CONSTANTS k1, k2, c1, c2, c3

MCHome == [c \in Calls |-> IF c = c3 THEN k2 ELSE k1]
=============================================================================
