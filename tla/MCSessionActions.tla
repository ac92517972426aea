--------------------------- MODULE MCSessionActions ---------------------------
(* Two follow-ups of one session, sent together when they wait together.   *)
EXTENDS SessionActions

CONSTANTS p1, p2

FollowUps == [x \in Actions |-> "followUp"]
FollowUpsTogether == [p \in Policies |-> IF p = "steer" THEN "one" ELSE "all"]
=============================================================================
