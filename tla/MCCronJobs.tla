----------------------------- MODULE MCCronJobs -----------------------------
(* One-time and recurring jobs in a worker with two sessions.              *)
EXTENDS CronJobs

CONSTANTS o, h

MCKind == [j \in Jobs |-> IF j = o THEN "once" ELSE "heartbeat"]
=============================================================================
