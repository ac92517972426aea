--------------------------- MODULE MCSupervision ---------------------------
(* Supervisors of one socket that replace each other, and one worker.      *)
EXTENDS Supervision
=============================================================================
