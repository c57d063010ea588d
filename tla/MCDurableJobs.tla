---------------------------- MODULE MCDurableJobs ----------------------------
(* Instances of DurableJobs for TLC: the constants are given by each cfg.  *)
EXTENDS DurableJobs
=============================================================================
