---------------------------- MODULE MCMemoryJobs ----------------------------
(* MemoryJobs on small instances; the constants are given in the cfgs. *)
EXTENDS MemoryJobs, TLC
CONSTANTS t1, t2, c1, c2
MCHome  == t1 :> c1 @@ t2 :> c1
MCPlace == t1 :> 1 @@ t2 :> 2
=============================================================================
