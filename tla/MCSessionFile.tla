---------------------------- MODULE MCSessionFile ----------------------------
(* SessionFile on a small instance. *)
EXTENDS SessionFile
=============================================================================
