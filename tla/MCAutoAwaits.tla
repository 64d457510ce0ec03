---------------------------- MODULE MCAutoAwaits ----------------------------
(* AutoAwaits on a small instance. *)
EXTENDS AutoAwaits
=============================================================================
