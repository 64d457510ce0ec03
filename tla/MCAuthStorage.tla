---------------------------- MODULE MCAuthStorage ----------------------------
(* AuthStorage on a small instance. *)
EXTENDS AuthStorage, TLC

CONSTANTS cli, tool, anthropic, github

Symmetric == Permutations({cli, tool}) \union Permutations({anthropic, github})
=============================================================================
