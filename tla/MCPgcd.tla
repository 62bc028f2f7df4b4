------------------------------- MODULE MCPgcd -------------------------------
(***************************************************************************)
(* Pgcd on every pair of small arguments.                                  *)
(***************************************************************************)
EXTENDS Pgcd

MCValeurs == 0 .. 24
=============================================================================
