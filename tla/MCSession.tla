------------------------------ MODULE MCSession ------------------------------
(***************************************************************************)
(* Instances of SessionGdb for TLC: the session of sample_run (memory, a   *)
(* register, run), and one that steps through the program.                 *)
(***************************************************************************)
EXTENDS SessionGdb

SampleRun == <<"X", "P", "c">>
PasAPas   == <<"X", "s", "s", "c">>
=============================================================================
