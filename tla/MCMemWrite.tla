----------------------------- MODULE MCMemWrite -----------------------------
(***************************************************************************)
(* Blocks of up to MaxTaille bytes: an escaped one, the one its escape     *)
(* turns it into, and the escape itself.                                   *)
(***************************************************************************)
EXTENDS MemWrite

CONSTANT MaxTaille   \* bound

MCBlocs == UNION {[1 .. n -> {36, 4, 125}] : n \in 0 .. MaxTaille}
=============================================================================
