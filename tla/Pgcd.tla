-------------------------------- MODULE Pgcd --------------------------------
(***************************************************************************)
(* The loop of PGCD (Etap11.c), which produ_executable calls with p_vaddr  *)
(* and p_offset to find p_align.  One step is one turn of the while.       *)
(***************************************************************************)
EXTENDS Executable

CONSTANT Valeurs   \* the arguments considered, unsigned

ASSUME ValeursAssumption == Valeurs \subseteq Nat

VARIABLES a, b,     \* the locals of the loop
          a0, b0    \* the arguments

vars == <<a, b, a0, b0>>

Init == a0 \in Valeurs /\ b0 \in Valeurs /\ a = a0 /\ b = b0

(***************************************************************************)
(* The second "if" sees the a the first one left.  (The "Fautif" forms are *)
(* plausible mistakes, used nowhere: a = b for a -= b, no second "if".)    *)
(***************************************************************************)
ApresAFautif == IF a > b THEN b ELSE a

ApresA == IF a > b THEN a - b ELSE a

ApresBFautif == b

ApresB == IF ApresA < b THEN b - ApresA ELSE b

Tour == /\ a # b
        /\ a' = ApresA /\ b' = ApresB
        /\ UNCHANGED <<a0, b0>>

Next == Tour

Spec == Init /\ [][Next]_vars

FairSpec == Spec /\ WF_vars(Next)
-----------------------------------------------------------------------------
Divise(d, n) == \E k \in Nat : n = d * k

(***************************************************************************)
(* No turn gains or loses a common divisor of the arguments, and the       *)
(* unsigned differences never wrap around.                                 *)
(***************************************************************************)
Communs ==
  /\ a \in Nat /\ b \in Nat
  /\ \A d \in Nat : Divise(d, a) /\ Divise(d, b) <=> Divise(d, a0) /\ Divise(d, b0)

(***************************************************************************)
(* What the loop returns is the greatest common divisor, so p_vaddr and    *)
(* p_offset agree modulo p_align (the comment at Etap11.c:113).            *)
(***************************************************************************)
ResultatExact == a = b => a = PGCD(a0, b0)

(***************************************************************************)
(* The loop comes to an end exactly for the arguments PgcdTermine names.   *)
(***************************************************************************)
ArretExact ==
  /\ PgcdTermine(a0, b0) => <>(a = b)
  /\ ~PgcdTermine(a0, b0) => [](a # b)
=============================================================================
