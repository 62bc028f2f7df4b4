----------------------------- MODULE Reimplants -----------------------------
(***************************************************************************)
(* The arithmetic of proc_reimplants (Etap8_9.c): the value a relocation   *)
(* entry adds, and how it is merged into the word of the section it        *)
(* patches.                                                                *)
(*                                                                         *)
(* A word is [haut, bas]: byte 3, and bytes 0..2 as one 24-bit number (the *)
(* immediate of a branch instruction).  Addresses are numbers below the    *)
(* size of the address space, 2^32 in the code.                            *)
(***************************************************************************)
EXTENDS Integers

CONSTANT Espace   \* size of the address space

Bas24 == 16777216   \* 2^24
Bas26 == 67108864   \* 2^26

ASSUME EspaceAssumption == Espace \in Nat \ {0} /\ Espace % Bas26 = 0

Adresse == 0 .. Espace - 1
Mot     == [haut : 0 .. 255, bas : 0 .. Bas24 - 1]

R_ARM_ABS == {2, 5, 8}      \* R_ARM_ABS32, R_ARM_ABS16, R_ARM_ABS8
R_ARM_JUMP == {28, 29}      \* R_ARM_CALL, R_ARM_JUMP24

(***************************************************************************)
(* A plausible mistake in Masque (a shift by one bit), used by no          *)
(* specification.                                                          *)
(***************************************************************************)
MasqueFautif(x) == (x % Bas26) \div 2

(***************************************************************************)
(* x & 0x03FFFFFE, then >> 2.                                              *)
(***************************************************************************)
Masque(x) == (x % Bas26) \div 4

(***************************************************************************)
(* new_addr for one entry: type is rel_type, func tells that the symbol is *)
(* an STT_FUNC, ancien is the value the variable holds from the entry      *)
(* before (0 at the start), which an unknown type leaves in place.         *)
(***************************************************************************)
NouvelleAdresse(type, func, S, P, ancien) ==
  IF type \in R_ARM_ABS
    THEN IF type = 2 /\ func THEN 1 ELSE S
  ELSE IF type \in R_ARM_JUMP
    THEN Masque((IF func THEN 1 ELSE S) - P)
  ELSE ancien

(***************************************************************************)
(* Bytes joined by |=.                                                     *)
(***************************************************************************)
OuOctet(a, b) ==
  LET bit(p) == IF (a \div p) % 2 = 1 \/ (b \div p) % 2 = 1 THEN p ELSE 0
  IN  bit(1) + bit(2) + bit(4) + bit(8) + bit(16) + bit(32) + bit(64) + bit(128)

(***************************************************************************)
(* The word once new_addr is merged: bytes 0..2 are the low 24 bits of the *)
(* sum (the carry out of bit 23 is lost), byte 3 is or-ed.                 *)
(***************************************************************************)
MotReimplante(mot, a) ==
  [haut |-> OuOctet(mot.haut, (a \div Bas24) % 256),
   bas  |-> (mot.bas + a) % Bas24]

(***************************************************************************)
(* The word a relocation should leave, by the ARM ELF rules the code       *)
(* quotes: S + A for R_ARM_ABS32, S + A - P for a branch, where A is the   *)
(* word (or the immediate, counted in instructions) already in the place.  *)
(***************************************************************************)
Immediat(mot) == IF mot.bas >= Bas24 \div 2 THEN mot.bas - Bas24 ELSE mot.bas

Attendu(mot, type, S, P) ==
  IF type \in R_ARM_JUMP
    THEN [mot EXCEPT !.bas = ((S + 4 * Immediat(mot) - P) \div 4) % Bas24]
    ELSE [haut |-> (mot.haut + (mot.bas + S) \div Bas24) % 256,
          bas  |-> (mot.bas + S) % Bas24]
=============================================================================
