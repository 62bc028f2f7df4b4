----------------------------- MODULE Inversion -----------------------------
(***************************************************************************)
(* inverse_data and inverse_tab: how the programs turn the structures of a *)
(* big-endian file round in place, before they use them and before they    *)
(* write them.                                                             *)
(*                                                                         *)
(* What is turned round does not depend on the bytes, so a call is the     *)
(* function that tells, for a place in the structure, from which place its *)
(* byte comes.  A place past the end is heap memory behind the copy.       *)
(***************************************************************************)
EXTENDS Integers, Sequences

(***************************************************************************)
(* The widths of the fields of the structures of elf.h.                    *)
(***************************************************************************)
Champs ==
  [ehdr |-> [c \in 1 .. 29 |->
               IF c <= 16 THEN 1 ELSE IF c \in 19 .. 23 THEN 4 ELSE 2],
   shdr |-> [c \in 1 .. 10 |-> 4],
   Symbol |-> <<4, 4, 4, 1, 1, 2>>,
   Relocation |-> <<4, 4>>,
   Relocation_a |-> <<4, 4, 4>>]

Debuts ==   \* where each field begins, and behind the last the end
  [str \in DOMAIN Champs |->
     LET d[c \in 1 .. Len(Champs[str]) + 1] ==
           IF c = 1 THEN 0 ELSE d[c - 1] + Champs[str][c - 1]
     IN [c \in DOMAIN d |-> d[c]]]

Debut(str) == Debuts[str]

Sizeof(str) == Debut(str)[Len(Champs[str]) + 1]

(***************************************************************************)
(* The three branches of the loop: how many bytes the turn at place i      *)
(* takes.                                                                  *)
(***************************************************************************)
LargeurFautive(str, i) ==   \* i > 40
  CASE str = "ehdr" /\ i < 16 -> 1
    [] str = "ehdr" /\ (i = 16 \/ i = 18 \/ i > 40) -> 2
    [] str = "Symbol" /\ i \in {12, 13} -> 1
    [] str = "Symbol" /\ i > 13 -> 2
    [] OTHER -> 4

Largeur(str, i) ==
  CASE str = "ehdr" /\ i < 16 -> 1
    [] str = "ehdr" /\ (i = 16 \/ i = 18 \/ i >= 40) -> 2
    [] str = "Symbol" /\ i \in {12, 13} -> 1
    [] str = "Symbol" /\ i > 13 -> 2
    [] OTHER -> 4

Tours(str, size) ==   \* the values of i
  LET t[i \in 0 .. size + 3] ==
        IF i >= size THEN {} ELSE {i} \union t[i + Largeur(str, i)]
  IN t[0]

(***************************************************************************)
(* From where inverse_tab takes the byte of place j.                       *)
(***************************************************************************)
inverse_tab_fautif(j, start, nb) ==   \* only the outer two
  IF j \in {start, start + nb - 1} THEN (start + nb - 1) - (j - start) ELSE j

inverse_tab(j, start, nb) == (start + nb - 1) - (j - start)

inverse_data(str, size) ==
  LET tours == Tours(str, size)
      Tour(j) == CHOOSE i \in tours : i <= j /\ j < i + Largeur(str, i)
  IN [j \in 0 .. size - 1 |-> inverse_tab(j, Tour(j), Largeur(str, Tour(j)))]

(***************************************************************************)
(* What fwrite of my_write gets, and what my_write leaves in the           *)
(* structure, when the file is big-endian.                                 *)
(***************************************************************************)
my_write(str, size) ==
  LET un == inverse_data(str, size)
      deux == [j \in 0 .. size - 1 |-> IF un[j] < size THEN un[un[j]] ELSE un[j]]
  IN [ecrit |-> un, reste |-> deux]

(***************************************************************************)
(* A field is read right when its bytes are turned end for end.            *)
(***************************************************************************)
Retourne ==
  [str \in DOMAIN Champs |->
     LET inv == inverse_data(str, Sizeof(str))
     IN [c \in 1 .. Len(Champs[str]) |->
           \A k \in 0 .. Champs[str][c] - 1 :
             inv[Debut(str)[c] + k] = Debut(str)[c] + Champs[str][c] - 1 - k]]
=============================================================================
