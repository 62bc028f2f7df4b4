---------------------------- MODULE EditionLiens ----------------------------
(***************************************************************************)
(* What the pipeline of Phase2 promises, said without section numbers: a   *)
(* linker that holds its sections by identity.  A section is loaded at an  *)
(* address, which moves the symbols in it; a section is removed, which     *)
(* leaves every other section, symbol and reference as it was and points   *)
(* the references to it at the null section; and an executable is written. *)
(* Renumbering is no step of this specification.                           *)
(***************************************************************************)
EXTENDS Integers, Sequences

CONSTANT Espace   \* size of the address space

VARIABLES
  sections,   \* the sections of the file
  adresse,    \* section -> sh_addr
  lien,       \* section -> the section its sh_link stands for
  info,       \* relocation section -> the section its sh_info stands for
  noms,       \* the section that holds the section names
  membres,    \* the members of the section group, in order
  proprio,    \* symbol -> its section, or its reserved index
  valeur,     \* symbol -> st_value
  nul,        \* the null section
  produit     \* whether the executable is written

liens == <<lien, info, noms, membres>>
avars == <<sections, adresse, liens, proprio, valeur, nul, produit>>

Init ==
  /\ nul \in sections
  /\ DOMAIN adresse = sections /\ \A b \in sections : adresse[b] = 0
  /\ lien \in [sections -> sections]
  /\ DOMAIN info \subseteq sections /\ \A b \in DOMAIN info : info[b] \in sections
  /\ noms \in sections
  /\ \A w \in DOMAIN membres : membres[w] \in sections
  /\ DOMAIN proprio = DOMAIN valeur
  /\ produit = FALSE

(***************************************************************************)
(* Section b is loaded: the symbols in it move by its address.             *)
(***************************************************************************)
Charger(b) ==
  /\ ~produit
  /\ UNCHANGED <<sections, liens, proprio, nul, produit>>
  /\ adresse' = [adresse EXCEPT ![b] = adresse'[b]]
  /\ adresse'[b] \in 0 .. Espace - 1
  /\ valeur' = [k \in DOMAIN valeur |->
                 IF proprio[k] = b THEN (valeur[k] + adresse'[b]) % Espace
                                   ELSE valeur[k]]

(***************************************************************************)
(* Section r, in which no symbol is defined, is removed.                   *)
(***************************************************************************)
Sans(b, r) == IF b = r THEN nul ELSE b

Retirer(r) ==
  /\ ~produit
  /\ r # nul /\ \A k \in DOMAIN proprio : proprio[k] # r
  /\ sections' = sections \ {r}
  /\ adresse' = [b \in sections' |-> adresse[b]]
  /\ lien' = [b \in sections' |-> Sans(lien[b], r)]
  /\ info' = [b \in (DOMAIN info) \ {r} |-> Sans(info[b], r)]
  /\ noms' = Sans(noms, r)
  /\ membres' = [w \in DOMAIN membres |-> Sans(membres[w], r)]
  /\ UNCHANGED <<proprio, valeur, nul, produit>>

Produire ==
  /\ ~produit /\ produit' = TRUE
  /\ UNCHANGED <<sections, adresse, liens, proprio, valeur, nul>>

Next == Produire \/ \E b \in sections : Charger(b) \/ Retirer(b)

Spec == Init /\ [][Next]_avars
=============================================================================
