---------------------------- MODULE Phase2Raffine ----------------------------
(***************************************************************************)
(* Phase2 implements EditionLiens: its section numbers, read through the   *)
(* table they count in, are sections by identity.  Between                 *)
(* supprimer_une_section and corrige_ndx the symbols count in a table that *)
(* is no longer in the file, so corrige_ndx is a stuttering step.          *)
(***************************************************************************)
EXTENDS Phase2

(***************************************************************************)
(* The contents of a section are no reserved section number.               *)
(***************************************************************************)
ASSUME CorpsAssumption == \A c \in Corps : c \notin SHN_ABS .. SHN_HIRESERVE

Ou(b) == CHOOSE i \in DOMAIN shdr : shdr[i].body = b

Adresses == [b \in Presents |-> shdr[Ou(b)].addr]

Liens == [b \in Presents |-> shdr[shdr[Ou(b)].link].body]

Infos == [b \in {shdr[i].body : i \in {j \in DOMAIN shdr : HasSectionInfo(shdr[j])}}
            |-> shdr[shdr[Ou(b)].info].body]

Noms == shdr[ehdr.e_shstrndx].body

Groupe == LET g == Section(Group) IN IF g = -1 THEN <<>> ELSE group[shdr[g].body]

Membres == [w \in DOMAIN Groupe |-> shdr[Groupe[w]].body]

Proprio(ndx) ==
  IF ndx >= SHN_ABS THEN ndx
  ELSE IF index_supprime # -1 /\ ndx > index_supprime THEN shdr[ndx - 1].body
  ELSE shdr[ndx].body

Proprios == [k \in DOMAIN sym |-> Proprio(sym[k].shndx)]

Valeurs == [k \in DOMAIN sym |-> sym[k].value]

Abstrait == INSTANCE EditionLiens WITH
  sections <- Presents, adresse <- Adresses, lien <- Liens, info <- Infos,
  noms <- Noms, membres <- Membres, proprio <- Proprios, valeur <- Valeurs,
  nul <- CorpsNul, produit <- exe # NoExe

(***************************************************************************)
(* Every behaviour of the pipeline is one of the linker that knows         *)
(* sections by identity: the renumbering of Etap6.c and Etap7.c is         *)
(* invisible.                                                              *)
(***************************************************************************)
RaffineEditionLiens == Abstrait!Spec
=============================================================================
