------------------------------ MODULE MCPhase2 ------------------------------
(***************************************************************************)
(* Object files and command lines for TLC.  The files are built from an    *)
(* order of sections, so that relocation sections stand before, between    *)
(* and behind the sections other tables refer to.                          *)
(***************************************************************************)
EXTENDS Phase2Raffine

CONSTANTS nul, text, reltext, data, reldata, grp, symtab, strtab, shstrtab, autre

MCCorps == {nul, text, reltext, data, reldata, grp, symtab, strtab, shstrtab, autre}

NomDe == [c \in MCCorps |->
  CASE c = nul -> <<>>        [] c = text -> Text
    [] c = reltext -> get_nom_rel_corre(Text)
    [] c = data -> Data       [] c = reldata -> get_nom_rel_corre(Data)
    [] c = grp -> Group       [] c = symtab -> Symtab
    [] c = strtab -> Strtab   [] c = shstrtab -> Shstrtab
    [] c = autre -> <<".rel", ".autre">>]

TypeDe == [c \in MCCorps |->
  CASE c = nul -> 0 [] c \in {text, data} -> 1 [] c = symtab -> 2
    [] c \in {strtab, shstrtab} -> 3 [] c \in {reltext, reldata, autre} -> SHT_REL
    [] c = grp -> 17]

TailleDe == [c \in MCCorps |->
  CASE c = text -> 12 [] c = nul -> 0 [] c = symtab -> 96
    [] c \in {data, reldata, autre} -> 8 [] OTHER -> 16]

EntreeDe == [c \in MCCorps |->
  CASE c = symtab -> 16 [] c \in {reltext, reldata, autre} -> 8 [] c = grp -> 4 [] OTHER -> 0]

Index(ordre, c) ==   \* 0 when the file has no such section
  IF c \in Range(ordre) THEN (CHOOSE i \in DOMAIN ordre : ordre[i] = c) - 1 ELSE 0

Place(ordre, i) ==   \* contents in table order, behind the ELF header
  TailleEhdr + MapThenSumSet(LAMBDA j : TailleDe[ordre[j]], 1 .. i - 1)

Lien(c) == CASE c \in {reltext, reldata, autre, grp} -> symtab
             [] c = symtab -> strtab [] OTHER -> nul

Info(ordre, c) == CASE c = reltext -> Index(ordre, text)
                    [] c = reldata -> Index(ordre, data)
                    [] c = autre -> Index(ordre, strtab)
                    [] c = symtab -> 4 [] c = grp -> 2 [] OTHER -> 0

Entetes(ordre) ==
  [i \in 0 .. Len(ordre) - 1 |->
    LET c == ordre[i + 1] IN
    [body |-> c, name |-> NomDe[c], type |-> TypeDe[c],
     link |-> Index(ordre, Lien(c)), info |-> Info(ordre, c),
     addr |-> 0, offset |-> Place(ordre, i + 1), size |-> TailleDe[c],
     entsize |-> EntreeDe[c]]]

Sym(nom, n, v, f) ==
  [name |-> nom, shndx |-> n, value |-> v, func |-> f, inverse |-> FALSE]

Symboles(ordre) ==
  <<Sym(<<>>, 0, 0, FALSE), Sym(<<>>, Index(ordre, text), 0, FALSE),
    Sym(<<>>, Index(ordre, data), 0, FALSE), Sym(<<"x">>, Index(ordre, data), 4, FALSE),
    Sym(Main, Index(ordre, text), 4, FALSE), Sym(<<"abs">>, SHN_ABS, 40, FALSE)>>

(***************************************************************************)
(* .text holds a branch (bl .-4), an instruction and an address; .data two *)
(* words.                                                                  *)
(***************************************************************************)
MotsText == [d \in {0, 4, 8} |-> IF d = 0 THEN [haut |-> 235, bas |-> Bas24 - 2]
                                          ELSE [haut |-> 0, bas |-> d]]
MotsData == [d \in {0, 4} |-> [haut |-> 0, bas |-> d]]

Fichier(ordre) ==
  [ehdr |-> [e_type |-> 1, e_entry |-> 0, e_shnum |-> Len(ordre),
             e_shoff |-> Place(ordre, Len(ordre) + 1),
             e_shstrndx |-> Index(ordre, shstrtab)],
   shdr |-> Entetes(ordre), sym |-> Symboles(ordre),
   group |-> [c \in MCCorps |->
     IF c = grp THEN <<Index(ordre, text), Index(ordre, reltext), Index(ordre, data)>>
     ELSE <<>>],
   rel |-> [c \in {reltext, reldata, autre} |->
     IF c = reltext
       THEN <<[offset |-> 0, type |-> 28, sym |-> 5], [offset |-> 8, type |-> 2, sym |-> 4]>>
       ELSE <<[offset |-> 4, type |-> 2, sym |-> 2]>>],
   contenu |-> [c \in {text, data} |-> IF c = text THEN MotsText ELSE MotsData],
   ouvrable |-> TRUE, elf |-> TRUE, flag |-> TRUE,
   taille |-> Place(ordre, Len(ordre) + 1) + 40 * Len(ordre)]

-----------------------------------------------------------------------------
(***************************************************************************)
(* Every order of the sections that matter; the string tables stay behind. *)
(***************************************************************************)
Mobiles == {grp, text, reltext, data, reldata, symtab}
Ordres  == {<<nul>> \o p \o <<strtab, shstrtab>> : p \in SetToSeqs(Mobiles)}
Fichiers == {Fichier(o) : o \in Ordres}

S(nom, v) == [opt |-> "s", nom |-> nom, valeur |-> v]
O == [opt |-> "o"]

LignesUsuelles == {<<S(Text, 88), S(Data, 4096), O>>, <<O, S(Data, 4096), S(Text, 88)>>,
                   <<S(Text, 64), O, S(<<".absente">>, 12)>>}
MCResidus == {0, 12}
MCSymResidus == {Sym(<<>>, 0, 0, FALSE), Sym(<<"x">>, 3, 8, FALSE)}
MCSegResidus == {[offset |-> 0, vaddr |-> 0, filesz |-> 0, memsz |-> 0,
                  flags |-> {}, align |-> 0]}

-----------------------------------------------------------------------------
(***************************************************************************)
(* The order the GNU assembler writes, and files that are out of the       *)
(* ordinary: tables or sections missing, empty or apart, one more          *)
(* relocation section, sizes the copy loops stumble over.                  *)
(***************************************************************************)
Gas       == <<nul, text, reltext, data, reldata, grp, symtab, strtab, shstrtab>>
Ordinaire == Fichier(Gas)

Vide(f, c) ==   \* f with an empty section c
  [f EXCEPT !.shdr = [i \in DOMAIN @ |-> IF @[i].body = c THEN [@[i] EXCEPT !.size = 0] ELSE @[i]],
            !.rel = [r \in DOMAIN @ |-> IF r = c THEN <<>> ELSE @[r]],
            !.sym = IF c = symtab THEN <<>> ELSE @]

SansEntsize(f, c) ==
  [f EXCEPT !.shdr = [i \in DOMAIN @ |-> IF @[i].body = c THEN [@[i] EXCEPT !.entsize = 0] ELSE @[i]]]

SansRel == Fichier(<<nul, text, data, grp, symtab, strtab, shstrtab>>)

Divers ==
  {Ordinaire,
   Fichier(<<nul, data, reldata, text, symtab, strtab, shstrtab>>),
   Fichier(<<nul, text, symtab, data, strtab, shstrtab>>),
   Fichier(<<nul, text, data, autre, symtab, strtab, shstrtab>>),
   Fichier(<<nul, text, symtab, strtab, shstrtab>>),
   Fichier(<<nul, data, symtab, strtab, shstrtab>>),
   Fichier(<<nul, grp, symtab, strtab, shstrtab>>),
   Fichier(<<nul, text, reldata, symtab, strtab, shstrtab>>),
   Fichier(<<nul, text, reltext, strtab, shstrtab>>),
   Fichier(<<nul, text, data, symtab, shstrtab>>),
   Vide(Ordinaire, data), Vide(Ordinaire, reltext), Vide(Ordinaire, grp),
   Vide(Ordinaire, strtab), Vide(Ordinaire, shstrtab), Vide(SansRel, symtab),
   SansEntsize(SansRel, symtab), SansEntsize(Ordinaire, reltext),
   [Ordinaire EXCEPT !.ouvrable = FALSE], [Ordinaire EXCEPT !.elf = FALSE],
   [Ordinaire EXCEPT !.flag = FALSE],
   [Ordinaire EXCEPT !.taille = BLOC], [Ordinaire EXCEPT !.taille = BLOC + TailleEhdr]}

(***************************************************************************)
(* Every command line of up to four options, and of up to two with options *)
(* that stop the program at once.                                          *)
(***************************************************************************)
UneOption == {O, S(Text, 88), S(Data, 4096), S(Text, Inconnu), S(<<".absente">>, 0)}
Fatale    == {[opt |-> "?"], S(Text, NULL)}
LignesDiverses == UNION {[1 .. n -> UneOption] : n \in 0 .. 4} \union
                  UNION {[1 .. n -> UneOption \union Fatale] : n \in 1 .. 2}

-----------------------------------------------------------------------------
(***************************************************************************)
(* The inputs of the runs that show a disagreement with the documents.     *)
(***************************************************************************)
LigneAutop2 == {<<S(Text, 88), S(Data, 4096), O>>}   \* autop2.sh

SeulOrdinaire  == {Ordinaire}
PetitBoutiste  == {[Ordinaire EXCEPT !.flag = FALSE]}
SymboleDansRel == {[Ordinaire EXCEPT !.sym[2].shndx = 2]}
=============================================================================
