----------------------------- MODULE MCPhase1 -----------------------------
(***************************************************************************)
(* Phase1 on objects like the samples of Phase_1/examples (big-endian ARM, *)
(* little-endian 386, an empty .data, a .bss), on objects that miss what   *)
(* the options look for, and on files that are no objects.  The command    *)
(* lines are all pairs of options and a few longer ones.                   *)
(***************************************************************************)
EXTENDS Phase1

Sec(n, t, d) == [nom |-> n, type |-> t, entsize |-> IF t \in {SYMTAB, REL, RELA} THEN 1 ELSE 0,
                 taille |-> 0, donnees |-> d]

Nulle == Sec("", 0, <<>>)
Texte == Sec(".text", PROGBITS, <<[octet |-> 5], [octet |-> 6]>>)
Donnees == Sec(".data", PROGBITS, <<>>)
Bss(n) == [Sec(".bss", NOBITS, <<>>) EXCEPT !.taille = n]
Groupe == Sec(".group", GROUP, <<[mot |-> 1], [mot |-> 3]>>)
Autre == Sec(".preinit_array", 16, <<[mot |-> 1]>>)
Attributs == Sec(".ARM.attributes", LOPROC + 3, <<[octet |-> 1], [octet |-> 65]>>)
Propre == Sec(".propre", 1610612737, <<[octet |-> 1]>>)   \* 0x60000001

Rel(t, n) == [offset |-> 4 * n, type |-> t, sym |-> n]

RelTexte == Sec(".rel.text", REL, <<Rel(28, 1), Rel(2, 2)>>)
RelaDonnees == Sec(".rela.data", RELA, <<Rel(29, 2)>>)

Sym(n, v) == [nom |-> n, valeur |-> v, info |-> v + 1, ndx |-> 1]

Symtab == Sec(".symtab", SYMTAB, <<Sym("", 0), Sym("main", 4), Sym("f", 8)>>)
Strtab == Sec(".strtab", STRTAB, <<>>)
Shstrtab == Sec(".shstrtab", STRTAB, <<>>)

Objet(g, b, m, s) == [genre |-> g, ordre |-> b, machine |-> m, classe |-> 1, type |-> 1, sections |-> s]

MCObjets ==
  {Objet("elf", bm[1], bm[2], s) :
     bm \in {<<"grand", 40>>, <<"petit", 3>>},
     s \in {<<Nulle, Texte, RelTexte, Donnees, Bss(2), Symtab, Strtab, Shstrtab>>,
            <<Nulle, Groupe, Texte, Bss(9), RelaDonnees, Autre, Propre, Attributs,
              Shstrtab, Symtab, Strtab>>,
            <<Nulle, Shstrtab, Texte, Bss(4)>>,
            <<Nulle, Texte, [RelTexte EXCEPT !.entsize = 0], [Symtab EXCEPT !.entsize = 0],
              Strtab, Shstrtab>>}}
  \union {Objet("elf", "petit", 40, <<Nulle, Groupe, RelTexte, Shstrtab, Symtab, Strtab>>)}
  \union {Objet(g, "petit", 40, <<Nulle, Shstrtab>>) : g \in {"absent", "autre"}}

Option(o) == [opt |-> o, mots |-> 1, arg |-> [valeur |-> 0, nom |-> "aucun"]]

Contenu(m, v, n) == [opt |-> "x", mots |-> m, arg |-> [valeur |-> v, nom |-> n]]

MCOptions ==
  {Option(o) : o \in {"h", "S", "s", "r", "H", "?"}} \union
  {Contenu(2, 0, n) : n \in {".text", ".data", ".bss", ".rel.text", "0", ".absente"}} \union
  {Contenu(2, 1, "1"), Contenu(2, 4, "4"), Contenu(2, 99, "99"),
   Contenu(1, 0, ".text"), Contenu(1, 0, "")}   \* -x.text, --3=

Commande(s) == [options |-> s, argc |-> FoldLeft(LAMBDA n, o : n + o.mots, 2, s)]

MCCommandes ==
  {Commande(s) : s \in UNION {[1 .. n -> MCOptions] : n \in 0 .. 2}} \union
  {Commande(<<Option("S"), Contenu(2, 0, ".text"), Option("r"), Option("s"), Option("h")>>),
   Commande(<<Option("r"), Option("S"), Contenu(2, 1, "1"), Option("h"), Option("s"), Option("r")>>)}
=============================================================================
