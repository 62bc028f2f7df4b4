------------------------------- MODULE Phase1 -------------------------------
(***************************************************************************)
(* The displays of Phase 1 (Pharse1.c, Etap1.c to Etap5.c and the readers  *)
(* of read_data_auxiliaries.c): the program opens one object file, then    *)
(* obeys the options in their order; every display reads the file anew     *)
(* through the same stream, wherever the display before has left it.       *)
(*                                                                         *)
(* An object is given by what it means; Image is the file an assembler     *)
(* makes of it.  The file is a sequence of units: a header, an entry of a  *)
(* table, a name of a string table, a byte of data.  The displays are      *)
(* compared with the object, so that they are right only if the layout is  *)
(* followed and every field turned round as the byte order demands.        *)
(***************************************************************************)
EXTENDS Inversion, SequencesExt

CONSTANTS
  Objets,        \* the files considered
  Commandes      \* the command lines considered

Options == {"h", "S", "x", "s", "r", "H", "?"}

VARIABLES
  objet, commande,
  pc, optind, etape,
  flag,           \* 1: the file is big-endian
  fp,             \* position of the stream
  ehdr, shdr, shstrtab,
  i,              \* etap5: the section looked at
  tables,         \* etap5: what was shown of the sections before
  sortie,         \* the displays, in order
  code            \* how the program ended

entree == <<objet, commande>>
locaux == <<ehdr, shdr, shstrtab, i, tables>>
vars == <<entree, pc, optind, etape, flag, fp, locaux, sortie, code>>

-----------------------------------------------------------------------------
(***************************************************************************)
(* Types of sections (elf.h), and the ones the switch of etap2 names.      *)
(* TLC has no unsigned numbers of 32 bits: a type from 0x80000000 on is    *)
(* the negative number with the same bits.                                 *)
(***************************************************************************)
PROGBITS == 1
SYMTAB   == 2
STRTAB   == 3
RELA     == 4
NOBITS   == 8
REL      == 9
GROUP    == 17

LOPROC == 1879048192
HIPROC == 2147483647
LOUSER == -HIPROC - 1
HIUSER == -1
GNU_HASH == LOPROC - 10
GNU_verneed == LOPROC - 2
GNU_versym == LOPROC - 1

TypesNommes ==   \* five of ELF for ARM follow LOPROC
  0 .. 11 \union {14, 15} \union LOPROC .. LOPROC + 5
  \union {HIPROC, LOUSER, HIUSER, GNU_HASH, GNU_versym, GNU_verneed}

(***************************************************************************)
(* The file of an object: the header, the contents of the sections, the    *)
(* section header table.  Name number k of a string table stands at its    *)
(* place k.                                                                *)
(***************************************************************************)
Symboles(o) ==
  LET n == {k \in DOMAIN o.sections : o.sections[k].type = SYMTAB}
  IN IF n = {} THEN <<>> ELSE o.sections[CHOOSE k \in n : TRUE].donnees

Unites(o, k) ==
  LET s == o.sections[k] IN
  CASE s.nom = ".shstrtab" -> [j \in DOMAIN o.sections |-> [nom |-> o.sections[j].nom]]
    [] s.nom = ".strtab" -> [j \in DOMAIN Symboles(o) |-> [nom |-> Symboles(o)[j].nom]]
    [] s.type = SYMTAB -> [j \in DOMAIN s.donnees |->
                             [st_name |-> j - 1, st_value |-> s.donnees[j].valeur,
                              st_info |-> s.donnees[j].info, st_shndx |-> s.donnees[j].ndx]]
    [] s.type \in {REL, RELA} -> [j \in DOMAIN s.donnees |->
                                    [r_offset |-> s.donnees[j].offset,
                                     r_info |-> <<s.donnees[j].sym, s.donnees[j].type>>]]
    [] OTHER -> s.donnees

Place(o, k) ==   \* sh_offset
  IF o.sections[k].type = 0 THEN 0
  ELSE LET p[j \in 1 .. k] == IF j = 1 THEN 1 ELSE p[j - 1] + Len(Unites(o, j - 1)) IN p[k]

Taille(o, k) ==
  IF o.sections[k].type = NOBITS THEN o.sections[k].taille ELSE Len(Unites(o, k))

Nombre(o) == Len(o.sections)

Entete(o) ==
  [e_ident |-> o.classe, e_type |-> o.type, e_machine |-> o.machine,
   e_phoff |-> 0, e_shoff |-> Place(o, Nombre(o)) + Len(Unites(o, Nombre(o))),
   e_ehsize |-> 52, e_shentsize |-> 40, e_shnum |-> Nombre(o),
   e_shstrndx |-> CHOOSE k \in 0 .. Nombre(o) - 1 : o.sections[k + 1].nom = ".shstrtab"]

EntreeTable(o, k) ==
  [sh_name |-> k - 1, sh_type |-> o.sections[k].type, sh_offset |-> Place(o, k),
   sh_size |-> Taille(o, k), sh_entsize |-> o.sections[k].entsize]

Image(o) ==
  <<Entete(o)>> \o FlattenSeq([k \in DOMAIN o.sections |-> Unites(o, k)])
                \o [k \in DOMAIN o.sections |-> EntreeTable(o, k)]

Images == [o \in Objets |-> Image(o)]

(***************************************************************************)
(* The objects an assembler makes: the null section is the first and the   *)
(* only one without a type; the tables of strings have their names and     *)
(* types; there is at most one table of symbols, and where there is one    *)
(* there are names for it; entries of a table are one unit (a table may    *)
(* fail to say so); the flags of a group are GRP_COMDAT.                   *)
(***************************************************************************)
SectionOK(s) ==
  /\ s.type \in LOUSER .. HIPROC /\ s.entsize \in Nat /\ s.taille \in Nat
  /\ s.donnees \in Seq(Range(s.donnees))
  /\ s.type \in {0, NOBITS} => s.donnees = <<>>
  /\ s.nom \in {".shstrtab", ".strtab"} => s.type = STRTAB
  /\ s.nom = ".symtab" <=> s.type = SYMTAB
  /\ s.type \in {SYMTAB, REL, RELA} => s.entsize \in {0, 1}
  /\ s.type = SYMTAB => \A j \in DOMAIN s.donnees :
       LET d == s.donnees[j]
       IN  d = [nom |-> d.nom, valeur |-> d.valeur, info |-> d.info, ndx |-> d.ndx]
  /\ s.type = GROUP => s.donnees # <<>> /\ s.donnees[1] = [mot |-> 1]

ObjetOK(o) ==
  LET s == o.sections IN
  /\ o.ordre \in {"grand", "petit"}
  /\ s \in Seq(Range(s)) /\ s[1].nom = ""
  /\ \A k \in DOMAIN s : SectionOK(s[k]) /\ (s[k].type = 0 <=> k = 1)
  /\ \E k \in DOMAIN s : s[k].nom = ".shstrtab"
  /\ \A j, k \in DOMAIN s : s[j].type = SYMTAB /\ s[k].type = SYMTAB => j = k
  /\ (\E k \in DOMAIN s : s[k].type = SYMTAB) => \E k \in DOMAIN s : s[k].nom = ".strtab"

ASSUME ObjetsAssumption == \A o \in Objets : ObjetOK(o)

ASSUME CommandesAssumption ==
  \A c \in Commandes :
    /\ c.options \in Seq(Range(c.options)) /\ c.argc \in Nat
    /\ \A k \in DOMAIN c.options : c.options[k].opt \in Options /\ c.options[k].arg.valeur \in Nat

-----------------------------------------------------------------------------
(***************************************************************************)
(* A structure of the file as the program sees it: a field in the wrong    *)
(* byte order is some other number.                                        *)
(***************************************************************************)
Brouille == 255

NumeroChamp ==   \* which field of the structure of elf.h
  [ehdr |-> [e_ident |-> 5, e_type |-> 17, e_machine |-> 18, e_phoff |-> 21,
             e_shoff |-> 22, e_ehsize |-> 24, e_shentsize |-> 27, e_shnum |-> 28,
             e_shstrndx |-> 29],
   shdr |-> [sh_name |-> 1, sh_type |-> 2, sh_offset |-> 5, sh_size |-> 6, sh_entsize |-> 10],
   Symbol |-> [st_name |-> 1, st_value |-> 2, st_info |-> 4, st_shndx |-> 6],
   Relocation |-> [r_offset |-> 1, r_info |-> 2],
   Relocation_a |-> [r_offset |-> 1, r_info |-> 2]]

EnOrdre(str, c) ==
  LET n == NumeroChamp[str][c] IN
  \/ Champs[str][n] = 1
  \/ flag = 0 /\ objet.ordre = "petit"
  \/ flag = 1 /\ objet.ordre = "grand" /\ Retourne[str][n]

Vu(str, s) == [c \in DOMAIN s |-> IF EnOrdre(str, c) THEN s[c] ELSE Brouille]

(***************************************************************************)
(* fread of n units at position p; of nothing it returns 0.                *)
(***************************************************************************)
Lisible(p, n) == n > 0 /\ p + n <= Len(Images[objet])

Lu(p, n) == SubSeq(Images[objet], p + 1, p + n)

LuComme(str, p, n) == [k \in 1 .. n |-> Vu(str, Lu(p, n)[k])]

chercher_index_de_section(nom) ==
  LET s == {k \in 0 .. ehdr.e_shnum - 1 : shstrtab[shdr[k + 1].sh_name + 1].nom = nom}
  IN IF s = {} THEN -1 ELSE CHOOSE k \in s : \A l \in s : k <= l

-----------------------------------------------------------------------------
Init ==
  /\ objet \in Objets /\ commande \in Commandes
  /\ pc = "ouverture" /\ optind = 1 /\ etape = "aucune"
  /\ flag = 0 /\ fp = 0
  /\ ehdr = <<>> /\ shdr = <<>> /\ shstrtab = <<>> /\ i = 0 /\ tables = <<>>
  /\ sortie = <<>> /\ code = "marche"

Sort(c) == pc' = "fini" /\ code' = c

(***************************************************************************)
(* main, before the options.  Six bytes are read: fp is inside the header. *)
(***************************************************************************)
OuvertureEchoue ==
  /\ pc = "ouverture" /\ objet.genre # "elf"
  /\ Sort("1")
  /\ UNCHANGED <<entree, optind, etape, flag, fp, locaux, sortie>>

DrapeauFautif == IF objet.ordre = "grand" THEN 0 ELSE 1

Drapeau == IF objet.ordre = "grand" THEN 1 ELSE 0

Ouvre ==
  /\ pc = "ouverture" /\ objet.genre = "elf"
  /\ flag' = Drapeau /\ fp' = 1
  /\ pc' = "options"
  /\ UNCHANGED <<entree, optind, etape, locaux, sortie, code>>

(***************************************************************************)
(* The loop over the options.                                              *)
(***************************************************************************)
Affiche(a) ==   \* a display ends: the loop goes on
  /\ sortie' = Append(sortie, a)
  /\ pc' = "options" /\ UNCHANGED code

Optarg == commande.options[optind - 1].arg   \* of the option being obeyed

Lue(opts) ==   \* getopt_long returned one of these
  /\ pc = "options" /\ optind <= Len(commande.options)
  /\ commande.options[optind].opt \in opts
  /\ optind' = optind + 1

OptionEtape ==
  /\ Lue({"h", "S", "x", "s", "r"})
  /\ commande.options[optind].opt = "x" => commande.argc > 3
  /\ etape' = commande.options[optind].opt
  /\ pc' = "entete"
  /\ UNCHANGED <<entree, flag, fp, locaux, sortie, code>>

Usage ==   \* -x with too few arguments
  /\ Lue({"x"}) /\ commande.argc <= 3
  /\ Affiche([opt |-> "usage"])
  /\ UNCHANGED <<entree, etape, flag, fp, locaux>>

Aide ==
  /\ Lue({"H"})
  /\ Affiche([opt |-> "H"])
  /\ UNCHANGED <<entree, etape, flag, fp, locaux>>

SuiteInconnueFautive == Affiche([opt |-> "usage"])

SuiteInconnue == Sort("1") /\ sortie' = Append(sortie, [opt |-> "usage"])

OptionInconnue ==
  /\ Lue({"?"})
  /\ SuiteInconnue
  /\ UNCHANGED <<entree, etape, flag, fp, locaux>>

FinOptions ==
  /\ pc = "options" /\ optind > Len(commande.options)
  /\ Sort("0")
  /\ UNCHANGED <<entree, optind, etape, flag, fp, locaux, sortie>>

-----------------------------------------------------------------------------
(***************************************************************************)
(* The readers.                                                            *)
(***************************************************************************)
read_header_ELF ==
  /\ pc = "entete"
  /\ ehdr' = LuComme("ehdr", 0, 1)[1] /\ fp' = 1

read_Section_header ==
  /\ pc = "table"
  /\ shdr' = LuComme("shdr", ehdr.e_shoff, ehdr.e_shnum)
  /\ fp' = ehdr.e_shoff + ehdr.e_shnum
  /\ pc' = "noms"
  /\ UNCHANGED <<entree, optind, etape, flag, ehdr, shstrtab, i, tables, sortie, code>>

read_sh_str_tab ==
  LET s == shdr[ehdr.e_shstrndx + 1] IN
  /\ pc = "noms"
  /\ shstrtab' = Lu(s.sh_offset, s.sh_size)
  /\ fp' = s.sh_offset + s.sh_size
  /\ pc' = "etape" /\ i' = 0 /\ tables' = <<>>
  /\ UNCHANGED <<entree, optind, etape, flag, ehdr, shdr, sortie, code>>

Etape(e) == pc = "etape" /\ etape = e

(***************************************************************************)
(* etap1.                                                                  *)
(***************************************************************************)
etap1 ==
  /\ read_header_ELF /\ etape = "h"
  /\ Affiche([opt |-> "h", entete |-> ehdr'])
  /\ UNCHANGED <<entree, optind, etape, flag, shdr, shstrtab, i, tables>>

LitEntete ==   \* the other four go on to the section header table
  /\ read_header_ELF /\ etape # "h"
  /\ pc' = "table"
  /\ UNCHANGED <<entree, optind, etape, flag, shdr, shstrtab, i, tables, sortie, code>>

(***************************************************************************)
(* etap2.  A type the switch does not know is a group if the first byte at *)
(* the place of the section is 1: in a word, the low byte when the file is *)
(* little-endian, the high byte when it is big-endian.  No character of a  *)
(* name is a byte 1.                                                       *)
(***************************************************************************)
Mots == {"mot", "st_name", "r_offset", "sh_name"}   \* the first field of a unit

OctetUn(p) ==
  LET u == Images[objet][p + 1] IN
  /\ p < Len(Images[objet])
  /\ \/ "octet" \in DOMAIN u /\ u.octet = 1
     \/ \E c \in Mots \intersect DOMAIN u :
          IF objet.ordre = "petit" THEN u[c] % 256 = 1 ELSE u[c] \div 16777216 = 1

TypeAffiche(s) ==
  [groupe |-> s.sh_type \notin TypesNommes /\ OctetUn(s.sh_offset), type |-> s.sh_type]

Inconnues == {k \in DOMAIN shdr : shdr[k].sh_type \notin TypesNommes}

etap2 ==
  /\ Etape("S")
  /\ Affiche([opt |-> "S",
              lignes |-> [k \in DOMAIN shdr |->
                            [nom |-> shstrtab[shdr[k].sh_name + 1].nom, taille |-> shdr[k].sh_size,
                             type |-> TypeAffiche(shdr[k]), offset |-> shdr[k].sh_offset]]])
  /\ fp' = IF Inconnues = {} THEN fp
           ELSE shdr[CHOOSE k \in Inconnues : \A l \in Inconnues : l <= k].sh_offset
  /\ UNCHANGED <<entree, optind, etape, flag, locaux>>

(***************************************************************************)
(* etap3.  A number above 0 is an index; anything else is looked up by     *)
(* name, and its name shown is the beginning of the string table.          *)
(***************************************************************************)
ParIndex == Optarg.valeur > 0 \/ Optarg.nom = ""

numero == IF ParIndex THEN Optarg.valeur ELSE chercher_index_de_section(Optarg.nom)

NomAffiche == shstrtab[(IF ParIndex THEN shdr[numero + 1].sh_name ELSE 0) + 1].nom

Existe == numero \in 0 .. ehdr.e_shnum - 1

etap3 ==
  LET s == shdr[numero + 1] IN
  /\ Etape("x") /\ Existe /\ Lisible(s.sh_offset, s.sh_size)
  /\ Affiche([opt |-> "x", nom |-> NomAffiche, offset |-> s.sh_offset, taille |-> s.sh_size,
              contenu |-> Lu(s.sh_offset, s.sh_size)])
  /\ fp' = s.sh_offset + s.sh_size
  /\ UNCHANGED <<entree, optind, etape, flag, locaux>>

(***************************************************************************)
(* An entry outside the table is whatever lies there: its size and place   *)
(* can be shown, refused by an assertion, or end the program.  What was    *)
(* shown lay somewhere in the file.                                        *)
(***************************************************************************)
etap3_indefini ==
  /\ Etape("x") /\ ~Existe
  /\ \/ fp' \in 0 .. Len(Images[objet]) /\ Affiche([opt |-> "x", nom |-> "indefini"])
     \/ \E c \in {"assert", "signal"} : Sort(c) /\ UNCHANGED <<fp, sortie>>
  /\ UNCHANGED <<entree, optind, etape, flag, locaux>>

(***************************************************************************)
(* etap4.                                                                  *)
(***************************************************************************)
index_SymTab == chercher_index_de_section(".symtab")

index_StrTab == chercher_index_de_section(".strtab")

TablesPresentes ==
  /\ index_SymTab # -1 /\ index_StrTab # -1
  /\ Lisible(shdr[index_StrTab + 1].sh_offset, shdr[index_StrTab + 1].sh_size)
  /\ shdr[index_SymTab + 1].sh_entsize # 0
  /\ Lisible(shdr[index_SymTab + 1].sh_offset, shdr[index_SymTab + 1].sh_size)

etap4 ==
  LET t == shdr[index_SymTab + 1]
      strtab == Lu(shdr[index_StrTab + 1].sh_offset, shdr[index_StrTab + 1].sh_size)
      sym == LuComme("Symbol", t.sh_offset, t.sh_size)
  IN
  /\ Etape("s") /\ TablesPresentes
  /\ Affiche([opt |-> "s",
              symboles |-> [j \in 1 .. t.sh_size \div t.sh_entsize |->
                              [nom |-> strtab[sym[j].st_name + 1].nom, valeur |-> sym[j].st_value,
                               info |-> sym[j].st_info, ndx |-> sym[j].st_shndx]]])
  /\ fp' = t.sh_offset + t.sh_size
  /\ UNCHANGED <<entree, optind, etape, flag, locaux>>

(***************************************************************************)
(* etap5, one turn of its loop over the sections, and its end.  The names  *)
(* of the types are those of ARM or those of the 386.                      *)
(***************************************************************************)
AReimplantationFautive(s) == s.sh_type # 0

AReimplantation(s) == s.sh_type \in {RELA, REL}

Famille == IF ehdr.e_machine = 40 THEN "ARM" ELSE "386"

Relocations(s) ==
  LET r == LuComme(IF s.sh_type = RELA THEN "Relocation_a" ELSE "Relocation",
                   s.sh_offset, s.sh_size)
  IN [nom |-> shstrtab[s.sh_name + 1].nom, offset |-> s.sh_offset, famille |-> Famille,
      entrees |-> [j \in 1 .. s.sh_size \div s.sh_entsize |->
                     [offset |-> r[j].r_offset, info |-> r[j].r_info]]]

calcul_nombre_entrees(s) == s.sh_entsize # 0   \* its assertion

etap5_section ==
  LET s == shdr[i + 1] IN
  /\ Etape("r") /\ i < ehdr.e_shnum
  /\ IF AReimplantation(s)
       THEN /\ calcul_nombre_entrees(s) /\ Lisible(s.sh_offset, s.sh_size)
            /\ tables' = Append(tables, Relocations(s))
            /\ fp' = s.sh_offset + s.sh_size
       ELSE UNCHANGED <<tables, fp>>
  /\ i' = i + 1
  /\ UNCHANGED <<entree, pc, optind, etape, flag, ehdr, shdr, shstrtab, sortie, code>>

etap5_fin ==
  /\ Etape("r") /\ i = ehdr.e_shnum
  /\ Affiche([opt |-> "r", tables |-> tables])
  /\ UNCHANGED <<entree, optind, etape, flag, fp, locaux>>

(***************************************************************************)
(* The assertions that fail: nothing to read, a table that is missing, a   *)
(* table whose entries have no size.                                       *)
(***************************************************************************)
Abandonne ==
  /\ \/ Etape("x") /\ Existe
          /\ ~Lisible(shdr[numero + 1].sh_offset, shdr[numero + 1].sh_size)
     \/ Etape("s") /\ ~TablesPresentes
     \/ Etape("r") /\ i < ehdr.e_shnum /\ AReimplantation(shdr[i + 1])
          /\ \/ ~calcul_nombre_entrees(shdr[i + 1])
             \/ ~Lisible(shdr[i + 1].sh_offset, shdr[i + 1].sh_size)
  /\ Sort("assert")
  /\ UNCHANGED <<entree, optind, etape, flag, fp, locaux, sortie>>

-----------------------------------------------------------------------------
Next ==
  \/ OuvertureEchoue \/ Ouvre
  \/ OptionEtape \/ Usage \/ Aide \/ OptionInconnue \/ FinOptions
  \/ etap1 \/ LitEntete \/ read_Section_header \/ read_sh_str_tab
  \/ etap2 \/ etap3 \/ etap3_indefini \/ etap4 \/ etap5_section \/ etap5_fin
  \/ Abandonne

Spec == Init /\ [][Next]_vars

-----------------------------------------------------------------------------
(***************************************************************************)
(* Types; what was read of the tables are numbers of the file, none of     *)
(* them in the wrong byte order.                                           *)
(***************************************************************************)
TypeOK ==
  /\ pc \in {"ouverture", "options", "entete", "table", "noms", "etape", "fini"}
  /\ optind \in 1 .. Len(commande.options) + 1
  /\ etape \in Options \union {"aucune"}
  /\ flag \in {0, 1} /\ fp \in 0 .. Len(Images[objet])
  /\ pc \in {"table", "noms", "etape"} => ehdr.e_shoff + ehdr.e_shnum = Len(Images[objet])
  /\ pc \in {"noms", "etape"} =>
       \A k \in DOMAIN shdr : shdr[k].sh_name \in 0 .. ehdr.e_shnum - 1
  /\ i \in 0 .. Len(shdr) /\ Len(tables) <= i
  /\ code \in {"marche", "0", "1", "assert", "signal"}
  /\ pc = "fini" <=> code # "marche"

(***************************************************************************)
(* Whatever was displayed before and in whichever byte order the file is,  *)
(* a display shows what the object is: its header, every section, the      *)
(* section asked for, every symbol, every relocation.  Three things are    *)
(* stated as the code does them, which is not right: a group of a          *)
(* big-endian file need not be called one, while a section of an unknown   *)
(* type that begins with a byte 1 is; a section that has no bytes in the   *)
(* file (NOBITS) is shown with those of the next; and -x prints the name   *)
(* of a section asked for by its number, but the empty name for one that   *)
(* is found by its name.                                                   *)
(***************************************************************************)
Demandees(o, arg) ==   \* the sections -x may mean
  {k \in DOMAIN o.sections :
     IF arg.valeur > 0 \/ arg.nom = "" THEN k = arg.valeur + 1
     ELSE o.sections[k].nom = arg.nom}

LigneExacte(o, l, k) ==
  /\ l.nom = o.sections[k].nom
  /\ l.taille = Taille(o, k) /\ l.offset = Place(o, k)
  /\ l.type.type = o.sections[k].type
  /\ l.type.groupe => l.type.type \notin TypesNommes
  /\ o.ordre = "petit" /\ l.type.type = GROUP => l.type.groupe

ContenuExact(o, a, arg) ==
  IF Demandees(o, arg) = {} THEN a.nom = "indefini"
  ELSE \E k \in Demandees(o, arg) :
         /\ a.nom = IF arg.valeur > 0 \/ arg.nom = "" THEN o.sections[k].nom ELSE ""
         /\ a.taille = Taille(o, k)
         /\ o.sections[k].type = NOBITS \/ a.contenu = Unites(o, k)

RelocationsExactes(o, t, k) ==
  /\ t.nom = o.sections[k].nom
  /\ t.famille = IF o.machine = 40 THEN "ARM" ELSE "386"
  /\ t.entrees = [j \in DOMAIN o.sections[k].donnees |->
                    LET d == o.sections[k].donnees[j]
                    IN [offset |-> d.offset, info |-> <<d.sym, d.type>>]]

SectionsDeReimplantation(o) == {k \in DOMAIN o.sections : o.sections[k].type \in {REL, RELA}}

Rang(o, k) == Cardinality({l \in SectionsDeReimplantation(o) : l <= k})

AffichageExact(o, a, arg) ==
  CASE a.opt = "h" -> a.entete = Entete(o)
    [] a.opt = "S" -> /\ DOMAIN a.lignes = DOMAIN o.sections
                      /\ \A k \in DOMAIN a.lignes : LigneExacte(o, a.lignes[k], k)
    [] a.opt = "x" -> ContenuExact(o, a, arg)
    [] a.opt = "s" -> a.symboles = Symboles(o)
    [] a.opt = "r" -> /\ Len(a.tables) = Cardinality(SectionsDeReimplantation(o))
                      /\ \A k \in SectionsDeReimplantation(o) :
                           RelocationsExactes(o, a.tables[Rang(o, k)], k)
    [] OTHER -> TRUE

AffichagesExacts ==
  \A k \in DOMAIN sortie : AffichageExact(objet, sortie[k], commande.options[k].arg)

(***************************************************************************)
(* The exit status is 0 when the file is an object, every option is known  *)
(* and each got its answer, in order; it is 1 for a file that is none, or  *)
(* at the first unknown option.                                            *)
(***************************************************************************)
Repond(a, o) == a.opt = o.opt \/ (a.opt = "usage" /\ o.opt \in {"x", "?"})

ToutAffiche ==
  /\ \A k \in DOMAIN sortie : Repond(sortie[k], commande.options[k])
  /\ code = "0" =>
       /\ objet.genre = "elf" /\ Len(sortie) = Len(commande.options)
       /\ \A k \in DOMAIN commande.options : commande.options[k].opt # "?"
  /\ code = "1" =>
       \/ objet.genre # "elf" /\ sortie = <<>>
       \/ sortie # <<>> /\ commande.options[Len(sortie)].opt = "?"

(***************************************************************************)
(* The program gives up without an answer only when -x is asked for an     *)
(* empty section, one without bytes in the file or none at all, -s for an  *)
(* object without symbols, or -r meets a relocation section that is empty  *)
(* or does not say how long its entries are.                               *)
(***************************************************************************)
AbandonsExpliques ==
  code \in {"assert", "signal"} =>
    \/ etape = "x" /\ \/ Demandees(objet, Optarg) = {}
                      \/ \E k \in Demandees(objet, Optarg) :
                           Taille(objet, k) = 0 \/ objet.sections[k].type = NOBITS
    \/ etape = "s" /\ \/ Symboles(objet) = <<>>
                      \/ \E k \in DOMAIN objet.sections :
                           objet.sections[k].type = SYMTAB /\ objet.sections[k].entsize = 0
    \/ etape = "r" /\ \E k \in DOMAIN objet.sections :
                        /\ objet.sections[k].type \in {REL, RELA}
                        /\ objet.sections[k].entsize = 0 \/ Taille(objet, k) = 0

(***************************************************************************)
(* What my_write writes of a structure or a section that was read from a   *)
(* big-endian file are the bytes of the file, and it leaves the structure  *)
(* as it was: all of a structure, of a section all whole words.  (The last *)
(* bytes of a section of another size are replaced by heap memory.)        *)
(***************************************************************************)
Structures == [str \in DOMAIN Champs |-> my_write(str, Sizeof(str))]

Miroirs ==   \* every field end for end, and every byte in its place
  [str \in DOMAIN Champs |->
     [ecrit |->
        [j \in 0 .. Sizeof(str) - 1 |->
           LET c == CHOOSE c \in DOMAIN Champs[str] : Debut(str)[c] <= j /\ j < Debut(str)[c + 1]
           IN Debut(str)[c] + Debut(str)[c + 1] - 1 - j],
      reste |-> [j \in 0 .. Sizeof(str) - 1 |-> j]]]

TaillesSection == 1 .. 9

Relues ==   \* the whole words of a section, read by read_section and then written
  [size \in TaillesSection |->
     LET w == my_write("normal", size)
     IN [j \in 0 .. 4 * (size \div 4) - 1 |-> <<w.ecrit[w.ecrit[j]], w.reste[j]>>]]

Intactes == [size \in TaillesSection |-> [j \in 0 .. 4 * (size \div 4) - 1 |-> <<j, j>>]]

CopieExacte == Structures = Miroirs /\ Relues = Intactes
=============================================================================
