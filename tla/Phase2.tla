------------------------------- MODULE Phase2 -------------------------------
(***************************************************************************)
(* The pipeline of Phase2.c: main() reads its options, copies the object   *)
(* file to "temp", and lets one step after the other rewrite that file in  *)
(* place: addr_charge, proc_reimplants, supprimer_une_section followed by  *)
(* corrige_ndx, and produ_executable.  Nothing but the file carries the    *)
(* sections from one step to the next, so every section index in it has to *)
(* be renumbered by whichever step removes a section.                      *)
(*                                                                         *)
(* The variables are the tables of "temp" and the locals of main and of    *)
(* proc_reimplants.  Names of the code are kept.                           *)
(***************************************************************************)
EXTENDS Reimplants, Executable, FiniteSets, SequencesExt

CONSTANTS
  Corps,       \* the contents section headers describe
  Images,      \* the object files considered (records, see ImageOK)
  Lignes,      \* the command lines considered (sequences of options)
  Residus,     \* what an uninitialised address may hold
  SymResidus,  \* what an uninitialised symbol may hold
  SegResidus,  \* what an uninitialised program header may hold
  BLOC,        \* bytes copied at a time (1024)
  Inconnu,     \* a local that has not been assigned
  NULL,        \* the null pointer
  NoExe        \* no executable written

MAXSIZE == 2

VARIABLES
  image,           \* the object file given to the program; never changes
  argv, optind,    \* the options, and how many getopt_long has consumed
  index, str_section, adresse_donnee, fp_sortie,
  ehdr, shdr, sym, group, contenu,   \* the tables and contents of "temp"
  etape,           \* the point main has reached
  tour,            \* i and j of the loops of main
  index_supprime,  \* what supprimer_une_section returned, until corrige_ndx
  ri, rj, new_addr,\* i, j and new_addr of proc_reimplants
  exe              \* the executable

entree  == <<image, argv>>
options == <<optind, index, str_section, adresse_donnee, fp_sortie>>
tables  == <<ehdr, shdr, sym, group, contenu>>
boucle  == <<ri, rj, new_addr>>
vars    == <<entree, options, tables, etape, tour, index_supprime, boucle, exe>>

Etapes == {"options", "charge", "reimplants", "supprime", "corrige", "executable"}

(***************************************************************************)
(* How main stops: normally, by exit(1), at a failed assertion, or having  *)
(* used a local that was never assigned or followed a null pointer.        *)
(***************************************************************************)
Arrets == {"fini", "erreur", "abandon", "indefini"}

-----------------------------------------------------------------------------
(***************************************************************************)
(* The object files: the name of none (not ouvrable), or ELF32 relocatable *)
(* files whose indexes are in range and whose tables are as long as their  *)
(* headers say.  A table may be missing, empty, or not say how long its    *)
(* entries are.                                                            *)
(***************************************************************************)
Nom == Seq(STRING)

EnTete == [body : Corps, name : Nom, type : Nat, link : Nat, info : Nat,
           addr : Adresse, offset : Nat, size : Nat, entsize : Nat]

Ndx(n) == (0 .. n - 1) \union (SHN_ABS .. SHN_HIRESERVE)   \* values of st_shndx

Symbole(n) == [name : Nom, shndx : Ndx(n), value : Adresse,
               func : BOOLEAN, inverse : {FALSE}]

SymboleLibre == [name : Nom, shndx : 0 .. SHN_HIRESERVE, value : Adresse,
                 func : BOOLEAN, inverse : BOOLEAN]

ImageOK(im) ==
  LET n == im.ehdr.e_shnum IN
  /\ n \in 1 .. 255
  /\ im.ehdr \in [e_type : Nat, e_entry : Adresse, e_shoff : Nat, e_shnum : Nat,
                  e_shstrndx : 0 .. n - 1]
  /\ im.shdr \in [0 .. n - 1 -> EnTete]
  /\ \A i \in 0 .. n - 1 :
       /\ im.shdr[i].link \in 0 .. n - 1
       /\ HasSectionInfo(im.shdr[i]) => im.shdr[i].info \in 0 .. n - 1
       /\ \A j \in 0 .. n - 1 : im.shdr[i].body = im.shdr[j].body => i = j
       /\ im.shdr[i].addr = 0
  /\ im.shdr[0].name = <<>> /\ im.shdr[0].size = 0
  /\ im.sym \in Seq(Symbole(n))
  /\ \A i \in 0 .. n - 1 : im.shdr[i].name = Symtab /\ im.shdr[i].size = 0 => im.sym = <<>>
  /\ \A i \in 0 .. n - 1 : im.shdr[i].type = SHT_REL =>
       /\ im.rel[im.shdr[i].body] \in Seq([offset : Nat, type : Nat, sym : DOMAIN im.sym])
       /\ im.shdr[i].size = 0 => im.rel[im.shdr[i].body] = <<>>
  /\ im.group \in [Corps -> Seq(0 .. n - 1)]
  /\ im.ouvrable \in BOOLEAN /\ im.elf \in BOOLEAN /\ im.flag \in BOOLEAN /\ im.taille \in Nat

ASSUME ImagesAssumption == \A im \in Images : ImageOK(im)

(***************************************************************************)
(* The command lines: -s name=value (the value Inconnu when it does not    *)
(* begin with 0x, NULL when there is no "="), -o name, and options         *)
(* getopt_long does not know ("?").                                        *)
(***************************************************************************)
OptionOK(o) ==
  \/ o.opt \in {"o", "?"}
  \/ o.opt = "s" /\ o.nom \in Nom /\ (o.valeur \in {Inconnu, NULL} \/ o.valeur \in Adresse)

ASSUME LignesAssumption ==
  \A l \in Lignes : l \in Seq(Range(l)) /\ \A i \in DOMAIN l : OptionOK(l[i])

ASSUME ResidusAssumption ==
  /\ \A a \in Residus : a \in Adresse
  /\ \A s \in SymResidus : s \in SymboleLibre
  /\ BLOC \in Nat \ {0}
  /\ Inconnu \notin Adresse /\ Inconnu \notin Nom
  /\ NULL \notin Adresse /\ NULL # Inconnu

-----------------------------------------------------------------------------
Init ==
  /\ image \in Images /\ argv \in Lignes
  /\ optind = 0 /\ index = 0
  /\ str_section = [i \in 0 .. MAXSIZE - 1 |-> Inconnu]
  /\ adresse_donnee = [i \in 0 .. MAXSIZE - 1 |-> Inconnu]
  /\ fp_sortie = FALSE
  /\ ehdr = image.ehdr /\ shdr = image.shdr /\ sym = image.sym
  /\ group = image.group /\ contenu = image.contenu
  /\ etape = "options" /\ tour = 0 /\ index_supprime = -1
  /\ ri = 0 /\ rj = 1 /\ new_addr = 0
  /\ exe = NoExe

Arret(fin) ==
  /\ etape' = fin
  /\ UNCHANGED <<entree, options, tables, tour, index_supprime, boucle, exe>>

(***************************************************************************)
(* main exits: without options (argc < 3) or when the file cannot be       *)
(* opened, before it looks at any option, and at an unrecognised one.      *)
(***************************************************************************)
Ouvert == argv # <<>> /\ image.ouvrable

ErreurOptions ==
  /\ etape = "options"
  /\ \/ ~Ouvert
     \/ optind < Len(argv) /\ argv[optind + 1].opt = "?"
  /\ Arret("erreur")

(***************************************************************************)
(* getopt_long, case 's'.  An ill-formed value leaves the switch before    *)
(* index++, so the next -s overwrites the name; a missing one is a null    *)
(* pointer, whose first characters are looked at.  A third -s writes       *)
(* behind the arrays.                                                      *)
(***************************************************************************)
FormatFautif(o) == o.valeur = Inconnu   \* the test of 0x the wrong way round

FormatValide(o) == o.valeur # Inconnu

OptionSection ==
  /\ etape = "options" /\ Ouvert /\ optind < Len(argv) /\ argv[optind + 1].opt = "s"
  /\ LET o == argv[optind + 1] IN
       IF index >= MAXSIZE \/ o.valeur = NULL THEN Arret("indefini")
       ELSE /\ optind' = optind + 1
            /\ str_section' = [str_section EXCEPT ![index] = o.nom]
            /\ IF FormatValide(o)
                 THEN /\ adresse_donnee' = [adresse_donnee EXCEPT ![index] = o.valeur]
                      /\ index' = index + 1
                 ELSE UNCHANGED <<adresse_donnee, index>>
            /\ UNCHANGED <<entree, fp_sortie, tables, etape, tour, index_supprime, boucle, exe>>

(***************************************************************************)
(* A copy loop "while (!feof) { a = fread(BLOC); assert(a != 0); ... }"    *)
(* meets the assertion when the bytes left are a whole number of blocks.   *)
(***************************************************************************)
CopieEchoue(octets) == octets % BLOC = 0

(***************************************************************************)
(* case 'o': init_new_file copies the object file to "temp".               *)
(***************************************************************************)
OptionSortie ==
  /\ etape = "options" /\ Ouvert /\ optind < Len(argv) /\ argv[optind + 1].opt = "o"
  /\ IF CopieEchoue(image.taille) THEN Arret("abandon")
     ELSE /\ optind' = optind + 1 /\ fp_sortie' = TRUE
          /\ UNCHANGED <<entree, index, str_section, adresse_donnee,
                         tables, etape, tour, index_supprime, boucle, exe>>

(***************************************************************************)
(* The options are read: a file that is not ELF is another exit(1).        *)
(***************************************************************************)
FinOptions ==
  /\ etape = "options" /\ Ouvert /\ optind = Len(argv)
  /\ Arret(IF image.elf THEN "charge" ELSE "erreur")

Suivante(suite) ==   \* i++ (or j++) in a loop of main, then what follows it
  IF tour + 1 < MAXSIZE THEN etape' = etape /\ tour' = tour + 1
                        ELSE etape' = suite /\ tour' = 0

-----------------------------------------------------------------------------
(***************************************************************************)
(* What every step begins with: the headers and the section names are read *)
(* anew from "temp"; most go on to read the symbols.                       *)
(***************************************************************************)
Section(nom) == chercher_index_de_section(shdr, nom)

NomsLisibles == NonVide(shdr[ehdr.e_shstrndx])

SymbolesLisibles == Section(Symtab) # -1 /\ EntreesLisibles(shdr[Section(Symtab)])

(***************************************************************************)
(* addr_charge(fp_sortie, str_section[tour], adresse_donnee[tour]).  A     *)
(* section that is not there is noticed before the symbols are read.       *)
(***************************************************************************)

ChargeFautive(y, s, addr) ==   \* every symbol moves that is behind the section
  IF y.shndx >= s THEN [y EXCEPT !.value = (@ + addr) % Espace] ELSE y

SymboleCharge(y, s, addr) ==
  IF y.shndx = s THEN [y EXCEPT !.value = (@ + addr) % Espace] ELSE y

AddrCharge ==
  /\ etape = "charge"
  /\ IF ~fp_sortie THEN Arret("indefini")
     ELSE IF ~NomsLisibles \/ Section(Symtab) = -1 THEN Arret("abandon")
     ELSE IF str_section[tour] = Inconnu THEN Arret("indefini")
     ELSE IF Section(str_section[tour]) # -1 /\ ~SymbolesLisibles THEN Arret("abandon")
     ELSE \E addr \in IF adresse_donnee[tour] = Inconnu THEN Residus
                       ELSE {adresse_donnee[tour]} :
       LET s == Section(str_section[tour]) IN
       /\ IF s = -1 THEN UNCHANGED <<shdr, sym>>
          ELSE /\ shdr' = [shdr EXCEPT ![s].addr = addr]
               /\ sym' = [k \in DOMAIN sym |-> SymboleCharge(sym[k], s, addr)]
       /\ Suivante("reimplants")
       /\ UNCHANGED <<entree, options, ehdr, group, contenu, index_supprime, boucle, exe>>

-----------------------------------------------------------------------------
(***************************************************************************)
(* proc_reimplants, one action per turn of its two loops: over the         *)
(* sections (ri), and over the entries of a relocation section (rj).       *)
(***************************************************************************)
AReimplanter(h) == /\ h.name \in {get_nom_rel_corre(Text), get_nom_rel_corre(Data)}
                   /\ h.type = SHT_REL

Cible == Section(nom_section_correspondant(shdr[ri].name))   \* index_sec_cor

Entrees == image.rel[shdr[ri].body]   \* reldr: no step rewrites it before

TablesLues == NomsLisibles /\ SymbolesLisibles   \* before the first turn

Reimplantable ==   \* the target is found, the entries and the target are read
  Cible # -1 /\ EntreesLisibles(shdr[ri]) /\ NonVide(shdr[Cible])

PasseSection ==
  /\ etape = "reimplants" /\ TablesLues /\ ri < ehdr.e_shnum
  /\ ~AReimplanter(shdr[ri])
  /\ ri' = ri + 1
  /\ UNCHANGED <<entree, options, tables, etape, tour, index_supprime, rj, new_addr, exe>>

(***************************************************************************)
(* No names or symbols to read, no target section, nothing to read from    *)
(* the relocation section or from its target: an assertion fails.          *)
(***************************************************************************)
ReimplantEchoue ==
  /\ etape = "reimplants"
  /\ \/ ~TablesLues
     \/ ri < ehdr.e_shnum /\ AReimplanter(shdr[ri]) /\ ~Reimplantable
  /\ Arret("abandon")

ReimplanteEntree ==
  /\ etape = "reimplants" /\ TablesLues /\ ri < ehdr.e_shnum
  /\ AReimplanter(shdr[ri]) /\ Reimplantable
  /\ rj <= Len(Entrees)
  /\ LET r == Entrees[rj]
         b == shdr[Cible].body
         a == NouvelleAdresse(r.type, sym[r.sym].func, sym[r.sym].value,
                              shdr[Cible].addr + r.offset, new_addr)
     IN  /\ new_addr' = a
         /\ contenu' = [contenu EXCEPT ![b][r.offset] = MotReimplante(@, a)]
  /\ rj' = rj + 1
  /\ UNCHANGED <<entree, options, ehdr, shdr, sym, group, etape, tour, index_supprime, ri, exe>>

SectionReimplantee ==
  /\ etape = "reimplants" /\ TablesLues /\ ri < ehdr.e_shnum
  /\ AReimplanter(shdr[ri]) /\ Reimplantable
  /\ rj > Len(Entrees)
  /\ ri' = ri + 1 /\ rj' = 1
  /\ UNCHANGED <<entree, options, tables, etape, tour, index_supprime, new_addr, exe>>

FinReimplants ==
  /\ etape = "reimplants" /\ TablesLues /\ ri >= ehdr.e_shnum
  /\ etape' = "supprime"
  /\ UNCHANGED <<entree, options, tables, tour, index_supprime, boucle, exe>>

-----------------------------------------------------------------------------
(***************************************************************************)
(* supprimer_une_section(fp_sortie, ".rel" + str_section[tour]).  The      *)
(* symbols still carry the old numbers afterwards.  An empty .group fails  *)
(* the assertion of its reader when the header and the table are already   *)
(* rewritten: nothing reads "temp" after that.                             *)
(***************************************************************************)
SupprimerUneSection ==
  /\ etape = "supprime"
  /\ LET x == Section(get_nom_rel_corre(str_section[tour]))
         g == Section(Group)
     IN  IF ~NomsLisibles THEN Arret("abandon")
         ELSE IF x = -1
           THEN /\ Suivante("executable")
                /\ UNCHANGED <<entree, options, tables, index_supprime, boucle, exe>>
         ELSE IF g # -1 /\ ~NonVide(shdr[g]) THEN Arret("abandon")
           ELSE /\ ehdr' = [ehdr EXCEPT !.e_shstrndx = renumero_index_section(@, x),
                                        !.e_shnum = @ - 1]
                /\ shdr' = TableAfter(shdr, ehdr.e_shnum, x)
                /\ group' = IF g = -1 THEN group
                            ELSE [group EXCEPT ![shdr[g].body] =
                                   [w \in DOMAIN @ |-> GroupWordAfter(@[w], x)]]
                /\ index_supprime' = x
                /\ etape' = "corrige"
                /\ UNCHANGED <<entree, options, sym, contenu, tour, boucle, exe>>

(***************************************************************************)
(* corrige_ndx(fp_sortie, index_supprime): an entry is read from the file, *)
(* in order, for every symbol outside the removed section; inverse_data is *)
(* applied whether or not the file is big-endian.  The last entries of the *)
(* table, one for each symbol inside it, are written from fresh memory.    *)
(***************************************************************************)
LuFautif(s) ==   \* the test of flag the wrong way round
  IF image.flag THEN [s EXCEPT !.shndx = Swap16(@), !.inverse = ~@] ELSE s

SymboleLu(s) ==
  IF image.flag THEN s
  ELSE [s EXCEPT !.shndx = Swap16(@), !.inverse = ~@]

CorrigeSansBorne(s) ==   \* reserved indexes renumbered like sections
  IF s.shndx > index_supprime THEN [s EXCEPT !.shndx = @ - 1] ELSE s

CorrigeTout(s) ==        \* sections in front renumbered as well
  IF s.shndx < SHN_ABS THEN [s EXCEPT !.shndx = @ - 1] ELSE s

SymboleCorrige(s) ==
  IF s.shndx > index_supprime /\ s.shndx < SHN_ABS
    THEN [s EXCEPT !.shndx = @ - 1] ELSE s

Gardes == Cardinality({k \in DOMAIN sym : sym[k].shndx # index_supprime})

CorrigeNdx ==
  /\ etape = "corrige"
  /\ IF ~TablesLues THEN Arret("abandon")
     ELSE /\ \E residus \in [{k \in DOMAIN sym : k > Gardes} -> SymResidus] :
               sym' = [k \in DOMAIN sym |->
                         IF k <= Gardes THEN SymboleCorrige(SymboleLu(sym[k]))
                                        ELSE residus[k]]
          /\ index_supprime' = -1
          /\ IF tour + 1 < MAXSIZE THEN etape' = "supprime" /\ tour' = tour + 1
                                   ELSE etape' = "executable" /\ tour' = 0
          /\ UNCHANGED <<entree, options, ehdr, shdr, group, contenu, boucle, exe>>

-----------------------------------------------------------------------------
(***************************************************************************)
(* produ_executable(fp_sortie, nom_file_exe).  In the branch with two      *)
(* program headers init_phdr fills a copy of each, so they are written as  *)
(* malloc left them; but it looks for the alignment of both.               *)
(***************************************************************************)
StrtabLisible == Section(Strtab) # -1 /\ NonVide(shdr[Section(Strtab)])

ProduExecutable ==
  /\ etape = "executable"
  /\ IF ~TablesLues \/ ~StrtabLisible THEN Arret("abandon")
     ELSE IF SansSegment(shdr) THEN Arret("fini")
     ELSE IF \E k \in DOMAIN sym : sym[k].inverse /\ sym[k].name # <<>>
       THEN Arret("indefini")
     ELSE IF ~AlignementsTrouves(shdr) THEN Arret("boucle")
     ELSE IF CopieEchoue(image.taille - TailleEhdr) THEN Arret("abandon")
     ELSE /\ \E segments \in IF UnSeulSegment(shdr) THEN {<<Segment(shdr)>>}
                              ELSE SegResidus \X SegResidus :
               exe' = [ehdr |-> [ehdr EXCEPT !.e_type = 2,
                                             !.e_entry = PointEntree(sym, @),
                                             !.e_shoff = @ + offset_decal(shdr)],
                       segments |-> segments, shdr |-> Decale(shdr)]
          /\ etape' = "fini"
          /\ UNCHANGED <<entree, options, tables, tour, index_supprime, boucle>>

-----------------------------------------------------------------------------
Next ==
  \/ OptionSection \/ OptionSortie \/ ErreurOptions \/ FinOptions
  \/ AddrCharge
  \/ PasseSection \/ ReimplantEchoue \/ ReimplanteEntree
  \/ SectionReimplantee \/ FinReimplants
  \/ SupprimerUneSection \/ CorrigeNdx
  \/ ProduExecutable

Spec == Init /\ [][Next]_vars

(***************************************************************************)
(* main is a sequential program: it runs on until it stops.                *)
(***************************************************************************)
FairSpec == Spec /\ WF_vars(Next)
-----------------------------------------------------------------------------
(***************************************************************************)
(* Type correctness: the tables keep the shape the steps rely on.          *)
(***************************************************************************)
TypeOptions ==
  /\ ImageOK(image) /\ argv \in Lignes
  /\ optind \in 0 .. Len(argv) /\ index \in 0 .. MAXSIZE
  /\ DOMAIN str_section = 0 .. MAXSIZE - 1 /\ DOMAIN adresse_donnee = 0 .. MAXSIZE - 1
  /\ \A i \in 0 .. MAXSIZE - 1 :
       /\ str_section[i] = Inconnu \/ str_section[i] \in Nom
       /\ adresse_donnee[i] = Inconnu \/ adresse_donnee[i] \in Adresse
  /\ fp_sortie \in BOOLEAN

TypeTables ==
  /\ ehdr \in [e_type : Nat, e_entry : Adresse, e_shoff : Nat, e_shnum : Nat, e_shstrndx : Nat]
  /\ ehdr.e_shnum \in 1 .. image.ehdr.e_shnum
  /\ ehdr.e_shstrndx \in 0 .. ehdr.e_shnum - 1
  /\ shdr \in [0 .. ehdr.e_shnum - 1 -> EnTete]
  /\ \A i \in DOMAIN shdr : /\ shdr[i].link \in DOMAIN shdr
                            /\ HasSectionInfo(shdr[i]) => shdr[i].info \in DOMAIN shdr
  /\ sym \in [DOMAIN image.sym -> SymboleLibre]

TypeLocaux ==
  /\ etape \in Etapes \union Arrets \union {"boucle"}
  /\ tour \in 0 .. MAXSIZE - 1
  /\ index_supprime \in -1 .. ehdr.e_shnum /\ index_supprime # 0
  /\ etape = "corrige" => index_supprime # -1
  /\ index_supprime # -1 => etape \in {"corrige", "abandon"}
  /\ ri \in 0 .. image.ehdr.e_shnum /\ rj \in Nat \ {0} /\ new_addr \in Adresse

TypeOK == TypeOptions /\ TypeTables /\ TypeLocaux

-----------------------------------------------------------------------------
(***************************************************************************)
(* Safety.  Sections are compared by their contents ("body"), never by     *)
(* their index: what an index means changes with every removal.            *)
(***************************************************************************)
Presents == {shdr[i].body : i \in DOMAIN shdr}

CorpsNul == image.shdr[0].body

(***************************************************************************)
(* The section a symbol index stands for.  Between supprimer_une_section   *)
(* and corrige_ndx the symbols count in the table that still had           *)
(* index_supprime.                                                         *)
(***************************************************************************)
Designe(ndx, b) ==
  LET i == IF index_supprime # -1 /\ ndx > index_supprime THEN ndx - 1 ELSE ndx
  IN  /\ ndx # index_supprime
      /\ i \in DOMAIN shdr /\ shdr[i].body = b

(***************************************************************************)
(* Every symbol designates the section it designated in the object file    *)
(* (or keeps its reserved index), through all removals and also between    *)
(* the two halves of one: supprimer_une_section and corrige_ndx.           *)
(***************************************************************************)
SymbolesSuivent ==
  \A k \in DOMAIN image.sym :
    LET n == image.sym[k].shndx IN
    IF n >= SHN_ABS THEN sym[k].shndx = n
    ELSE Designe(sym[k].shndx, image.shdr[n].body)

(***************************************************************************)
(* sh_link and sh_info of every section, and e_shstrndx, name the same     *)
(* section as in the object file, or the null section when that one was    *)
(* removed.                                                                *)
(***************************************************************************)
Suit(ndx, ndx0) ==
  LET b == image.shdr[ndx0].body
  IN  shdr[ndx].body = IF b \in Presents THEN b ELSE CorpsNul

TableSuit ==
  /\ Suit(ehdr.e_shstrndx, image.ehdr.e_shstrndx)
  /\ \A i \in DOMAIN shdr, o \in DOMAIN image.shdr :
       shdr[i].body = image.shdr[o].body =>
         /\ Suit(shdr[i].link, image.shdr[o].link)
         /\ HasSectionInfo(shdr[i]) => Suit(shdr[i].info, image.shdr[o].info)

(***************************************************************************)
(* The members of the section group still are the sections they were.      *)
(***************************************************************************)
GroupeSuit ==
  \A i \in DOMAIN shdr :
    shdr[i].name = Group =>
      \A w \in DOMAIN image.group[shdr[i].body] :
        Suit(group[shdr[i].body][w], image.group[shdr[i].body][w])

(***************************************************************************)
(* A symbol has moved by exactly the address its section carries, from the *)
(* first addr_charge to the executable, through removals and renumbering.  *)
(***************************************************************************)
ValeursSuivent ==
  \A k \in DOMAIN image.sym :
    LET s0 == image.sym[k] IN
    IF s0.shndx >= SHN_ABS THEN sym[k].value = s0.value
    ELSE \A i \in DOMAIN shdr :
           shdr[i].body = image.shdr[s0.shndx].body =>
             sym[k].value = (s0.value + shdr[i].addr) % Espace

(***************************************************************************)
(* Once relocation is over, every word of .text and .data is the one the   *)
(* final addresses call for (no step moves a symbol or a section after     *)
(* it), and a word without a relocation is untouched.                      *)
(***************************************************************************)
Reimplante ==
  etape \in {"supprime", "corrige", "executable", "fini"} =>
  \A i \in {j \in DOMAIN shdr : shdr[j].body \in DOMAIN contenu} :
    LET rels == {r \in DOMAIN image.shdr :
                   /\ AReimplanter(image.shdr[r])
                   /\ nom_section_correspondant(image.shdr[r].name) = shdr[i].name}
        b    == shdr[i].body
    IN  \A d \in DOMAIN image.contenu[b] :
          LET ici == {e \in UNION {ToSet(image.rel[image.shdr[r].body]) : r \in rels} :
                        e.offset = d}
          IN  IF ici = {} THEN contenu[b][d] = image.contenu[b][d]
              ELSE \A e \in ici :
                     contenu[b][d] = Attendu(image.contenu[b][d], e.type,
                                             sym[e.sym].value, shdr[i].addr + d)

(***************************************************************************)
(* What is removed, and only that: when main is done the relocation        *)
(* sections of the sections that were loaded are gone, every other section *)
(* is still there, in its old order; its header says the same size, and an *)
(* offset further on by the program headers that are written in front of   *)
(* the contents, as e_shoff is.  Only the null section stays where it was. *)
(***************************************************************************)
AOter(h) == \E t \in 0 .. MAXSIZE - 1 : h.name = get_nom_rel_corre(str_section[t])

SectionsExactes ==
  exe # NoExe =>
    /\ {exe.shdr[i].body : i \in DOMAIN exe.shdr} =
         {image.shdr[o].body : o \in {p \in DOMAIN image.shdr : ~AOter(image.shdr[p])}}
    /\ \A i, j \in DOMAIN exe.shdr, o, p \in DOMAIN image.shdr :
         /\ exe.shdr[i].body = image.shdr[o].body
         /\ exe.shdr[j].body = image.shdr[p].body
         /\ i < j
         => o < p
    /\ \A i \in DOMAIN exe.shdr, o \in DOMAIN image.shdr :
         exe.shdr[i].body = image.shdr[o].body =>
           /\ exe.shdr[i].size = image.shdr[o].size
           /\ exe.shdr[i].offset = image.shdr[o].offset
                                   + IF o = 0 THEN 0 ELSE TaillePhdr * Len(exe.segments)
    /\ exe.ehdr.e_shoff = image.ehdr.e_shoff + TaillePhdr * Len(exe.segments)

(***************************************************************************)
(* The executable: it starts at the address main has been given, the       *)
(* segment of the one-header branch holds all of .text and .data at the    *)
(* offsets of the new section table, and p_vaddr and p_offset agree modulo *)
(* p_align (the aim of the comment at Etap11.c:113).                       *)
(***************************************************************************)
ExecutableCorrect ==
  exe # NoExe =>
    /\ exe.ehdr.e_type = 2
    /\ \A k \in DOMAIN image.sym : image.sym[k].name = Main =>
         \A i \in DOMAIN exe.shdr :
           exe.shdr[i].body = image.shdr[image.sym[k].shndx].body =>
             exe.ehdr.e_entry = (image.sym[k].value + exe.shdr[i].addr) % Espace
    /\ Len(exe.segments) = 1 =>
         LET g == exe.segments[1] IN
         /\ g.vaddr % g.align = g.offset % g.align
         /\ \A i \in DOMAIN exe.shdr : exe.shdr[i].name \in {Text, Data} =>
              /\ g.offset <= exe.shdr[i].offset
              /\ exe.shdr[i].offset + exe.shdr[i].size <= g.offset + g.filesz

(***************************************************************************)
(* What is enough for main to succeed: an output, as many well-formed      *)
(* sections as its loops take and no other option; and a big-endian ELF    *)
(* file with the section names under their usual name and both symbol      *)
(* tables, none of them empty, a .group (if any) with bytes, relocation    *)
(* sections with entries and a target that has bytes, and a size that      *)
(* suits both copy loops.  Then no step exits, fails an assertion of its   *)
(* own or of a reader, follows a null pointer or reads a local nobody      *)
(* assigned, whatever order the sections are in and whichever of them the  *)
(* steps before have removed.                                              *)
(***************************************************************************)
LigneComplete ==
  /\ \E o \in DOMAIN argv : argv[o].opt = "o"
  /\ Cardinality({o \in DOMAIN argv : argv[o].opt = "s"}) = MAXSIZE
  /\ \A o \in DOMAIN argv : /\ argv[o].opt # "?"
                            /\ argv[o].opt = "s" => argv[o].valeur \notin {Inconnu, NULL}

FichierSain ==
  LET h == image.shdr IN
  /\ image.ouvrable /\ image.elf /\ image.flag
  /\ ~CopieEchoue(image.taille) /\ ~CopieEchoue(image.taille - TailleEhdr)
  /\ h[image.ehdr.e_shstrndx].name = Shstrtab
  /\ {Symtab, Strtab} \subseteq {h[i].name : i \in DOMAIN h}
  /\ \A i \in DOMAIN h : /\ h[i].name \in {Shstrtab, Symtab, Strtab, Group} => NonVide(h[i])
                         /\ h[i].name = Symtab => calcul_nombre_entrees(h[i])
  /\ \A r \in DOMAIN h : AReimplanter(h[r]) =>
       /\ EntreesLisibles(h[r])
       /\ LET c == chercher_index_de_section(h, nom_section_correspondant(h[r].name))
          IN  c # -1 /\ NonVide(h[c])

Reussite ==
  LigneComplete /\ FichierSain => etape \notin {"erreur", "abandon", "indefini"}

(***************************************************************************)
(* Symbol values are settled once relocation starts using them: no later   *)
(* step changes the value or the name of a symbol.                         *)
(***************************************************************************)
ValeursFigees ==
  [][etape \notin {"options", "charge"} =>
       \A k \in DOMAIN sym : /\ sym'[k].value = sym[k].value
                             /\ sym'[k].name = sym[k].name
                             /\ sym'[k].inverse = sym[k].inverse]_vars

(***************************************************************************)
(* main stops, or it is caught in PGCD because a program header begins     *)
(* with a section at address 0: the one of the first section when .text    *)
(* and .data share it, that of .text or that of .data otherwise.           *)
(***************************************************************************)
Termine ==
  \/ <>(etape \in Arrets)
  \/ <>[](etape = "boucle" /\ \E i \in Debuts(shdr) : shdr[i].addr = 0)

-----------------------------------------------------------------------------
(***************************************************************************)
(* What comments and documents of the project say of the program, and the  *)
(* code does not do.                                                       *)
(***************************************************************************)

(***************************************************************************)
(* Etap7.c:30: only the symbols of the removed section are passed over;    *)
(* the other symbols stay in the table.                                    *)
(***************************************************************************)
SymbolesGardes ==
  \A k \in DOMAIN image.sym :
    LET s0 == image.sym[k] IN
    (s0.shndx < SHN_ABS => image.shdr[s0.shndx].body \in Presents) =>
      \E m \in DOMAIN sym :
        /\ sym[m].name = s0.name
        /\ IF s0.shndx >= SHN_ABS THEN sym[m].shndx = s0.shndx
           ELSE Designe(sym[m].shndx, image.shdr[s0.shndx].body)
=============================================================================
