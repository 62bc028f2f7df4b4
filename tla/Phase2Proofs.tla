---------------------------- MODULE Phase2Proofs ----------------------------
(***************************************************************************)
(* The pipeline of Phase2, for object files, command lines and address     *)
(* spaces of any size: what proc_reimplants computes, that its tables stay *)
(* well-formed, and that what a section number means survives the removals *)
(* (the symbols, their values, the header table and the group follow their *)
(* sections).                                                              *)
(***************************************************************************)
EXTENDS Phase2, TLAPS, FiniteSetTheorems, WellFoundedInduction

(***************************************************************************)
(* The arithmetic of proc_reimplants against the ARM ELF rules, for every  *)
(* word and every pair of addresses.  Bas24 and Bas26 stay folded outside  *)
(* these few facts.                                                        *)
(***************************************************************************)
LEMMA Bases == Bas24 \in Nat \ {0} /\ Bas26 = 4 * Bas24
BY SMT DEF Bas24, Bas26

LEMMA ResteBorne ==
  ASSUME NEW x \in Int, NEW b \in Nat \ {0}
  PROVE  x % b \in 0 .. b - 1
BY SMT

LEMMA Quart == ASSUME NEW q \in Int PROVE ((4 * q) % Bas26) \div 4 = q % Bas24
BY SMT DEF Bas24, Bas26

LEMMA ResteSomme ==
  ASSUME NEW q \in Int, NEW i \in Int
  PROVE  /\ (i + (q % Bas24)) % Bas24 = (i + q) % Bas24
         /\ (q + (i - Bas24)) % Bas24 = (i + q) % Bas24
BY SMT DEF Bas24

LEMMA HautNul == ASSUME NEW q \in Int, q >= 0, q < Bas24
                 PROVE  q \div Bas24 = 0 /\ (q \div Bas24) % 256 = 0
BY SMT DEF Bas24

LEMMA EspaceGrand == Espace \in Nat /\ Espace >= Bas26
BY SMT, EspaceAssumption DEF Bas26

(***************************************************************************)
(* The masked and shifted distance of a branch is a 24-bit number.         *)
(***************************************************************************)
LEMMA MasqueBorne ==
  ASSUME NEW x \in Int
  PROVE  Masque(x) \in 0 .. Bas24 - 1
<1>1. x % Bas26 \in 0 .. Bas26 - 1
  BY Bases, ResteBorne
<1> QED
  BY <1>1, Bases DEF Masque

(***************************************************************************)
(* new_addr always is an address.                                          *)
(***************************************************************************)
LEMMA NouvelleAdresseBorne ==
  ASSUME NEW type, NEW func \in BOOLEAN, NEW S \in Adresse, NEW P \in Int,
         NEW ancien \in Adresse
  PROVE  NouvelleAdresse(type, func, S, P, ancien) \in Adresse
<1>1. S \in Int /\ 1 - P \in Int /\ S - P \in Int /\ 1 \in Adresse
  BY EspaceGrand, Bases DEF Adresse
<1>2. \A x \in Int : Masque(x) \in Adresse
  BY EspaceGrand, Bases, MasqueBorne DEF Adresse
<1>3. CASE type \in R_ARM_ABS
  BY <1>1, <1>3 DEF NouvelleAdresse
<1>4. CASE type \in R_ARM_JUMP /\ type \notin R_ARM_ABS
  BY <1>1, <1>2, <1>4 DEF NouvelleAdresse
<1>5. CASE type \notin R_ARM_JUMP /\ type \notin R_ARM_ABS
  BY <1>5 DEF NouvelleAdresse
<1> QED
  BY <1>3, <1>4, <1>5

(***************************************************************************)
(* Or-ing 0 into a byte changes nothing.                                   *)
(***************************************************************************)
LEMMA OuZero ==
  ASSUME NEW a \in 0 .. 255
  PROVE  OuOctet(a, 0) = a /\ OuOctet(0, a) = a
BY DEF OuOctet

(***************************************************************************)
(* R_ARM_CALL and R_ARM_JUMP24 to a symbol that is no STT_FUNC: when the   *)
(* target and the place are a whole number of instructions apart, the word *)
(* the code writes is the one the ARM ELF rule (S + A - P) asks for,       *)
(* whatever immediate, condition and opcode it held, forward or backward.  *)
(***************************************************************************)
THEOREM BrancheExacte ==
  ASSUME NEW mot \in Mot, NEW type \in R_ARM_JUMP, NEW S \in Adresse, NEW P \in Adresse,
         NEW ancien, (S - P) % 4 = 0
  PROVE  MotReimplante(mot, NouvelleAdresse(type, FALSE, S, P, ancien))
           = Attendu(mot, type, S, P)
<1> DEFINE m == Masque(S - P)
           i == Immediat(mot)
<1>1. S \in Int /\ P \in Int /\ mot.bas \in Int /\ mot.bas >= 0 /\ mot.haut \in 0 .. 255
  BY EspaceGrand, Bases DEF Adresse, Mot
<1>2. NouvelleAdresse(type, FALSE, S, P, ancien) = m
  BY DEF NouvelleAdresse, R_ARM_JUMP, R_ARM_ABS
<1>3. PICK q \in Int : S - P = 4 * q
  BY <1>1
<1>4. m = q % Bas24
  BY <1>3, Quart DEF Masque
<1>5. OuOctet(mot.haut, (m \div Bas24) % 256) = mot.haut
  <2>1. m \in 0 .. Bas24 - 1
    BY <1>1, MasqueBorne
  <2>2. (m \div Bas24) % 256 = 0
    <3> HIDE DEF m
    <3> QED
      BY <2>1, HautNul, Bases
  <2> QED
    BY <1>1, <2>2, OuZero
<1>6. i \in Int /\ (i = mot.bas \/ i = mot.bas - Bas24)
  BY <1>1, Bases DEF Immediat
<1>7. (S + 4 * i - P) \div 4 = q + i
  <2>1. S + 4 * i - P = 4 * (q + i)
    <3> HIDE DEF i
    <3> QED
      BY <1>1, <1>3, <1>6
  <2> HIDE DEF i
  <2> QED
    BY <2>1, <1>6
<1>8. (q + i) % Bas24 = (mot.bas + q) % Bas24
  <2> HIDE DEF i
  <2>1. CASE i = mot.bas
    BY <1>1, <2>1
  <2>2. CASE i = mot.bas - Bas24
    BY <1>1, <2>2, ResteSomme
  <2> QED
    BY <1>6, <2>1, <2>2
<1>9. (mot.bas + m) % Bas24 = ((S + 4 * i - P) \div 4) % Bas24
  <2>1. (mot.bas + m) % Bas24 = (mot.bas + q) % Bas24
    BY <1>1, <1>4, ResteSomme
  <2>2. @ = (q + i) % Bas24
    BY <1>8
  <2>3. @ = ((S + 4 * i - P) \div 4) % Bas24
    BY <1>7
  <2> QED
    BY <2>1, <2>2, <2>3
<1>10. mot = [haut |-> mot.haut, bas |-> mot.bas]
  BY DEF Mot
<1>11. Attendu(mot, type, S, P)
        = [haut |-> mot.haut, bas |-> ((S + 4 * i - P) \div 4) % Bas24]
  BY <1>10 DEF Attendu
<1> HIDE DEF i, m
<1> QED
  BY <1>2, <1>5, <1>9, <1>11 DEF MotReimplante

(***************************************************************************)
(* R_ARM_ABS32 (type 2): the word written is S + A as long as the sum of   *)
(* its low 24 bits and S stays below 2^24, whatever its top byte is.       *)
(***************************************************************************)
THEOREM AbsolueExacte ==
  ASSUME NEW mot \in Mot, NEW S \in Adresse, NEW P, NEW ancien,
         mot.bas + S < Bas24
  PROVE  MotReimplante(mot, NouvelleAdresse(2, FALSE, S, P, ancien))
           = Attendu(mot, 2, S, P)
<1>1. S \in Int /\ S >= 0 /\ mot.bas \in Int /\ mot.bas >= 0 /\ mot.haut \in 0 .. 255
  BY EspaceGrand, Bases DEF Adresse, Mot
<1>2. NouvelleAdresse(2, FALSE, S, P, ancien) = S /\ 2 \notin R_ARM_JUMP
  BY DEF NouvelleAdresse, R_ARM_JUMP, R_ARM_ABS
<1>3. (S \div Bas24) % 256 = 0 /\ (mot.bas + S) \div Bas24 = 0
  BY <1>1, HautNul, Bases
<1>4. OuOctet(mot.haut, (S \div Bas24) % 256) = mot.haut
  BY <1>1, <1>3, OuZero
<1>5. (mot.haut + (mot.bas + S) \div Bas24) % 256 = mot.haut
  BY <1>1, <1>3
<1> QED
  BY <1>2, <1>4, <1>5 DEF MotReimplante, Attendu

-----------------------------------------------------------------------------
(***************************************************************************)
(* A set of natural numbers that is not empty has a least element: the     *)
(* loop of chercher_index_de_section stops at a first hit.                 *)
(***************************************************************************)
LEMMA Premier ==
  ASSUME NEW T, T \subseteq Nat, T # {}
  PROVE  \E x \in T : \A y \in T : x <= y
<1>1. PICK x \in T : \A y \in T : ~(<<y, x>> \in OpToRel(<, Nat))
  BY NatLessThanWellFounded, WFMin, Zenon
<1>2. ASSUME NEW y \in T PROVE x <= y
  <2>1. x \in Nat /\ y \in Nat
    OBVIOUS
  <2>2. ~(y < x)
    BY <1>1, <2>1 DEF OpToRel
  <2> QED
    BY <2>1, <2>2
<1> QED
  BY <1>2

(***************************************************************************)
(* The look-up by name gives -1 exactly when no header has the name, and   *)
(* otherwise a header that has it.                                         *)
(***************************************************************************)
LEMMA Chercher ==
  ASSUME NEW n \in Nat, NEW tab, DOMAIN tab = 0 .. n - 1, NEW nom
  PROVE  LET r == chercher_index_de_section(tab, nom) IN
         \/ r = -1 /\ \A i \in DOMAIN tab : tab[i].name # nom
         \/ r \in 0 .. n - 1 /\ tab[r].name = nom
<1> DEFINE hits == {i \in DOMAIN tab : tab[i].name = nom}
<1>1. CASE hits = {}
  BY <1>1 DEF chercher_index_de_section
<1>2. CASE hits # {}
  <2>1. hits \subseteq Nat
    OBVIOUS
  <2>2. \E i \in hits : \A k \in hits : i <= k
    <3> HIDE DEF hits
    <3> QED
      BY <1>2, <2>1, Premier
  <2>3. chercher_index_de_section(tab, nom) = CHOOSE i \in hits : \A k \in hits : i <= k
    BY <1>2 DEF chercher_index_de_section
  <2>4. chercher_index_de_section(tab, nom) \in hits
    <3> HIDE DEF hits
    <3> QED
      BY <2>2, <2>3
  <2> QED
    BY <2>4
<1> QED
  BY <1>1, <1>2

(***************************************************************************)
(* An index other than the removed one still finds its section under its   *)
(* new number; the removed one becomes 0.                                  *)
(***************************************************************************)
LEMMA Renumero ==
  ASSUME NEW n \in Nat, NEW d \in 1 .. n - 1, NEW i \in 0 .. n - 1
  PROVE  LET j == renumero_index_section(i, d) IN
         /\ j \in 0 .. n - 2
         /\ i = d => j = 0
         /\ i # d => i = IF j < d THEN j ELSE j + 1
BY DEF renumero_index_section

(***************************************************************************)
(* A name made by get_nom_rel_corre begins with ".rel".                    *)
(***************************************************************************)
LEMMA NomRel ==
  ASSUME NEW nom \in Seq(STRING)
  PROVE  get_nom_rel_corre(nom) # <<>> /\ Head(get_nom_rel_corre(nom)) = ".rel"
BY DEF get_nom_rel_corre

-----------------------------------------------------------------------------

(***************************************************************************)
(* Every header still in the file is one of the object file's, unmoved in  *)
(* name, type and contents, and no contents has two headers.  The null     *)
(* section stays in front.                                                 *)
(***************************************************************************)
MemeSection(i, o) ==
  /\ shdr[i].body = image.shdr[o].body
  /\ shdr[i].name = image.shdr[o].name
  /\ shdr[i].type = image.shdr[o].type

CorpsOK ==
  /\ \A i \in DOMAIN shdr : \E o \in DOMAIN image.shdr : MemeSection(i, o)
  /\ \A i, j \in DOMAIN shdr : shdr[i].body = shdr[j].body => i = j
  /\ shdr[0].body = CorpsNul /\ shdr[0].name = <<>>

(***************************************************************************)
(* addr_charge has been through every name the later steps use, so none of *)
(* them is unassigned.                                                     *)
(***************************************************************************)
NomsConnus ==
  /\ etape \in {"reimplants", "supprime", "corrige", "executable"} =>
       \A t \in 0 .. MAXSIZE - 1 : str_section[t] \in Nom
  /\ etape = "charge" => \A t \in 0 .. tour - 1 : str_section[t] \in Nom
  /\ etape = "options" => tour = 0

(***************************************************************************)
(* The inductive invariant.  TypeOK alone is not inductive: that a removal *)
(* never hits the null section needs the names, and that a relocation      *)
(* entry refers to a symbol needs the identity of its section.             *)
(***************************************************************************)
IInv == TypeOK /\ CorpsOK /\ NomsConnus

(***************************************************************************)
(* The section numbers a symbol can hold.                                  *)
(***************************************************************************)
LEMMA Indices ==
  /\ SHN_ABS \in Nat /\ SHN_HIRESERVE \in Nat
  /\ 255 < SHN_ABS /\ SHN_ABS < SHN_HIRESERVE
BY SMT DEF SHN_ABS, SHN_HIRESERVE

LEMMA SymboleDImage ==
  ASSUME NEW n \in 1 .. 255, NEW s \in Symbole(n)
  PROVE  s \in SymboleLibre
<1>1. /\ s = [name |-> s.name, shndx |-> s.shndx, value |-> s.value,
              func |-> s.func, inverse |-> s.inverse]
      /\ s.name \in Nom /\ s.shndx \in Ndx(n) /\ s.value \in Adresse
      /\ s.func \in BOOLEAN /\ s.inverse \in BOOLEAN
  BY DEF Symbole
<1>2. s.shndx \in 0 .. SHN_HIRESERVE
  BY <1>1, Indices DEF Ndx
<1> QED
  BY <1>1, <1>2 DEF SymboleLibre

(***************************************************************************)
(* Main starts in the invariant.                                           *)
(***************************************************************************)
LEMMA InitIInv == Init => IInv
<1> SUFFICES ASSUME Init PROVE IInv
  OBVIOUS
<1>1. ImageOK(image) /\ argv \in Lignes
  BY ImagesAssumption DEF Init
<1>2. TypeOptions
  <2>1. argv \in Seq(Range(argv))
    BY <1>1, LignesAssumption
  <2>2. Len(argv) \in Nat
    BY <2>1
  <2>3. /\ str_section = [i \in 0 .. 1 |-> Inconnu]
        /\ adresse_donnee = [i \in 0 .. 1 |-> Inconnu]
    BY DEF Init, MAXSIZE
  <2>4. \A i \in 0 .. 1 : str_section[i] = Inconnu /\ adresse_donnee[i] = Inconnu
    BY <2>3
  <2>5. optind \in 0 .. Len(argv) /\ index \in 0 .. 2 /\ fp_sortie \in BOOLEAN
    <3>1. optind = 0 /\ index = 0 /\ fp_sortie = FALSE
      BY DEF Init
    <3>2. optind \in 0 .. Len(argv)
      BY <3>1, <2>2
    <3>3. index \in 0 .. 2
      BY <3>1
    <3> QED
      BY <3>1, <3>2, <3>3
  <2>6. 0 .. MAXSIZE - 1 = 0 .. 1 /\ 0 .. MAXSIZE = 0 .. 2
    BY DEF MAXSIZE
  <2> QED
    BY <1>1, <2>3, <2>4, <2>5, <2>6, Zenon DEF TypeOptions
<1>3. TypeTables
  <2>1. image.sym \in [DOMAIN image.sym -> SymboleLibre]
    <3>1. image.sym \in Seq(Symbole(image.ehdr.e_shnum)) /\ image.ehdr.e_shnum \in 1 .. 255
      BY <1>1 DEF ImageOK
    <3>2. ASSUME NEW k \in DOMAIN image.sym PROVE image.sym[k] \in SymboleLibre
      <4>1. image.sym[k] \in Symbole(image.ehdr.e_shnum)
        BY <3>1
      <4> QED
        BY <4>1, <3>1, SymboleDImage
    <3>3. image.sym = [k \in DOMAIN image.sym |-> image.sym[k]]
      BY <3>1
    <3> QED
      BY <3>2, <3>3
  <2>2. /\ ehdr \in [e_type : Nat, e_entry : Adresse, e_shoff : Nat, e_shnum : Nat,
                  e_shstrndx : Nat]
        /\ ehdr.e_shnum \in 1 .. image.ehdr.e_shnum
        /\ ehdr.e_shstrndx \in 0 .. ehdr.e_shnum - 1
    BY <1>1 DEF Init, ImageOK
  <2>3. /\ shdr \in [0 .. ehdr.e_shnum - 1 -> EnTete]
        /\ \A i \in DOMAIN shdr : /\ shdr[i].link \in DOMAIN shdr
                                  /\ HasSectionInfo(shdr[i]) => shdr[i].info \in DOMAIN shdr
    <3>1. shdr = image.shdr /\ ehdr = image.ehdr
      BY DEF Init
    <3>2. /\ image.shdr \in [0 .. image.ehdr.e_shnum - 1 -> EnTete]
          /\ DOMAIN image.shdr = 0 .. image.ehdr.e_shnum - 1
      BY <1>1 DEF ImageOK
    <3> QED
      BY <1>1, <3>1, <3>2 DEF ImageOK
  <2> QED
    BY <2>1, <2>2, <2>3 DEF Init, TypeTables
<1>4. TypeLocaux
  <2>1. image.ehdr.e_shnum \in 1 .. 255
    BY <1>1 DEF ImageOK
  <2> QED
    BY <2>1, EspaceGrand, Bases DEF Init, TypeLocaux, ImageOK, Etapes, MAXSIZE, Adresse
<1>5. CorpsOK
  BY <1>1 DEF Init, CorpsOK, MemeSection, CorpsNul, ImageOK
<1>6. NomsConnus
  BY DEF Init, NomsConnus
<1> QED
  BY <1>2, <1>3, <1>4, <1>5, <1>6 DEF IInv, TypeOK

(***************************************************************************)
(* What a step leaves alone keeps its part of the invariant.               *)
(***************************************************************************)
LEMMA Cadre ==
  /\ TypeOptions /\ UNCHANGED <<entree, options>> => TypeOptions'
  /\ TypeTables /\ UNCHANGED <<entree, ehdr, shdr, sym>> => TypeTables'
  /\ CorpsOK /\ UNCHANGED <<entree, shdr>> => CorpsOK'
<1>1. TypeOptions /\ UNCHANGED <<entree, options>> => TypeOptions'
  BY DEF TypeOptions, entree, options
<1>2. TypeTables /\ UNCHANGED <<entree, ehdr, shdr, sym>> => TypeTables'
  BY DEF TypeTables, entree
<1>3. CorpsOK /\ UNCHANGED <<entree, shdr>> => CorpsOK'
  BY DEF CorpsOK, MemeSection, CorpsNul, entree
<1> QED
  BY <1>1, <1>2, <1>3

(***************************************************************************)
(* main stops, or leaves the options for addr_charge.                      *)
(***************************************************************************)
LEMMA ArretIInv ==
  ASSUME IInv, etape \in Etapes, NEW fin, Arret(fin),
         fin \in Arrets \union {"boucle", "charge"},
         fin # "abandon" => etape # "corrige",
         fin = "charge" => etape = "options"
  PROVE  IInv'
<1>1. TypeOptions' /\ TypeTables' /\ CorpsOK'
  BY Cadre DEF IInv, TypeOK, Arret, tables
<1>2. TypeLocaux'
  <2>1. /\ etape' = fin
        /\ UNCHANGED <<tour, index_supprime, ri, rj, new_addr, ehdr, image>>
    BY DEF Arret, entree, tables, boucle
  <2>2. TypeLocaux
    BY DEF IInv, TypeOK
  <2>3. fin \in Etapes \union Arrets \union {"boucle"} /\ fin # "corrige"
    BY DEF Etapes, Arrets
  <2>4. index_supprime # -1 => fin = "abandon"
    BY <2>2, <2>3 DEF TypeLocaux, Etapes
  <2> QED
    BY <2>1, <2>2, <2>3, <2>4 DEF TypeLocaux
<1>3. NomsConnus'
  BY DEF IInv, NomsConnus, Arret, options, Arrets
<1> QED
  BY <1>1, <1>2, <1>3 DEF IInv, TypeOK

(***************************************************************************)
(* The options: -s gives a name, and an address when it is well-formed.    *)
(***************************************************************************)
LEMMA OptionSectionIInv == IInv /\ OptionSection => IInv'
<1> SUFFICES ASSUME IInv, OptionSection PROVE IInv'
  OBVIOUS
<1>1. etape = "options" /\ etape \in Etapes
  BY DEF OptionSection, Etapes
<1>2. CASE index >= MAXSIZE \/ argv[optind + 1].valeur = NULL
  <2>1. Arret("indefini")
    BY <1>2 DEF OptionSection
  <2> QED
    BY <1>1, <2>1, ArretIInv DEF Arrets
<1>3. CASE ~(index >= MAXSIZE \/ argv[optind + 1].valeur = NULL)
  <2> DEFINE o == argv[optind + 1]
  <2>1. TypeOptions /\ TypeTables /\ TypeLocaux /\ CorpsOK /\ NomsConnus
    BY DEF IInv, TypeOK
  <2>2. /\ optind' = optind + 1 /\ optind < Len(argv)
        /\ o.opt = "s"
        /\ str_section' = [str_section EXCEPT ![index] = o.nom]
        /\ UNCHANGED <<entree, fp_sortie, tables, etape, tour, index_supprime, boucle>>
        /\ \/ /\ o.valeur # Inconnu
              /\ adresse_donnee' = [adresse_donnee EXCEPT ![index] = o.valeur]
              /\ index' = index + 1
           \/ UNCHANGED <<adresse_donnee, index>>
    BY <1>3 DEF OptionSection, FormatValide
  <2>3. o.nom \in Nom /\ (o.valeur = Inconnu \/ o.valeur \in Adresse)
    <3>1. argv \in Lignes /\ argv \in Seq(Range(argv)) /\ optind \in 0 .. Len(argv)
      BY <2>1, LignesAssumption DEF TypeOptions
    <3>2. optind + 1 \in DOMAIN argv
      BY <2>2, <3>1
    <3>3. OptionOK(o)
      BY <3>1, <3>2, LignesAssumption
    <3> QED
      BY <1>3, <2>2, <3>3 DEF OptionOK
  <2>4. index \in 0 .. 1 /\ MAXSIZE = 2
    BY <1>3, <2>1 DEF TypeOptions, MAXSIZE
  <2>5. TypeOptions'
    <3>1. ImageOK(image)' /\ argv' \in Lignes /\ fp_sortie' \in BOOLEAN
      BY <2>1, <2>2 DEF TypeOptions, entree
    <3>2. optind' \in 0 .. Len(argv') /\ index' \in 0 .. MAXSIZE
      <4>1. argv \in Seq(Range(argv)) /\ Len(argv) \in Nat /\ argv' = argv
        BY <2>1, <2>2, LignesAssumption DEF TypeOptions, entree
      <4>2. optind \in 0 .. Len(argv)
        BY <2>1 DEF TypeOptions
      <4> QED
        BY <2>2, <2>4, <4>1, <4>2
    <3>3. /\ DOMAIN str_section' = 0 .. MAXSIZE - 1
          /\ DOMAIN adresse_donnee' = 0 .. MAXSIZE - 1
          /\ \A i \in 0 .. MAXSIZE - 1 :
               /\ str_section'[i] = Inconnu \/ str_section'[i] \in Nom
               /\ adresse_donnee'[i] = Inconnu \/ adresse_donnee'[i] \in Adresse
      <4> HIDE DEF o
      <4> QED
        BY <2>1, <2>2, <2>3, <2>4 DEF TypeOptions
    <3> QED
      BY <3>1, <3>2, <3>3 DEF TypeOptions
  <2>6. TypeTables' /\ CorpsOK'
    BY <2>1, <2>2, Cadre DEF tables
  <2>7. TypeLocaux'
    BY <2>1, <2>2 DEF TypeLocaux, entree, tables, boucle
  <2>8. NomsConnus'
    BY <1>1, <2>1, <2>2 DEF NomsConnus
  <2> QED
    BY <2>5, <2>6, <2>7, <2>8 DEF IInv, TypeOK
<1> QED
  BY <1>2, <1>3

(***************************************************************************)
(* -o: the copy is made, or its assertion fails.                           *)
(***************************************************************************)
LEMMA OptionSortieIInv == IInv /\ OptionSortie => IInv'
<1> SUFFICES ASSUME IInv, OptionSortie PROVE IInv'
  OBVIOUS
<1>1. etape = "options" /\ etape \in Etapes
  BY DEF OptionSortie, Etapes
<1>2. CASE CopieEchoue(image.taille)
  <2>1. Arret("abandon")
    BY <1>2 DEF OptionSortie
  <2> QED
    BY <1>1, <2>1, ArretIInv DEF Arrets
<1>3. CASE ~CopieEchoue(image.taille)
  <2>1. TypeOptions /\ TypeTables /\ TypeLocaux /\ CorpsOK /\ NomsConnus
    BY DEF IInv, TypeOK
  <2>2. /\ optind' = optind + 1 /\ optind < Len(argv) /\ fp_sortie' = TRUE
        /\ UNCHANGED <<entree, index, str_section, adresse_donnee,
                       tables, etape, tour, index_supprime, boucle>>
    BY <1>3 DEF OptionSortie
  <2>3. TypeOptions'
    <3>1. argv \in Seq(Range(argv)) /\ Len(argv) \in Nat /\ argv' = argv
      BY <2>1, <2>2, LignesAssumption DEF TypeOptions, entree
    <3>2. optind' \in 0 .. Len(argv')
      BY <2>1, <2>2, <3>1 DEF TypeOptions
    <3> QED
      BY <2>1, <2>2, <3>2 DEF TypeOptions, entree
  <2>4. TypeTables' /\ CorpsOK'
    BY <2>1, <2>2, Cadre DEF tables
  <2>5. TypeLocaux'
    BY <2>1, <2>2 DEF TypeLocaux, entree, tables, boucle
  <2>6. NomsConnus'
    BY <1>1, <2>1, <2>2 DEF NomsConnus
  <2> QED
    BY <2>3, <2>4, <2>5, <2>6 DEF IInv, TypeOK
<1> QED
  BY <1>2, <1>3

LEMMA ErreurOptionsIInv == IInv /\ ErreurOptions => IInv'
BY ArretIInv DEF ErreurOptions, Arrets, Etapes

LEMMA FinOptionsIInv == IInv /\ FinOptions => IInv'
<1> SUFFICES ASSUME IInv, FinOptions PROVE IInv'
  OBVIOUS
<1>1. etape = "options" /\ etape \in Etapes
  BY DEF FinOptions, Etapes
<1>2. Arret("erreur") \/ Arret("charge")
  BY DEF FinOptions
<1> QED
  BY <1>1, <1>2, ArretIInv DEF Arrets

(***************************************************************************)
(* A section found by name is in the table, and has the name.              *)
(***************************************************************************)
LEMMA SectionTrouvee ==
  ASSUME TypeTables, ImageOK(image), NEW nom
  PROVE  /\ Section(nom) = -1 \/ Section(nom) \in 0 .. ehdr.e_shnum - 1
         /\ Section(nom) # -1 => shdr[Section(nom)].name = nom
         /\ ehdr.e_shnum \in 1 .. 255
<1>1. ehdr.e_shnum \in 1 .. 255
  <2>1. image.ehdr.e_shnum \in 1 .. 255
    BY DEF ImageOK
  <2>2. ehdr.e_shnum \in 1 .. image.ehdr.e_shnum
    BY DEF TypeTables
  <2> QED
    BY <2>1, <2>2
<1>2. ehdr.e_shnum \in Nat /\ DOMAIN shdr = 0 .. ehdr.e_shnum - 1
  BY <1>1 DEF TypeTables
<1>3. LET r == chercher_index_de_section(shdr, nom) IN
         \/ r = -1 /\ \A i \in DOMAIN shdr : shdr[i].name # nom
         \/ r \in 0 .. ehdr.e_shnum - 1 /\ shdr[r].name = nom
  BY <1>2, Chercher
<1> QED
  BY <1>1, <1>3 DEF Section

LEMMA SymboleChargeType ==
  ASSUME NEW y \in SymboleLibre, NEW s, NEW addr \in Adresse
  PROVE  SymboleCharge(y, s, addr) \in SymboleLibre
<1>1. Espace \in Nat \ {0}
  BY EspaceAssumption
<1>2. y.value \in Adresse /\ DOMAIN y = {"name", "shndx", "value", "func", "inverse"}
  BY DEF SymboleLibre
<1>3. (y.value + addr) % Espace \in Adresse
  <2>1. y.value + addr \in Int
    BY <1>1, <1>2 DEF Adresse
  <2> QED
    BY <1>1, <2>1, ResteBorne DEF Adresse
<1>4. [y EXCEPT !.value = (@ + addr) % Espace] \in SymboleLibre
  <2> DEFINE v == (y.value + addr) % Espace
  <2>1. v \in Adresse
    BY <1>3
  <2>2. [y EXCEPT !.value = (@ + addr) % Espace] = [y EXCEPT !.value = v]
    OBVIOUS
  <2> HIDE DEF v
  <2> QED
    BY <2>1, <2>2 DEF SymboleLibre
<1> QED
  BY <1>4 DEF SymboleCharge

(***************************************************************************)
(* One turn of a loop of main.                                             *)
(***************************************************************************)
LEMMA SuivanteType ==
  ASSUME TypeLocaux, NEW suite, Suivante(suite)
  PROVE  /\ tour' \in 0 .. MAXSIZE - 1
         /\ \/ etape' = etape /\ tour' = tour + 1 /\ tour = 0
            \/ etape' = suite /\ tour' = 0 /\ tour = MAXSIZE - 1
BY DEF TypeLocaux, Suivante, MAXSIZE

(***************************************************************************)
(* addr_charge moves a section and its symbols; no index changes.          *)
(***************************************************************************)
LEMMA AddrChargeIInv == IInv /\ AddrCharge => IInv'
<1> SUFFICES ASSUME IInv, AddrCharge PROVE IInv'
  OBVIOUS
<1>1. /\ etape = "charge" /\ etape \in Etapes /\ tour \in 0 .. 1
      /\ TypeOptions /\ TypeTables /\ TypeLocaux /\ CorpsOK /\ NomsConnus
      /\ ImageOK(image)
  BY DEF AddrCharge, IInv, TypeOK, TypeLocaux, TypeOptions, Etapes, MAXSIZE
<1>2. CASE Arret("indefini")
  BY <1>1, <1>2, ArretIInv DEF Arrets
<1>3. CASE Arret("abandon")
  BY <1>1, <1>3, ArretIInv DEF Arrets
<1>4. CASE ~Arret("indefini") /\ ~Arret("abandon")
  <2> DEFINE s == Section(str_section[tour])
  <2>1. PICK addr \in IF adresse_donnee[tour] = Inconnu THEN Residus
                       ELSE {adresse_donnee[tour]} :
         /\ \/ UNCHANGED <<shdr, sym>>
            \/ /\ s # -1
               /\ shdr' = [shdr EXCEPT ![s].addr = addr]
               /\ sym' = [k \in DOMAIN sym |-> SymboleCharge(sym[k], s, addr)]
         /\ Suivante("reimplants")
         /\ UNCHANGED <<entree, options, ehdr, group, contenu, index_supprime, boucle, exe>>
    BY <1>4 DEF AddrCharge
  <2>2. addr \in Adresse
    BY <1>1, ResidusAssumption DEF TypeOptions, MAXSIZE
  <2>3. s = -1 \/ s \in 0 .. ehdr.e_shnum - 1
    BY <1>1, SectionTrouvee
  <2> HIDE DEF s
  <2>4. TypeOptions'
    BY <1>1, <2>1, Cadre
  <2>5. TypeTables' /\ CorpsOK'
    <3>1. CASE UNCHANGED <<shdr, sym>>
      BY <1>1, <2>1, <3>1, Cadre
    <3>2. CASE /\ s # -1
               /\ shdr' = [shdr EXCEPT ![s].addr = addr]
               /\ sym' = [k \in DOMAIN sym |-> SymboleCharge(sym[k], s, addr)]
      <4>1. /\ shdr' \in [0 .. ehdr.e_shnum - 1 -> EnTete] /\ DOMAIN shdr' = DOMAIN shdr
            /\ \A i \in DOMAIN shdr :
                 /\ shdr'[i].link = shdr[i].link /\ shdr'[i].info = shdr[i].info
                 /\ shdr'[i].type = shdr[i].type /\ shdr'[i].name = shdr[i].name
                 /\ shdr'[i].body = shdr[i].body
        BY <1>1, <2>2, <2>3, <3>2 DEF TypeTables, EnTete
      <4>2. sym' \in [DOMAIN image.sym -> SymboleLibre]
        BY <1>1, <2>2, <3>2, SymboleChargeType DEF TypeTables
      <4>3. image' = image /\ ehdr' = ehdr
        BY <2>1 DEF entree
      <4>4. TypeTables'
        BY <1>1, <4>1, <4>2, <4>3 DEF TypeTables, HasSectionInfo
      <4>5. 0 \in DOMAIN shdr
        BY <1>1, SectionTrouvee DEF TypeTables
      <4>6. CorpsOK'
        BY <1>1, <4>1, <4>3, <4>5 DEF CorpsOK, MemeSection, CorpsNul
      <4> QED
        BY <4>4, <4>6
    <3> QED
      BY <2>1, <3>1, <3>2
  <2>6. TypeLocaux' /\ NomsConnus'
    <3>1. /\ tour' \in 0 .. MAXSIZE - 1
          /\ \/ etape' = etape /\ tour' = tour + 1 /\ tour = 0
             \/ etape' = "reimplants" /\ tour' = 0 /\ tour = MAXSIZE - 1
      BY <1>1, <2>1, SuivanteType
    <3>2. index_supprime = -1
      BY <1>1 DEF TypeLocaux
    <3>3. TypeLocaux'
      BY <1>1, <2>1, <3>1, <3>2 DEF TypeLocaux, entree, boucle, Etapes
    <3>4. str_section[tour] \in Nom /\ str_section' = str_section
      <4>1. str_section[tour] # Inconnu
        BY <1>4 DEF AddrCharge
      <4> QED
        BY <1>1, <2>1, <4>1 DEF TypeOptions, MAXSIZE, options
    <3>5. NomsConnus'
      <4>1. \A t \in 0 .. tour : str_section'[t] \in Nom
        BY <1>1, <3>4 DEF NomsConnus
      <4>2. CASE etape' = etape /\ tour' = tour + 1 /\ tour = 0
        BY <1>1, <4>1, <4>2 DEF NomsConnus
      <4>3. CASE etape' = "reimplants" /\ tour' = 0 /\ tour = MAXSIZE - 1
        BY <4>1, <4>3 DEF NomsConnus
      <4> QED
        BY <3>1, <4>2, <4>3
    <3> QED
      BY <3>3, <3>5
  <2> QED
    BY <2>4, <2>5, <2>6 DEF IInv, TypeOK
<1> QED
  BY <1>2, <1>3, <1>4, Zenon

(***************************************************************************)
(* proc_reimplants: nothing but words, ri, rj and new_addr change.         *)
(***************************************************************************)
LEMMA PasseSectionIInv == IInv /\ PasseSection => IInv'
<1> SUFFICES ASSUME IInv, PasseSection PROVE IInv'
  OBVIOUS
<1>1. TypeOptions /\ TypeTables /\ TypeLocaux /\ CorpsOK /\ NomsConnus
  BY DEF IInv, TypeOK
<1>2. TypeOptions' /\ TypeTables' /\ CorpsOK'
  BY <1>1, Cadre DEF PasseSection, tables
<1>3. TypeLocaux'
  <2>1. ri \in 0 .. image.ehdr.e_shnum /\ ri < ehdr.e_shnum /\ ehdr.e_shnum \in 1 .. image.ehdr.e_shnum
        /\ image.ehdr.e_shnum \in Nat
    BY <1>1 DEF TypeLocaux, TypeTables, PasseSection, TypeOptions, ImageOK
  <2>2. ri' = ri + 1 /\ ri' \in 0 .. image.ehdr.e_shnum
    BY <2>1 DEF PasseSection
  <2> QED
    BY <1>1, <2>2 DEF TypeLocaux, PasseSection, entree, tables
<1>4. NomsConnus'
  BY <1>1 DEF NomsConnus, PasseSection, options
<1> QED
  BY <1>2, <1>3, <1>4 DEF IInv, TypeOK

LEMMA ReimplantEchoueIInv == IInv /\ ReimplantEchoue => IInv'
BY ArretIInv DEF ReimplantEchoue, Arrets, Etapes

LEMMA SectionReimplanteeIInv == IInv /\ SectionReimplantee => IInv'
<1> SUFFICES ASSUME IInv, SectionReimplantee PROVE IInv'
  OBVIOUS
<1>1. TypeOptions /\ TypeTables /\ TypeLocaux /\ CorpsOK /\ NomsConnus
  BY DEF IInv, TypeOK
<1>2. TypeOptions' /\ TypeTables' /\ CorpsOK'
  BY <1>1, Cadre DEF SectionReimplantee, tables
<1>3. TypeLocaux'
  <2>1. ri \in 0 .. image.ehdr.e_shnum /\ ri < ehdr.e_shnum /\ ehdr.e_shnum \in 1 .. image.ehdr.e_shnum
        /\ image.ehdr.e_shnum \in Nat
    BY <1>1 DEF TypeLocaux, TypeTables, SectionReimplantee, TypeOptions, ImageOK
  <2>2. ri' = ri + 1 /\ ri' \in 0 .. image.ehdr.e_shnum /\ rj' = 1
    BY <2>1 DEF SectionReimplantee
  <2> QED
    BY <1>1, <2>2 DEF TypeLocaux, SectionReimplantee, entree, tables
<1>4. NomsConnus'
  BY <1>1 DEF NomsConnus, SectionReimplantee, options
<1> QED
  BY <1>2, <1>3, <1>4 DEF IInv, TypeOK

LEMMA FinReimplantsIInv == IInv /\ FinReimplants => IInv'
<1> SUFFICES ASSUME IInv, FinReimplants PROVE IInv'
  OBVIOUS
<1>1. TypeOptions /\ TypeTables /\ TypeLocaux /\ CorpsOK /\ NomsConnus
  BY DEF IInv, TypeOK
<1>2. TypeOptions' /\ TypeTables' /\ CorpsOK'
  BY <1>1, Cadre DEF FinReimplants, tables
<1>3. TypeLocaux'
  BY <1>1 DEF TypeLocaux, FinReimplants, entree, tables, boucle, Etapes
<1>4. NomsConnus'
  BY <1>1 DEF NomsConnus, FinReimplants, options
<1> QED
  BY <1>2, <1>3, <1>4 DEF IInv, TypeOK

LEMMA ReimplanteEntreeIInv == IInv /\ ReimplanteEntree => IInv'
<1> SUFFICES ASSUME IInv, ReimplanteEntree PROVE IInv'
  OBVIOUS
<1>1. /\ TypeOptions /\ TypeTables /\ TypeLocaux /\ CorpsOK /\ NomsConnus
      /\ ImageOK(image)
  BY DEF IInv, TypeOK, TypeOptions
<1>2. TypeOptions' /\ TypeTables'
  <2>1. UNCHANGED <<entree, options, ehdr, shdr, sym>>
    BY DEF ReimplanteEntree
  <2> QED
    BY <1>1, <2>1, Cadre
<1>3. CorpsOK'
  BY <1>1, Cadre DEF ReimplanteEntree
<1>4. new_addr' \in Adresse
  <2> DEFINE r == Entrees[rj]
  <2>1. ri \in DOMAIN shdr /\ shdr[ri].type = SHT_REL
    BY <1>1 DEF ReimplanteEntree, AReimplanter, TypeLocaux, TypeTables
  <2>2. PICK o \in DOMAIN image.shdr : MemeSection(ri, o)
    BY <1>1, <2>1 DEF CorpsOK
  <2>3. Entrees \in Seq([offset : Nat, type : Nat, sym : DOMAIN image.sym])
    <3>1. image.shdr[o].type = SHT_REL /\ Entrees = image.rel[image.shdr[o].body]
      BY <2>1, <2>2 DEF MemeSection, Entrees
    <3>2. o \in 0 .. image.ehdr.e_shnum - 1
      BY <1>1 DEF ImageOK
    <3> QED
      BY <1>1, <3>1, <3>2 DEF ImageOK
  <2>4. rj \in DOMAIN Entrees
    BY <1>1, <2>3 DEF ReimplanteEntree, TypeLocaux
  <2>5. r \in [offset : Nat, type : Nat, sym : DOMAIN image.sym]
    <3> DEFINE T == [offset : Nat, type : Nat, sym : DOMAIN image.sym]
               e == Entrees
    <3>1. e \in Seq(T) /\ rj \in DOMAIN e
      BY <2>3, <2>4
    <3> HIDE DEF T, e
    <3>2. e[rj] \in T
      BY <3>1
    <3> QED
      BY <3>2 DEF T, e
  <2>6. sym[r.sym] \in SymboleLibre
    BY <1>1, <2>5 DEF TypeTables
  <2>7. sym[r.sym].func \in BOOLEAN /\ sym[r.sym].value \in Adresse
    BY <2>6 DEF SymboleLibre
  <2>8. shdr[Cible].addr + r.offset \in Int
    <3>1. Cible \in 0 .. ehdr.e_shnum - 1
      <4>1. Cible # -1
        BY DEF ReimplanteEntree, Reimplantable
      <4> QED
        BY <1>1, <4>1, SectionTrouvee DEF Cible
    <3>2. shdr[Cible] \in EnTete
      BY <1>1, <3>1 DEF TypeTables
    <3>3. shdr[Cible].addr \in Int
      BY <3>2, EspaceGrand DEF EnTete, Adresse
    <3> QED
      BY <2>5, <3>3
  <2>9. new_addr' = NouvelleAdresse(r.type, sym[r.sym].func, sym[r.sym].value,
                                    shdr[Cible].addr + r.offset, new_addr)
    BY DEF ReimplanteEntree
  <2>10. new_addr \in Adresse
    BY <1>1 DEF TypeLocaux
  <2> HIDE DEF r
  <2> QED
    BY <2>7, <2>8, <2>9, <2>10, NouvelleAdresseBorne
<1>5. TypeLocaux'
  BY <1>1, <1>4 DEF TypeLocaux, ReimplanteEntree, entree
<1>6. NomsConnus'
  BY <1>1 DEF NomsConnus, ReimplanteEntree, options
<1> QED
  BY <1>2, <1>3, <1>5, <1>6 DEF IInv, TypeOK

(***************************************************************************)
(* The table without section x.  Its entries are those of the old table,   *)
(* renumbered, and x is never the null section.                            *)
(***************************************************************************)
Ancien(i, x) == IF i < x THEN i ELSE i + 1   \* the old number of entry i

LEMMA HeaderAfterType ==
  ASSUME NEW n \in 2 .. 255, NEW x \in 1 .. n - 1, NEW h \in EnTete,
         h.link \in 0 .. n - 1, HasSectionInfo(h) => h.info \in 0 .. n - 1
  PROVE  LET g == HeaderAfter(h, x) IN
         /\ g \in EnTete
         /\ g.link = renumero_index_section(h.link, x) /\ g.link \in 0 .. n - 2
         /\ HasSectionInfo(g) <=> HasSectionInfo(h)
         /\ HasSectionInfo(g) => /\ g.info = renumero_index_section(h.info, x)
                                 /\ g.info \in 0 .. n - 2
         /\ g.body = h.body /\ g.name = h.name /\ g.type = h.type /\ g.addr = h.addr
<1> DEFINE l == renumero_index_section(h.link, x)
           f == IF HasSectionInfo(h) THEN renumero_index_section(h.info, x) ELSE h.info
           g == [h EXCEPT !.link = l, !.info = f]
<1>1. HeaderAfter(h, x) = g
  BY DEF HeaderAfter
<1>2. l \in 0 .. n - 2 /\ l \in Nat
  BY DEF renumero_index_section
<1>3. f \in Nat /\ (HasSectionInfo(h) => f \in 0 .. n - 2)
  <2>1. CASE HasSectionInfo(h)
    BY <2>1 DEF renumero_index_section
  <2>2. CASE ~HasSectionInfo(h)
    BY <2>2 DEF EnTete
  <2> QED
    BY <2>1, <2>2
<1>4. HasSectionInfo(h) => f = renumero_index_section(h.info, x)
  OBVIOUS
<1>5. l = renumero_index_section(h.link, x)
  OBVIOUS
<1> HIDE DEF l, f
<1>6. g \in EnTete /\ g.link = l /\ g.info = f
  BY <1>2, <1>3 DEF EnTete
<1>7. g.body = h.body /\ g.name = h.name /\ g.type = h.type /\ g.addr = h.addr
  BY DEF EnTete
<1>8. HasSectionInfo(g) <=> HasSectionInfo(h)
  BY <1>7 DEF HasSectionInfo
<1> HIDE DEF g
<1> QED
  BY <1>1, <1>2, <1>3, <1>4, <1>5, <1>6, <1>7, <1>8

LEMMA AncienFaits ==
  ASSUME NEW n \in 2 .. 255, NEW x \in 1 .. n - 1, NEW i \in 0 .. n - 2
  PROVE  /\ Ancien(i, x) \in 0 .. n - 1 /\ Ancien(i, x) # x
         /\ i = 0 => Ancien(i, x) = 0
         /\ i = IF Ancien(i, x) < x THEN Ancien(i, x) ELSE Ancien(i, x) - 1
         /\ \A k \in 0 .. n - 2 : Ancien(i, x) = Ancien(k, x) => i = k
BY DEF Ancien

LEMMA Retrait ==
  ASSUME TypeTables, ImageOK(image), NEW x \in 1 .. ehdr.e_shnum - 1,
         NEW tab, tab = TableAfter(shdr, ehdr.e_shnum, x)
  PROVE  /\ ehdr.e_shnum \in 2 .. 255
         /\ tab \in [0 .. ehdr.e_shnum - 2 -> EnTete] /\ DOMAIN tab = 0 .. ehdr.e_shnum - 2
         /\ \A i \in 0 .. ehdr.e_shnum - 2 :
              LET h == shdr[Ancien(i, x)] IN
              /\ tab[i].link = renumero_index_section(h.link, x)
              /\ tab[i].link \in 0 .. ehdr.e_shnum - 2
              /\ HasSectionInfo(tab[i]) <=> HasSectionInfo(h)
              /\ HasSectionInfo(tab[i]) => /\ tab[i].info = renumero_index_section(h.info, x)
                                           /\ tab[i].info \in 0 .. ehdr.e_shnum - 2
              /\ tab[i].body = h.body /\ tab[i].name = h.name
              /\ tab[i].type = h.type /\ tab[i].addr = h.addr
<1> DEFINE n == ehdr.e_shnum
<1>1. n \in 2 .. 255
  <2>1. n \in 1 .. 255
    BY SectionTrouvee
  <2> QED
    BY <2>1
<1>2. tab = [i \in 0 .. n - 2 |-> HeaderAfter(shdr[Ancien(i, x)], x)]
  BY DEF TableAfter, Ancien
<1>3. ASSUME NEW i \in 0 .. n - 2
      PROVE  LET h == shdr[Ancien(i, x)] IN
              /\ tab[i] \in EnTete
              /\ tab[i].link = renumero_index_section(h.link, x)
              /\ tab[i].link \in 0 .. n - 2
              /\ HasSectionInfo(tab[i]) <=> HasSectionInfo(h)
              /\ HasSectionInfo(tab[i]) => /\ tab[i].info = renumero_index_section(h.info, x)
                                           /\ tab[i].info \in 0 .. n - 2
              /\ tab[i].body = h.body /\ tab[i].name = h.name
              /\ tab[i].type = h.type /\ tab[i].addr = h.addr
  <2> DEFINE j == Ancien(i, x)
             h == shdr[j]
  <2>1. j \in 0 .. n - 1
    BY <1>1, <1>3, AncienFaits
  <2>2. tab[i] = HeaderAfter(h, x)
    BY <1>2, <1>3
  <2>3. h \in EnTete /\ h.link \in 0 .. n - 1 /\ (HasSectionInfo(h) => h.info \in 0 .. n - 1)
    BY <2>1 DEF TypeTables
  <2> HIDE DEF n, h
  <2>4. LET g == HeaderAfter(h, x) IN
         /\ g \in EnTete
         /\ g.link = renumero_index_section(h.link, x) /\ g.link \in 0 .. n - 2
         /\ HasSectionInfo(g) <=> HasSectionInfo(h)
         /\ HasSectionInfo(g) => /\ g.info = renumero_index_section(h.info, x)
                                 /\ g.info \in 0 .. n - 2
         /\ g.body = h.body /\ g.name = h.name /\ g.type = h.type /\ g.addr = h.addr
    <3>1. x \in 1 .. n - 1
      BY DEF n
    <3> QED
      BY <1>1, <2>3, <3>1, HeaderAfterType
  <2> QED
    BY <2>2, <2>4 DEF h
<1> QED
  BY <1>1, <1>2, <1>3

(***************************************************************************)
(* Once addr_charge is through, the section to remove is never the null    *)
(* section: its name begins with ".rel".                                   *)
(***************************************************************************)
LEMMA RetireNonNulle ==
  ASSUME IInv, etape = "supprime", NEW x,
         x = Section(get_nom_rel_corre(str_section[tour])), x # -1
  PROVE  /\ x \in 1 .. ehdr.e_shnum - 1
         /\ shdr[x].name # <<>> /\ Head(shdr[x].name) = ".rel"
<1>1. TypeOptions /\ TypeTables /\ TypeLocaux /\ CorpsOK /\ NomsConnus /\ ImageOK(image)
  BY DEF IInv, TypeOK, TypeOptions
<1>2. str_section[tour] \in Seq(STRING)
  BY <1>1 DEF NomsConnus, TypeLocaux, Nom
<1>3. /\ x \in 0 .. ehdr.e_shnum - 1
      /\ shdr[x].name = get_nom_rel_corre(str_section[tour])
      /\ ehdr.e_shnum \in 1 .. 255
  BY <1>1, SectionTrouvee
<1>4. shdr[x].name # <<>> /\ Head(shdr[x].name) = ".rel"
  BY <1>2, <1>3, NomRel
<1>5. x # 0
  BY <1>1, <1>4 DEF CorpsOK
<1> QED
  BY <1>3, <1>4, <1>5

(***************************************************************************)
(* supprimer_une_section keeps the tables well-formed.                     *)
(***************************************************************************)
LEMMA SupprimerIInv == IInv /\ SupprimerUneSection => IInv'
<1> SUFFICES ASSUME IInv, SupprimerUneSection PROVE IInv'
  OBVIOUS
<1> DEFINE x == Section(get_nom_rel_corre(str_section[tour]))
           n == ehdr.e_shnum
<1>1. /\ TypeOptions /\ TypeTables /\ TypeLocaux /\ CorpsOK /\ NomsConnus
      /\ ImageOK(image) /\ etape = "supprime"
  BY DEF IInv, TypeOK, TypeOptions, SupprimerUneSection
<1>2. CASE x = -1 /\ ~Arret("abandon")
  <2>1. Suivante("executable") /\ UNCHANGED <<entree, options, tables, index_supprime, boucle>>
    BY <1>2 DEF SupprimerUneSection
  <2>2. TypeOptions' /\ TypeTables' /\ CorpsOK'
    BY <1>1, <2>1, Cadre DEF tables
  <2>3. TypeLocaux'
    <3>1. tour' \in 0 .. MAXSIZE - 1 /\ (etape' = etape \/ etape' = "executable")
      BY <1>1, <2>1, SuivanteType
    <3>2. index_supprime = -1
      BY <1>1 DEF TypeLocaux
    <3> QED
      BY <1>1, <2>1, <3>1, <3>2 DEF TypeLocaux, entree, tables, boucle, Etapes
  <2>4. NomsConnus'
    <3>1. etape' = "supprime" \/ etape' = "executable"
      BY <1>1, <2>1, SuivanteType
    <3> QED
      BY <1>1, <2>1, <3>1 DEF NomsConnus, options
  <2> QED
    BY <2>2, <2>3, <2>4 DEF IInv, TypeOK
<1>3. CASE x # -1 /\ ~Arret("abandon")
  <2>1. /\ ehdr' = [ehdr EXCEPT !.e_shstrndx = renumero_index_section(@, x), !.e_shnum = @ - 1]
        /\ shdr' = TableAfter(shdr, n, x)
        /\ index_supprime' = x /\ etape' = "corrige"
        /\ UNCHANGED <<entree, options, sym, contenu, tour, boucle>>
    BY <1>3 DEF SupprimerUneSection
  <2>2. x \in 1 .. n - 1
    BY <1>1, <1>3, RetireNonNulle
  <2> HIDE DEF x
  <2>3. /\ n \in 2 .. 255
        /\ shdr' \in [0 .. n - 2 -> EnTete] /\ DOMAIN shdr' = 0 .. n - 2
        /\ \A i \in 0 .. n - 2 :
              LET h == shdr[Ancien(i, x)] IN
              /\ shdr'[i].link = renumero_index_section(h.link, x)
              /\ shdr'[i].link \in 0 .. n - 2
              /\ HasSectionInfo(shdr'[i]) <=> HasSectionInfo(h)
              /\ HasSectionInfo(shdr'[i]) => /\ shdr'[i].info = renumero_index_section(h.info, x)
                                             /\ shdr'[i].info \in 0 .. n - 2
              /\ shdr'[i].body = h.body /\ shdr'[i].name = h.name
              /\ shdr'[i].type = h.type /\ shdr'[i].addr = h.addr
    BY <1>1, <2>1, <2>2, Retrait
  <2>31. n \in 2 .. 255
    BY <2>3
  <2>4. TypeOptions'
    BY <1>1, <2>1, Cadre
  <2>5. TypeTables'
    <3>1. image' = image /\ sym' = sym
      BY <2>1 DEF entree
    <3>2. ehdr \in [e_type : Nat, e_entry : Adresse, e_shoff : Nat, e_shnum : Nat,
                  e_shstrndx : Nat]
          /\ ehdr.e_shstrndx \in 0 .. n - 1 /\ n \in 1 .. image.ehdr.e_shnum
      BY <1>1 DEF TypeTables
    <3>3. renumero_index_section(ehdr.e_shstrndx, x) \in 0 .. n - 2
      BY <2>2, <2>3, <3>2 DEF renumero_index_section
    <3>4. /\ ehdr'.e_shnum = n - 1 /\ ehdr'.e_shstrndx = renumero_index_section(ehdr.e_shstrndx, x)
          /\ ehdr' \in [e_type : Nat, e_entry : Adresse, e_shoff : Nat, e_shnum : Nat,
                  e_shstrndx : Nat]
      <4> DEFINE r == renumero_index_section(ehdr.e_shstrndx, x)
      <4>1. r \in Nat /\ n - 1 \in Nat
        BY <2>31, <3>3
      <4>2. ehdr' = [ehdr EXCEPT !.e_shstrndx = r, !.e_shnum = n - 1]
        BY <2>1
      <4> HIDE DEF r
      <4> QED
        BY <3>2, <4>1, <4>2 DEF r
    <3>5. ehdr'.e_shnum \in 1 .. image'.ehdr.e_shnum /\ ehdr'.e_shnum - 1 = n - 2
      <4>1. image.ehdr.e_shnum \in 1 .. 255
        BY <1>1 DEF ImageOK
      <4>2. ehdr'.e_shnum = n - 1 /\ n \in 1 .. image.ehdr.e_shnum
        BY <3>2, <3>4
      <4> HIDE DEF n
      <4>3. PICK a, b : a = image.ehdr.e_shnum /\ b = ehdr'.e_shnum
        OBVIOUS
      <4>4. image'.ehdr.e_shnum = a
        BY <3>1, <4>3
      <4>5. a \in Nat /\ b = n - 1 /\ n \in 1 .. a
        BY <4>1, <4>2, <4>3
      <4>6. b \in 1 .. a /\ b - 1 = n - 2
        BY <2>31, <4>5
      <4> QED
        BY <4>3, <4>4, <4>6
    <3>6. sym' \in [DOMAIN image'.sym -> SymboleLibre]
      BY <1>1, <3>1 DEF TypeTables
    <3> HIDE DEF n
    <3> QED
      BY <2>3, <3>3, <3>4, <3>5, <3>6 DEF TypeTables
  <2>6. CorpsOK'
    <3>1. \A i \in 0 .. n - 2 : Ancien(i, x) \in DOMAIN shdr
      <4>1. DOMAIN shdr = 0 .. n - 1
        BY <1>1 DEF TypeTables
      <4> HIDE DEF n
      <4>2. \A i \in 0 .. n - 2 : Ancien(i, x) \in 0 .. n - 1
        BY <2>2, <2>31, AncienFaits
      <4> QED
        BY <4>1, <4>2
    <3>2. image' = image
      BY <2>1 DEF entree
    <3> HIDE DEF n
    <3>3. \A i \in DOMAIN shdr' : \E o \in DOMAIN image.shdr :
            /\ shdr'[i].body = image.shdr[o].body
            /\ shdr'[i].name = image.shdr[o].name
            /\ shdr'[i].type = image.shdr[o].type
      BY <1>1, <2>3, <3>1 DEF CorpsOK, MemeSection
    <3>4. ASSUME NEW i \in DOMAIN shdr', NEW k \in DOMAIN shdr', shdr'[i].body = shdr'[k].body
          PROVE  i = k
      <4>1. Ancien(i, x) = Ancien(k, x)
        BY <1>1, <2>3, <3>1, <3>4 DEF CorpsOK
      <4>2. i \in 0 .. n - 2 /\ k \in 0 .. n - 2
        BY <2>3
      <4> QED
        BY <2>2, <2>31, <4>1, <4>2 DEF Ancien
    <3>5. shdr'[0].body = CorpsNul /\ shdr'[0].name = <<>>
      <4>1. Ancien(0, x) = 0 /\ 0 \in 0 .. n - 2
        BY <2>2, <2>31 DEF Ancien
      <4> QED
        BY <1>1, <2>3, <4>1 DEF CorpsOK
    <3> QED
      BY <3>2, <3>3, <3>4, <3>5 DEF CorpsOK, MemeSection, CorpsNul
  <2>7. TypeLocaux'
    <3>1. index_supprime' \in -1 .. ehdr'.e_shnum /\ index_supprime' # 0 /\ index_supprime' # -1
      <4>1. ehdr'.e_shnum = n - 1
        BY <1>1, <2>1 DEF TypeTables
      <4> QED
        BY <2>1, <2>2, <2>3, <4>1
    <3> QED
      BY <1>1, <2>1, <3>1 DEF TypeLocaux, entree, boucle, Etapes
  <2>8. NomsConnus'
    BY <1>1, <2>1 DEF NomsConnus, options
  <2> QED
    BY <2>4, <2>5, <2>6, <2>7, <2>8 DEF IInv, TypeOK
<1>4. CASE Arret("abandon")
  BY <1>1, <1>4, ArretIInv DEF Arrets, Etapes
<1> QED
  BY <1>2, <1>3, <1>4

(***************************************************************************)
(* corrige_ndx and the executable.                                         *)
(***************************************************************************)
LEMMA Swap16Borne ==
  ASSUME NEW v \in Nat, v <= SHN_HIRESERVE
  PROVE  Swap16(v) \in Nat /\ Swap16(v) <= SHN_HIRESERVE
BY SMT DEF Swap16, SHN_HIRESERVE

LEMMA SymboleReluType ==
  ASSUME NEW s \in SymboleLibre, index_supprime \in Nat
  PROVE  SymboleCorrige(SymboleLu(s)) \in SymboleLibre
<1>1. ASSUME NEW y \in SymboleLibre, NEW v \in 0 .. SHN_HIRESERVE
      PROVE  [y EXCEPT !.shndx = v] \in SymboleLibre
  BY <1>1 DEF SymboleLibre
<1>2. ASSUME NEW y \in SymboleLibre PROVE SymboleCorrige(y) \in SymboleLibre
  <2>1. y.shndx \in 0 .. SHN_HIRESERVE
    BY <1>2 DEF SymboleLibre
  <2>2. CASE y.shndx > index_supprime /\ y.shndx < SHN_ABS
    <3>1. y.shndx - 1 \in 0 .. SHN_HIRESERVE
      BY <2>1, <2>2, Indices
    <3>2. SymboleCorrige(y) = [y EXCEPT !.shndx = y.shndx - 1]
      BY <2>2 DEF SymboleCorrige
    <3> QED
      BY <1>1, <1>2, <3>1, <3>2
  <2>3. CASE ~(y.shndx > index_supprime /\ y.shndx < SHN_ABS)
    BY <1>2, <2>3 DEF SymboleCorrige
  <2> QED
    BY <2>2, <2>3
<1>3. SymboleLu(s) \in SymboleLibre
  <2>1. /\ s = [name |-> s.name, shndx |-> s.shndx, value |-> s.value,
                func |-> s.func, inverse |-> s.inverse]
        /\ s.name \in Nom /\ s.shndx \in 0 .. SHN_HIRESERVE /\ s.value \in Adresse
        /\ s.func \in BOOLEAN
    BY DEF SymboleLibre
  <2>2. Swap16(s.shndx) \in 0 .. SHN_HIRESERVE
    <3>1. s.shndx \in Nat /\ s.shndx <= SHN_HIRESERVE
      BY <2>1, Indices
    <3> QED
      BY <3>1, Swap16Borne
  <2>3. CASE ~image.flag
    <3>1. SymboleLu(s) = [name |-> s.name, shndx |-> Swap16(s.shndx), value |-> s.value,
                          func |-> s.func, inverse |-> ~s.inverse]
      BY <2>1, <2>3 DEF SymboleLu
    <3>2. (~s.inverse) \in BOOLEAN
      OBVIOUS
    <3> QED
      BY <2>1, <2>2, <3>1, <3>2 DEF SymboleLibre
  <2>4. CASE image.flag
    BY <2>4 DEF SymboleLu
  <2> QED
    BY <2>3, <2>4
<1> QED
  BY <1>2, <1>3

(***************************************************************************)
(* Gardes counts symbols; it is all of them when none is in the removed    *)
(* section.                                                                *)
(***************************************************************************)
LEMMA GardesCompte ==
  ASSUME TypeTables, ImageOK(image)
  PROVE  /\ Gardes \in Nat /\ DOMAIN sym \subseteq Nat
         /\ (\A k \in DOMAIN sym : sym[k].shndx # index_supprime)
              => \A k \in DOMAIN sym : k <= Gardes
<1> DEFINE G == {k \in DOMAIN sym : sym[k].shndx # index_supprime}
<1>1. image.sym \in Seq(Symbole(image.ehdr.e_shnum))
  BY DEF ImageOK
<1>2. DOMAIN sym = 1 .. Len(image.sym) /\ Len(image.sym) \in Nat
  BY <1>1 DEF TypeTables
<1>3. /\ IsFiniteSet(DOMAIN sym)
      /\ Cardinality(DOMAIN sym) = IF 1 > Len(image.sym) THEN 0 ELSE Len(image.sym) - 1 + 1
  <2>1. PICK l : l = Len(image.sym)
    OBVIOUS
  <2>2. l \in Int /\ 1 \in Int /\ DOMAIN sym = 1 .. l
    BY <1>2, <2>1
  <2> QED
    BY <2>1, <2>2, FS_Interval
<1>4. IsFiniteSet(G) /\ Cardinality(G) \in Nat
  <2>1. G \in SUBSET DOMAIN sym
    OBVIOUS
  <2> HIDE DEF G
  <2> QED
    BY <1>3, <2>1, FS_Subset, FS_CardinalityType
<1>5. ASSUME \A k \in DOMAIN sym : sym[k].shndx # index_supprime, NEW k \in DOMAIN sym
      PROVE  k <= Cardinality(G)
  <2>1. G = DOMAIN sym
    BY <1>5
  <2> HIDE DEF G
  <2>2. k \in 1 .. Len(image.sym)
    BY <1>2, <1>5
  <2> QED
    BY <1>2, <1>3, <2>1, <2>2
<1> QED
  BY <1>2, <1>4, <1>5 DEF Gardes

LEMMA CorrigeIInv == IInv /\ CorrigeNdx => IInv'
<1> SUFFICES ASSUME IInv, CorrigeNdx PROVE IInv'
  OBVIOUS
<1>1. /\ TypeOptions /\ TypeTables /\ TypeLocaux /\ CorpsOK /\ NomsConnus
      /\ ImageOK(image) /\ etape = "corrige" /\ etape \in Etapes
  BY DEF IInv, TypeOK, TypeOptions, CorrigeNdx, Etapes
<1>2. CASE ~TablesLues
  <2>1. Arret("abandon")
    BY <1>2 DEF CorrigeNdx
  <2> QED
    BY <1>1, <2>1, ArretIInv DEF Arrets
<1>3. CASE TablesLues
  <2>1. PICK residus \in [{k \in DOMAIN sym : k > Gardes} -> SymResidus] :
          sym' = [k \in DOMAIN sym |->
                    IF k <= Gardes THEN SymboleCorrige(SymboleLu(sym[k])) ELSE residus[k]]
    BY <1>3 DEF CorrigeNdx
  <2>2. /\ index_supprime' = -1
        /\ \/ tour + 1 < MAXSIZE /\ etape' = "supprime" /\ tour' = tour + 1
           \/ etape' = "executable" /\ tour' = 0
        /\ UNCHANGED <<entree, options, ehdr, shdr, group, contenu, boucle, exe>>
    BY <1>3 DEF CorrigeNdx
  <2>3. TypeOptions' /\ CorpsOK'
    BY <1>1, <2>2, Cadre
  <2>4. TypeTables'
    <3>1. index_supprime \in Nat
      BY <1>1, SectionTrouvee DEF TypeLocaux
    <3>2. ASSUME NEW k \in DOMAIN sym PROVE sym'[k] \in SymboleLibre
      <4>1. CASE k <= Gardes
        <5>1. sym[k] \in SymboleLibre
          BY <1>1, <3>2 DEF TypeTables
        <5>2. sym'[k] = SymboleCorrige(SymboleLu(sym[k]))
          BY <2>1, <3>2, <4>1
        <5> QED
          BY <3>1, <5>1, <5>2, SymboleReluType
      <4>2. CASE ~(k <= Gardes)
        <5>1. k > Gardes
          BY <1>1, <3>2, <4>2, GardesCompte
        <5>2. sym'[k] = residus[k] /\ residus[k] \in SymResidus
          BY <2>1, <3>2, <4>2, <5>1
        <5> QED
          BY <5>2, ResidusAssumption
      <4> QED
        BY <4>1, <4>2
    <3>3. DOMAIN sym' = DOMAIN sym /\ sym' = [k \in DOMAIN sym |-> sym'[k]]
      BY <2>1
    <3>4. sym' \in [DOMAIN sym -> SymboleLibre]
      BY <3>2, <3>3
    <3> QED
      BY <1>1, <2>2, <3>4 DEF TypeTables, entree
  <2>5. TypeLocaux'
    BY <1>1, <2>2, SectionTrouvee DEF TypeLocaux, entree, boucle, Etapes, MAXSIZE
  <2>6. NomsConnus'
    BY <1>1, <2>2 DEF NomsConnus, options
  <2> QED
    BY <2>3, <2>4, <2>5, <2>6 DEF IInv, TypeOK
<1> QED
  BY <1>2, <1>3

LEMMA ProduIInv == IInv /\ ProduExecutable => IInv'
<1> SUFFICES ASSUME IInv, ProduExecutable PROVE IInv'
  OBVIOUS
<1>1. /\ TypeOptions /\ TypeTables /\ TypeLocaux /\ CorpsOK /\ NomsConnus
      /\ etape = "executable" /\ etape \in Etapes
  BY DEF IInv, TypeOK, ProduExecutable, Etapes
<1>2. \/ \E fin \in {"abandon", "fini", "indefini", "boucle"} : Arret(fin)
      \/ etape' = "fini" /\ UNCHANGED <<entree, options, tables, tour, index_supprime, boucle>>
  BY DEF ProduExecutable
<1>3. CASE \E fin \in {"abandon", "fini", "indefini", "boucle"} : Arret(fin)
  BY <1>1, <1>3, ArretIInv DEF Arrets
<1>4. CASE etape' = "fini" /\ UNCHANGED <<entree, options, tables, tour, index_supprime, boucle>>
  <2>1. TypeOptions' /\ TypeTables' /\ CorpsOK'
    BY <1>1, <1>4, Cadre DEF tables
  <2>2. TypeLocaux'
    BY <1>1, <1>4 DEF TypeLocaux, entree, tables, boucle, Arrets
  <2>3. NomsConnus'
    BY <1>4 DEF NomsConnus
  <2> QED
    BY <2>1, <2>2, <2>3 DEF IInv, TypeOK
<1> QED
  BY <1>2, <1>3, <1>4

(***************************************************************************)
(* Every step of main keeps the invariant.                                 *)
(***************************************************************************)
LEMMA NextIInv == IInv /\ [Next]_vars => IInv'
<1> SUFFICES ASSUME IInv, [Next]_vars PROVE IInv'
  OBVIOUS
<1>1. CASE UNCHANGED vars
  <2>1. TypeOptions /\ TypeTables /\ TypeLocaux /\ CorpsOK /\ NomsConnus
    BY DEF IInv, TypeOK
  <2>2. TypeOptions' /\ TypeTables' /\ CorpsOK'
    BY <1>1, <2>1, Cadre DEF vars, tables
  <2>3. TypeLocaux' /\ NomsConnus'
    BY <1>1, <2>1 DEF vars, entree, options, tables, boucle, TypeLocaux, NomsConnus
  <2> QED
    BY <2>2, <2>3 DEF IInv, TypeOK
<1>2. CASE OptionSection \/ OptionSortie \/ ErreurOptions \/ FinOptions
  BY <1>2, OptionSectionIInv, OptionSortieIInv, ErreurOptionsIInv, FinOptionsIInv
<1>3. CASE AddrCharge
  BY <1>3, AddrChargeIInv
<1>4. CASE PasseSection \/ ReimplantEchoue \/ ReimplanteEntree \/ SectionReimplantee \/ FinReimplants
  BY <1>4, PasseSectionIInv, ReimplantEchoueIInv, ReimplanteEntreeIInv,
     SectionReimplanteeIInv, FinReimplantsIInv
<1>5. CASE SupprimerUneSection \/ CorrigeNdx \/ ProduExecutable
  BY <1>5, SupprimerIInv, CorrigeIInv, ProduIInv
<1> QED
  BY <1>1, <1>2, <1>3, <1>4, <1>5 DEF Next

LEMMA IInvToujours == Spec => []IInv
<1>1. Init => IInv
  BY InitIInv
<1>2. IInv /\ [Next]_vars => IInv'
  BY NextIInv
<1> QED
  BY <1>1, <1>2, PTL DEF Spec

(***************************************************************************)
(* The tables of "temp" stay well-formed: every sh_link, sh_info and       *)
(* e_shstrndx is in the table, every field in its range, whatever object   *)
(* file and command line main is given.                                    *)
(***************************************************************************)
THEOREM TypeCorrecte == Spec => []TypeOK
<1>1. IInv => TypeOK
  BY DEF IInv
<1> QED
  BY <1>1, IInvToujours, PTL

-----------------------------------------------------------------------------

(***************************************************************************)
(* The object files Etap7.c handles: big-endian, and no symbol defined in  *)
(* a section whose name begins with ".rel" (the violations v_petit_boutiste*)
(* and v_symbole_retire show what happens otherwise).                      *)
(***************************************************************************)
Regulier ==
  /\ image.flag
  /\ \A k \in DOMAIN image.sym : image.sym[k].shndx < SHN_ABS =>
       LET nom == image.shdr[image.sym[k].shndx].name
       IN  nom = <<>> \/ Head(nom) # ".rel"

SuiviInv == Regulier => SymbolesSuivent

(***************************************************************************)
(* The section of an image symbol.                                         *)
(***************************************************************************)
LEMMA SectionDImage ==
  ASSUME ImageOK(image), NEW k \in DOMAIN image.sym
  PROVE  /\ image.sym[k].shndx \in Nat /\ image.sym[k].value \in Adresse
         /\ ~(image.sym[k].shndx >= SHN_ABS) => image.sym[k].shndx \in DOMAIN image.shdr
         /\ \A o, p \in DOMAIN image.shdr : image.shdr[o].body = image.shdr[p].body => o = p
<1>1. /\ image.ehdr.e_shnum \in 1 .. 255
      /\ image.sym \in Seq(Symbole(image.ehdr.e_shnum))
      /\ DOMAIN image.shdr = 0 .. image.ehdr.e_shnum - 1
  BY DEF ImageOK
<1>2. image.sym[k] \in Symbole(image.ehdr.e_shnum)
  BY <1>1
<1>3. image.sym[k].shndx \in Ndx(image.ehdr.e_shnum) /\ image.sym[k].value \in Adresse
  BY <1>2 DEF Symbole
<1>4. /\ image.sym[k].shndx \in Nat
      /\ ~(image.sym[k].shndx >= SHN_ABS) => image.sym[k].shndx \in DOMAIN image.shdr
  BY <1>1, <1>3, Indices DEF Ndx
<1>5. \A o, p \in DOMAIN image.shdr : image.shdr[o].body = image.shdr[p].body => o = p
  BY <1>1 DEF ImageOK
<1> QED
  BY <1>3, <1>4, <1>5

(***************************************************************************)
(* In a regular file no symbol is in the section about to be removed.      *)
(***************************************************************************)
LEMMA HorsDuRetrait ==
  ASSUME IInv, Regulier, NEW k \in DOMAIN image.sym, ~(image.sym[k].shndx >= SHN_ABS),
         NEW i \in DOMAIN shdr, shdr[i].body = image.shdr[image.sym[k].shndx].body,
         NEW x \in DOMAIN shdr, shdr[x].name # <<>>, Head(shdr[x].name) = ".rel"
  PROVE  i # x
<1>1. ImageOK(image) /\ CorpsOK
  BY DEF IInv, TypeOK, TypeOptions
<1>2. PICK o \in DOMAIN image.shdr : MemeSection(i, o)
  BY <1>1 DEF CorpsOK
<1>3. o = image.sym[k].shndx
  BY <1>1, <1>2, SectionDImage DEF MemeSection
<1>4. image.sym[k].shndx < SHN_ABS
  BY <1>1, SectionDImage, Indices
<1> QED
  BY <1>2, <1>3, <1>4 DEF Regulier, MemeSection

LEMMA InitSuivi == Init => SuiviInv
<1> SUFFICES ASSUME Init, Regulier, NEW k \in DOMAIN image.sym
             PROVE  LET n == image.sym[k].shndx IN
                    IF n >= SHN_ABS THEN sym[k].shndx = n
                    ELSE Designe(sym[k].shndx, image.shdr[n].body)
  BY DEF SuiviInv, SymbolesSuivent
<1>1. ImageOK(image) /\ sym = image.sym /\ shdr = image.shdr /\ index_supprime = -1
  BY ImagesAssumption DEF Init
<1>2. image.sym[k].shndx # -1
  BY <1>1, SectionDImage
<1> QED
  BY <1>1, <1>2, SectionDImage DEF Designe

(***************************************************************************)
(* Steps that leave the indexes and the contents of the sections alone.    *)
(***************************************************************************)
LEMMA SuiviCadre ==
  ASSUME IInv, SuiviInv, image' = image, index_supprime' = index_supprime,
         DOMAIN shdr' = DOMAIN shdr,
         \A i \in DOMAIN shdr : shdr'[i].body = shdr[i].body,
         \A k \in DOMAIN image.sym : sym'[k].shndx = sym[k].shndx
  PROVE  SuiviInv'
<1> SUFFICES ASSUME SymbolesSuivent PROVE SymbolesSuivent'
  BY DEF SuiviInv, Regulier
<1>1. \A ndx, b : Designe(ndx, b)' = Designe(ndx, b)
  BY DEF Designe
<1> QED
  BY <1>1 DEF SymbolesSuivent

LEMMA SuiviSupprime == IInv /\ SuiviInv /\ SupprimerUneSection => SuiviInv'
<1> SUFFICES ASSUME IInv, SuiviInv, SupprimerUneSection PROVE SuiviInv'
  OBVIOUS
<1> DEFINE x == Section(get_nom_rel_corre(str_section[tour]))
           n == ehdr.e_shnum
<1>1. /\ TypeTables /\ TypeLocaux /\ ImageOK(image) /\ etape = "supprime"
      /\ index_supprime = -1
  BY DEF IInv, TypeOK, TypeOptions, TypeLocaux, SupprimerUneSection
<1>2. CASE x = -1 /\ ~Arret("abandon")
  <2>1. UNCHANGED <<image, index_supprime, shdr, sym>>
    BY <1>2 DEF SupprimerUneSection, entree, tables
  <2> QED
    BY <2>1, SuiviCadre
<1>3. CASE x # -1 /\ ~Arret("abandon")
  <2>1. /\ x \in 1 .. n - 1 /\ x \in DOMAIN shdr
        /\ shdr[x].name # <<>> /\ Head(shdr[x].name) = ".rel"
    BY <1>1, <1>3, RetireNonNulle DEF TypeTables
  <2>2. /\ shdr' = TableAfter(shdr, n, x) /\ index_supprime' = x
        /\ UNCHANGED <<image, sym>>
    BY <1>3 DEF SupprimerUneSection, entree
  <2> HIDE DEF x
  <2>3. /\ n \in 2 .. 255 /\ DOMAIN shdr' = 0 .. n - 2 /\ DOMAIN shdr = 0 .. n - 1
        /\ \A i \in 0 .. n - 2 : shdr'[i].body = shdr[Ancien(i, x)].body
    BY <1>1, <2>1, <2>2, Retrait DEF TypeTables
  <2>4. SUFFICES ASSUME Regulier, NEW k \in DOMAIN image.sym, ~(image.sym[k].shndx >= SHN_ABS)
                 PROVE  Designe(sym[k].shndx, image.shdr[image.sym[k].shndx].body)'
    BY <2>2 DEF SuiviInv, SymbolesSuivent, Regulier
  <2> DEFINE ndx == sym[k].shndx
             b   == image.shdr[image.sym[k].shndx].body
  <2>5. ndx \in DOMAIN shdr /\ shdr[ndx].body = b
    BY <1>1, <2>4 DEF SuiviInv, SymbolesSuivent, Designe
  <2>6. ndx # x
    BY <2>1, <2>4, <2>5, HorsDuRetrait
  <2> HIDE DEF ndx, n
  <2>7. LET i == IF ndx > x THEN ndx - 1 ELSE ndx IN
        i \in 0 .. n - 2 /\ Ancien(i, x) = ndx
    BY <2>1, <2>3, <2>5, <2>6 DEF Ancien
  <2> QED
    BY <2>1, <2>2, <2>3, <2>5, <2>6, <2>7 DEF Designe, ndx
<1>4. CASE Arret("abandon")
  BY <1>4, SuiviCadre DEF Arret, entree, tables
<1> QED
  BY <1>2, <1>3, <1>4

(***************************************************************************)
(* corrige_ndx keeps every symbol of a regular file, with its number       *)
(* counted in the new table.                                               *)
(***************************************************************************)
LEMMA CorrigeGarde ==
  ASSUME IInv, SuiviInv, Regulier, CorrigeNdx, TablesLues
  PROVE  /\ \A k \in DOMAIN sym :
              /\ sym[k].shndx # index_supprime
              /\ sym'[k] = SymboleCorrige(sym[k])
         /\ DOMAIN sym' = DOMAIN sym /\ DOMAIN sym = DOMAIN image.sym
         /\ index_supprime' = -1 /\ UNCHANGED <<image, shdr>>
         /\ index_supprime \in 1 .. 255
<1>1. /\ TypeTables /\ TypeLocaux /\ ImageOK(image) /\ etape = "corrige"
  BY DEF IInv, TypeOK, TypeOptions, CorrigeNdx
<1>2. DOMAIN sym = DOMAIN image.sym
  BY <1>1 DEF TypeTables
<1>3. index_supprime \in 1 .. 255
  <2>1. index_supprime \in -1 .. ehdr.e_shnum /\ index_supprime # 0 /\ index_supprime # -1
    BY <1>1 DEF TypeLocaux
  <2>2. ehdr.e_shnum \in 1 .. 255
    BY <1>1, SectionTrouvee
  <2> QED
    BY <2>1, <2>2
<1>4. ASSUME NEW k \in DOMAIN sym PROVE sym[k].shndx # index_supprime
  <2>1. CASE image.sym[k].shndx >= SHN_ABS
    <3>1. sym[k].shndx = image.sym[k].shndx
      BY <1>2, <1>4, <2>1 DEF SuiviInv, SymbolesSuivent
    <3>2. sym[k].shndx \in Nat /\ sym[k].shndx >= SHN_ABS
      BY <1>1, <1>2, <1>4, <2>1, <3>1, SectionDImage
    <3> QED
      BY <1>3, <3>2, Indices
  <2>2. CASE ~(image.sym[k].shndx >= SHN_ABS)
    BY <1>2, <1>4, <2>2 DEF SuiviInv, SymbolesSuivent, Designe
  <2> QED
    BY <2>1, <2>2
<1>5. \A k \in DOMAIN sym : k <= Gardes
  BY <1>1, <1>4, GardesCompte
<1>6. PICK residus \in [{k \in DOMAIN sym : k > Gardes} -> SymResidus] :
        sym' = [k \in DOMAIN sym |->
                  IF k <= Gardes THEN SymboleCorrige(SymboleLu(sym[k])) ELSE residus[k]]
  BY DEF CorrigeNdx
<1>7. \A k \in DOMAIN sym : sym'[k] = SymboleCorrige(sym[k])
  BY <1>5, <1>6 DEF SymboleLu, Regulier
<1>8. index_supprime' = -1 /\ UNCHANGED <<image, shdr>>
  BY DEF CorrigeNdx, entree
<1> QED
  BY <1>2, <1>3, <1>4, <1>6, <1>7, <1>8

LEMMA SuiviCorrige == IInv /\ SuiviInv /\ CorrigeNdx => SuiviInv'
<1> SUFFICES ASSUME IInv, SuiviInv, CorrigeNdx PROVE SuiviInv'
  OBVIOUS
<1>1. CASE ~TablesLues
  <2>1. Arret("abandon")
    BY <1>1 DEF CorrigeNdx
  <2> QED
    BY <2>1, SuiviCadre DEF Arret, entree, tables
<1>2. CASE TablesLues
  <2>1. image' = image
    BY <1>2 DEF CorrigeNdx, entree
  <2>2. SUFFICES ASSUME Regulier, NEW k \in DOMAIN image.sym
                 PROVE  LET n == image.sym[k].shndx IN
                        IF n >= SHN_ABS THEN sym'[k].shndx = n
                        ELSE Designe(sym[k].shndx, image.shdr[n].body)'
    BY <2>1 DEF SuiviInv, SymbolesSuivent, Regulier
  <2>3. /\ sym[k].shndx # index_supprime /\ sym'[k] = SymboleCorrige(sym[k])
        /\ index_supprime' = -1 /\ UNCHANGED <<image, shdr>>
        /\ index_supprime \in 1 .. 255
    BY <1>2, <2>2, CorrigeGarde
  <2>4. TypeTables /\ ImageOK(image) /\ sym[k] \in SymboleLibre
    BY <2>2 DEF IInv, TypeOK, TypeOptions, TypeTables
  <2>5. /\ sym[k].shndx \in Nat
        /\ sym'[k].shndx = IF sym[k].shndx > index_supprime /\ sym[k].shndx < SHN_ABS
                             THEN sym[k].shndx - 1 ELSE sym[k].shndx
    BY <2>3, <2>4, Indices DEF SymboleLibre, SymboleCorrige
  <2>6. CASE image.sym[k].shndx >= SHN_ABS
    <3>1. sym[k].shndx = image.sym[k].shndx
      BY <2>2, <2>6 DEF SuiviInv, SymbolesSuivent
    <3>2. ~(sym[k].shndx < SHN_ABS)
      BY <2>5, <2>6, <3>1, Indices
    <3> QED
      BY <2>5, <2>6, <3>1, <3>2
  <2>7. CASE ~(image.sym[k].shndx >= SHN_ABS)
    <3> DEFINE b == image.shdr[image.sym[k].shndx].body
               i == IF sym[k].shndx > index_supprime THEN sym[k].shndx - 1 ELSE sym[k].shndx
    <3>1. i \in DOMAIN shdr /\ shdr[i].body = b
      BY <2>2, <2>3, <2>7 DEF SuiviInv, SymbolesSuivent, Designe
    <3>2. DOMAIN shdr = 0 .. ehdr.e_shnum - 1 /\ ehdr.e_shnum \in 1 .. 255
      BY <2>4, SectionTrouvee DEF TypeTables
    <3>3. sym[k].shndx < SHN_ABS
      <4>1. i \in 0 .. 254 /\ sym[k].shndx \in Nat
        <5>1. ehdr.e_shnum \in 1 .. 255
          BY <3>2
        <5>2. i \in 0 .. ehdr.e_shnum - 1
          BY <3>1, <3>2, Zenon
        <5> HIDE DEF i
        <5>3. i \in 0 .. 254
          BY <5>1, <5>2
        <5> QED
          BY <2>5, <5>3
      <4>2. sym[k].shndx <= i + 1
        BY <2>3, <4>1
      <4> HIDE DEF i
      <4> QED
        BY <4>1, <4>2, Indices
    <3>4. sym'[k].shndx = i /\ i # -1
      BY <2>5, <3>1, <3>2, <3>3
    <3> QED
      BY <2>3, <2>7, <3>1, <3>4 DEF Designe
  <2> QED
    BY <2>6, <2>7
<1> QED
  BY <1>1, <1>2

LEMMA SuiviAutres ==
  ASSUME IInv, SuiviInv, [Next]_vars, ~SupprimerUneSection, ~CorrigeNdx
  PROVE  SuiviInv'
<1>1. CASE UNCHANGED <<image, index_supprime, shdr, sym>>
  BY <1>1, SuiviCadre
<1>2. CASE AddrCharge
  <2>1. TypeTables /\ TypeOptions /\ ImageOK(image)
    BY DEF IInv, TypeOK, TypeOptions
  <2>2. CASE UNCHANGED <<image, index_supprime, shdr, sym>>
    BY <2>2, SuiviCadre
  <2>3. CASE ~UNCHANGED <<image, index_supprime, shdr, sym>>
    <3> DEFINE s == Section(str_section[tour])
    <3>0. ~Arret("indefini") /\ ~Arret("abandon")
      BY <2>3 DEF Arret, tables, entree
    <3>1. PICK addr :
            /\ \/ UNCHANGED <<shdr, sym>>
               \/ /\ shdr' = [shdr EXCEPT ![s].addr = addr]
                  /\ sym' = [k \in DOMAIN sym |-> SymboleCharge(sym[k], s, addr)]
            /\ UNCHANGED <<image, index_supprime>>
      BY <1>2, <3>0 DEF AddrCharge, entree
    <3> HIDE DEF s
    <3>2. DOMAIN shdr' = DOMAIN shdr /\ \A i \in DOMAIN shdr : shdr'[i].body = shdr[i].body
      <4>1. shdr' = [shdr EXCEPT ![s].addr = addr]
        BY <2>3, <3>1
      <4>2. DOMAIN shdr' = DOMAIN shdr
        BY <4>1
      <4>3. ASSUME NEW i \in DOMAIN shdr PROVE shdr'[i].body = shdr[i].body
        <5>1. shdr[i] \in EnTete
          BY <2>1, <4>3 DEF TypeTables
        <5>2. shdr'[i] = IF i = s THEN [shdr[i] EXCEPT !.addr = addr] ELSE shdr[i]
          BY <2>1, <4>1, <4>3 DEF TypeTables
        <5> QED
          BY <5>1, <5>2 DEF EnTete
      <4> QED
        BY <4>2, <4>3
    <3>3. \A k \in DOMAIN image.sym : sym'[k].shndx = sym[k].shndx
      BY <2>1, <2>3, <3>1 DEF TypeTables, SymboleLibre, SymboleCharge
    <3> QED
      BY <3>1, <3>2, <3>3, SuiviCadre
  <2> QED
    BY <2>2, <2>3
<1>3. CASE Next /\ ~AddrCharge
  <2>1. UNCHANGED <<image, index_supprime, shdr, sym>>
    BY <1>3 DEF Next, OptionSection, OptionSortie, ErreurOptions, FinOptions, PasseSection, ReimplantEchoue,
                ReimplanteEntree, SectionReimplantee, FinReimplants, ProduExecutable,
                Arret, entree, tables
  <2> QED
    BY <2>1, SuiviCadre
<1> QED
  BY <1>1, <1>2, <1>3 DEF vars, entree, tables

LEMMA SuiviToujours == Spec => []SuiviInv
<1>1. Init => SuiviInv
  BY InitSuivi
<1>2. IInv /\ SuiviInv /\ [Next]_vars => SuiviInv'
  BY SuiviSupprime, SuiviCorrige, SuiviAutres
<1> QED
  BY <1>1, <1>2, IInvToujours, PTL DEF Spec

(***************************************************************************)
(* For every object file that is big-endian and has no symbol in a ".rel"  *)
(* section: at every step, also between supprimer_une_section and          *)
(* corrige_ndx, every symbol designates the section it designated in the   *)
(* object file.                                                            *)
(***************************************************************************)
THEOREM SymbolesSuiventToujours == Spec => [](Regulier => SymbolesSuivent)
<1>1. SuiviInv => (Regulier => SymbolesSuivent)
  BY DEF SuiviInv
<1> QED
  BY <1>1, SuiviToujours, PTL

-----------------------------------------------------------------------------
(***************************************************************************)
(* Symbol values.  A section that is loaded twice moves its symbols twice, *)
(* so the names of the -s options must differ.                             *)
(* Until addr_charge reaches its name a section is at address 0.           *)
(***************************************************************************)
NomsDistincts ==
  \A t, u \in 0 .. MAXSIZE - 1 : str_section[t] = str_section[u] => t = u

ValInv ==
  Regulier =>
    /\ etape = "options" => \A i \in DOMAIN shdr : shdr[i].addr = 0
    /\ etape = "options" \/ NomsDistincts => ValeursSuivent
    /\ etape = "charge" /\ NomsDistincts =>
         \A i \in DOMAIN shdr : \/ shdr[i].addr = 0
                                \/ \E t \in 0 .. tour - 1 : shdr[i].name = str_section[t]

LEMMA Nul == ASSUME NEW v \in Adresse PROVE (v + 0) % Espace = v
<1>1. Espace \in Nat \ {0} /\ v \in 0 .. Espace - 1
  BY EspaceAssumption DEF Adresse
<1> QED
  BY <1>1

LEMMA InitVal == Init => ValInv
<1> SUFFICES ASSUME Init PROVE ValInv
  OBVIOUS
<1>1. ImageOK(image) /\ sym = image.sym /\ shdr = image.shdr /\ etape = "options"
  BY ImagesAssumption DEF Init
<1>2. \A i \in DOMAIN shdr : shdr[i].addr = 0
  BY <1>1 DEF ImageOK
<1>3. ASSUME NEW k \in DOMAIN image.sym PROVE (image.sym[k].value + 0) % Espace = image.sym[k].value
  BY <1>1, <1>3, SectionDImage, Nul
<1>4. ValeursSuivent
  BY <1>1, <1>2, <1>3 DEF ValeursSuivent
<1> QED
  BY <1>1, <1>2, <1>4 DEF ValInv

(***************************************************************************)
(* Steps that move neither a section nor a symbol.                         *)
(***************************************************************************)
LEMMA ValCadre ==
  ASSUME ValInv, UNCHANGED <<image, shdr, sym>>,
         etape' = "options" => etape = "options",
         etape = "options" \/ UNCHANGED str_section,
         etape' = "charge" => etape = "options" \/ (etape = "charge" /\ UNCHANGED tour)
  PROVE  ValInv'
<1> SUFFICES ASSUME Regulier PROVE
       /\ etape' = "options" => \A i \in DOMAIN shdr : shdr[i].addr = 0
       /\ etape' = "options" \/ NomsDistincts' => ValeursSuivent
       /\ etape' = "charge" /\ NomsDistincts' =>
            \A i \in DOMAIN shdr : \/ shdr[i].addr = 0
                                   \/ \E t \in 0 .. tour' - 1 : shdr[i].name = str_section'[t]
  BY DEF ValInv, Regulier, ValeursSuivent
<1>1. etape = "options" \/ NomsDistincts' = NomsDistincts
  BY DEF NomsDistincts
<1> QED
  BY <1>1 DEF ValInv

LEMMA ValSupprime == IInv /\ SuiviInv /\ ValInv /\ SupprimerUneSection => ValInv'
<1> SUFFICES ASSUME IInv, ValInv, SupprimerUneSection PROVE ValInv'
  OBVIOUS
<1> PICK x, n : x = Section(get_nom_rel_corre(str_section[tour])) /\ n = ehdr.e_shnum
  OBVIOUS
<1>1. TypeTables /\ ImageOK(image) /\ etape = "supprime"
  BY DEF IInv, TypeOK, TypeOptions, SupprimerUneSection
<1>2. CASE x = -1 /\ ~Arret("abandon")
  <2>1. UNCHANGED <<image, shdr, sym, str_section>> /\ (etape' = "supprime" \/ etape' = "executable")
    BY <1>1, <1>2 DEF SupprimerUneSection, Suivante, entree, tables, options
  <2> QED
    BY <1>1, <2>1, ValCadre
<1>3. CASE x # -1 /\ ~Arret("abandon")
  <2>1. x \in 1 .. n - 1
    BY <1>1, <1>3, RetireNonNulle
  <2>2. /\ shdr' = TableAfter(shdr, n, x)
        /\ UNCHANGED <<image, sym, str_section>> /\ etape' = "corrige"
    BY <1>3 DEF SupprimerUneSection, entree, options
  <2>3. /\ n \in 2 .. 255 /\ DOMAIN shdr' = 0 .. n - 2 /\ DOMAIN shdr = 0 .. n - 1
        /\ \A i \in 0 .. n - 2 : /\ shdr'[i].body = shdr[Ancien(i, x)].body
                                 /\ shdr'[i].addr = shdr[Ancien(i, x)].addr
    BY <1>1, <2>1, <2>2, Retrait DEF TypeTables
  <2>4. ASSUME NEW i \in DOMAIN shdr' PROVE Ancien(i, x) \in DOMAIN shdr
    <3>1. i \in 0 .. n - 2 /\ n \in 2 .. 255
      BY <2>3, <2>4
    <3>2. Ancien(i, x) \in 0 .. n - 1
      BY <2>1, <3>1 DEF Ancien
    <3> QED
      BY <2>3, <3>2
  <2>5. ValeursSuivent => ValeursSuivent'
    BY <2>2, <2>3, <2>4 DEF ValeursSuivent
  <2> QED
    BY <1>1, <2>2, <2>5 DEF ValInv, NomsDistincts, Regulier
<1>4. CASE Arret("abandon")
  BY <1>1, <1>4, ValCadre DEF Arret, entree, tables, options
<1> QED
  BY <1>2, <1>3, <1>4

LEMMA ValCorrige == IInv /\ SuiviInv /\ ValInv /\ CorrigeNdx => ValInv'
<1> SUFFICES ASSUME IInv, SuiviInv, ValInv, CorrigeNdx PROVE ValInv'
  OBVIOUS
<1>1. etape = "corrige" /\ TypeTables
  BY DEF CorrigeNdx, IInv, TypeOK
<1>2. CASE ~TablesLues
  <2>1. UNCHANGED <<image, shdr, sym, str_section>> /\ etape' = "abandon"
    BY <1>2 DEF CorrigeNdx, Arret, entree, tables, options
  <2> QED
    BY <1>1, <2>1, ValCadre
<1>3. CASE TablesLues
  <2>1. /\ UNCHANGED <<image, shdr, str_section>>
        /\ etape' = "supprime" \/ etape' = "executable"
    BY <1>3 DEF CorrigeNdx, entree, options
  <2>2. ASSUME Regulier, NEW k \in DOMAIN image.sym PROVE sym'[k].value = sym[k].value
    <3>1. sym'[k] = SymboleCorrige(sym[k]) /\ sym[k] \in SymboleLibre
      BY <1>1, <1>3, <2>2, CorrigeGarde DEF TypeTables
    <3> QED
      BY <3>1 DEF SymboleCorrige, SymboleLibre
  <2>3. Regulier /\ ValeursSuivent => ValeursSuivent'
    BY <2>1, <2>2 DEF ValeursSuivent
  <2> QED
    BY <1>1, <2>1, <2>3 DEF ValInv, NomsDistincts, Regulier
<1> QED
  BY <1>2, <1>3

(***************************************************************************)
(* addr_charge adds the address to the symbols of the section it finds, and*)
(* that section was at address 0.                                          *)
(***************************************************************************)
LEMMA ValCharge == IInv /\ SuiviInv /\ ValInv /\ AddrCharge => ValInv'
<1> SUFFICES ASSUME IInv, SuiviInv, ValInv, AddrCharge PROVE ValInv'
  OBVIOUS
<1> PICK s : s = Section(str_section[tour])
  OBVIOUS
<1>1. /\ TypeTables /\ TypeOptions /\ TypeLocaux /\ ImageOK(image) /\ CorpsOK
      /\ etape = "charge" /\ index_supprime = -1 /\ tour \in 0 .. 1
  BY DEF IInv, TypeOK, TypeOptions, TypeLocaux, AddrCharge, MAXSIZE
<1>2. CASE Arret("indefini") \/ Arret("abandon")
  <2>1. /\ UNCHANGED <<image, shdr, sym, str_section>>
        /\ etape' = "indefini" \/ etape' = "abandon"
    BY <1>2 DEF Arret, entree, tables, options
  <2> QED
    BY <1>1, <2>1, ValCadre
<1>3. CASE ~(Arret("indefini") \/ Arret("abandon"))
  <2>1. PICK addr \in IF adresse_donnee[tour] = Inconnu THEN Residus
                       ELSE {adresse_donnee[tour]} :
         /\ \/ s = -1 /\ UNCHANGED <<shdr, sym>>
            \/ /\ s # -1
               /\ shdr' = [shdr EXCEPT ![s].addr = addr]
               /\ sym' = [k \in DOMAIN sym |-> SymboleCharge(sym[k], s, addr)]
         /\ Suivante("reimplants")
         /\ UNCHANGED <<image, str_section>>
    BY <1>3 DEF AddrCharge, entree, options
  <2>2. addr \in Adresse
    BY <1>1, ResidusAssumption DEF TypeOptions, MAXSIZE
  <2>3. /\ (etape' = "charge" /\ tour' = tour + 1) \/ etape' = "reimplants"
        /\ NomsDistincts' = NomsDistincts /\ Regulier' = Regulier
    BY <1>1, <2>1, SuivanteType DEF NomsDistincts, Regulier
  <2>4. SUFFICES ASSUME Regulier, NomsDistincts
                 PROVE  /\ ValeursSuivent'
                        /\ etape' = "charge" =>
                             \A i \in DOMAIN shdr' :
                               \/ shdr'[i].addr = 0
                               \/ \E t \in 0 .. tour : shdr'[i].name = str_section[t]
    BY <1>1, <2>1, <2>3 DEF ValInv
  <2>5. /\ ValeursSuivent /\ SymbolesSuivent
        /\ \A i \in DOMAIN shdr : \/ shdr[i].addr = 0
                                  \/ \E t \in 0 .. tour - 1 : shdr[i].name = str_section[t]
    BY <1>1, <2>4 DEF ValInv, SuiviInv
  <2>6. CASE s = -1
    <3>1. UNCHANGED <<shdr, sym>>
      BY <2>1, <2>6
    <3>2. ValeursSuivent'
      BY <2>1, <2>5, <3>1 DEF ValeursSuivent
    <3>3. \A t \in 0 .. tour - 1 : t \in 0 .. tour
      BY <1>1
    <3> QED
      BY <2>5, <3>1, <3>2, <3>3
  <2>7. CASE s # -1
    <3>1. s \in DOMAIN shdr /\ shdr[s].name = str_section[tour]
      BY <1>1, <2>7, SectionTrouvee DEF TypeTables
    <3>2. /\ shdr' = [shdr EXCEPT ![s].addr = addr]
          /\ sym' = [k \in DOMAIN sym |-> SymboleCharge(sym[k], s, addr)]
      BY <2>1, <2>7
    <3>3. /\ DOMAIN shdr' = DOMAIN shdr /\ shdr'[s].addr = addr
          /\ \A i \in DOMAIN shdr : /\ shdr'[i].body = shdr[i].body /\ shdr'[i].name = shdr[i].name
                                    /\ i # s => shdr'[i].addr = shdr[i].addr
      BY <1>1, <3>1, <3>2 DEF TypeTables, EnTete
    <3>4. shdr[s].addr = 0
      <4>1. ASSUME NEW t \in 0 .. tour - 1, shdr[s].name = str_section[t] PROVE FALSE
        <5>1. t \in 0 .. MAXSIZE - 1 /\ tour \in 0 .. MAXSIZE - 1 /\ t # tour
          BY <1>1, <4>1 DEF MAXSIZE
        <5> QED
          BY <2>4, <3>1, <4>1, <5>1 DEF NomsDistincts
      <4> QED
        BY <2>5, <3>1, <4>1
    <3>5. ASSUME NEW k \in DOMAIN image.sym
          PROVE  LET s0 == image.sym[k] IN
                 IF s0.shndx >= SHN_ABS THEN sym'[k].value = s0.value
                 ELSE \A i \in DOMAIN shdr :
                        shdr[i].body = image.shdr[s0.shndx].body =>
                          sym'[k].value = (s0.value + shdr'[i].addr) % Espace
      <4>1. /\ sym[k] \in SymboleLibre /\ sym'[k] = SymboleCharge(sym[k], s, addr)
        BY <1>1, <3>2, <3>5 DEF TypeTables
      <4>2. sym'[k].value = IF sym[k].shndx = s THEN (sym[k].value + addr) % Espace
                                                ELSE sym[k].value
        BY <4>1 DEF SymboleLibre, SymboleCharge
      <4>3. CASE image.sym[k].shndx >= SHN_ABS
        <5>1. sym[k].shndx = image.sym[k].shndx /\ sym[k].value = image.sym[k].value
          BY <2>5, <3>5, <4>3 DEF ValeursSuivent, SymbolesSuivent
        <5>2. s \in 0 .. 254
          <6>1. s \in 0 .. ehdr.e_shnum - 1
            BY <1>1, <3>1 DEF TypeTables
          <6>2. ehdr.e_shnum \in 1 .. 255
            BY <1>1, SectionTrouvee
          <6> QED
            BY <6>1, <6>2
        <5>3. image.sym[k].shndx \in Nat
          BY <1>1, <3>5, SectionDImage
        <5>4. sym[k].shndx # s
          BY <4>3, <5>1, <5>2, <5>3, Indices
        <5> QED
          BY <4>2, <4>3, <5>1, <5>4
      <4>4. ASSUME ~(image.sym[k].shndx >= SHN_ABS), NEW i \in DOMAIN shdr,
                   shdr[i].body = image.shdr[image.sym[k].shndx].body
            PROVE  sym'[k].value = (image.sym[k].value + shdr'[i].addr) % Espace
        <5>1. sym[k].shndx \in DOMAIN shdr /\ shdr[sym[k].shndx].body = shdr[i].body
          BY <1>1, <2>5, <3>5, <4>4 DEF SymbolesSuivent, Designe
        <5>2. sym[k].shndx = i
          BY <1>1, <4>4, <5>1 DEF CorpsOK
        <5>3. sym[k].value = (image.sym[k].value + shdr[i].addr) % Espace
          BY <2>5, <3>5, <4>4 DEF ValeursSuivent
        <5>4. CASE i = s
          <6>1. (image.sym[k].value + 0) % Espace = image.sym[k].value
            BY <1>1, <3>5, SectionDImage, Nul
          <6>2. sym[k].value = image.sym[k].value
            BY <3>4, <5>3, <5>4, <6>1
          <6> QED
            BY <3>3, <4>2, <5>2, <5>4, <6>2
        <5>5. CASE i # s
          BY <3>3, <4>2, <4>4, <5>2, <5>3, <5>5
        <5> QED
          BY <5>4, <5>5
      <4> QED
        BY <4>3, <4>4
    <3>6. ValeursSuivent'
      BY <2>1, <3>3, <3>5 DEF ValeursSuivent
    <3>7. ASSUME NEW i \in DOMAIN shdr
          PROVE  shdr'[i].addr = 0 \/ \E t \in 0 .. tour : shdr'[i].name = str_section[t]
      <4>1. CASE i = s
        BY <1>1, <3>1, <3>3, <4>1
      <4>2. CASE i # s
        BY <1>1, <2>5, <3>3, <4>2
      <4> QED
        BY <4>1, <4>2
    <3> QED
      BY <3>3, <3>6, <3>7
  <2> QED
    BY <2>6, <2>7
<1> QED
  BY <1>2, <1>3

LEMMA ValAutres ==
  ASSUME IInv, ValInv, [Next]_vars, ~SupprimerUneSection, ~CorrigeNdx, ~AddrCharge
  PROVE  ValInv'
<1>1. CASE UNCHANGED vars
  BY <1>1, ValCadre DEF vars, entree, tables, options
<1>2. CASE OptionSection \/ OptionSortie \/ ErreurOptions \/ FinOptions
  <2>1. /\ UNCHANGED <<image, shdr, sym>> /\ etape = "options"
    BY <1>2 DEF OptionSection, OptionSortie, ErreurOptions, FinOptions, Arret, entree, tables
  <2>2. /\ etape' = "options" => etape = "options"
        /\ etape = "options" \/ UNCHANGED str_section
        /\ etape' = "charge" => etape = "options" \/ (etape = "charge" /\ UNCHANGED tour)
    BY <2>1
  <2> QED
    BY <2>1, <2>2, ValCadre, Zenon
<1>3. CASE PasseSection \/ ReimplantEchoue \/ ReimplanteEntree \/ SectionReimplantee
           \/ FinReimplants \/ ProduExecutable
  <2>1. UNCHANGED <<image, shdr, sym, str_section>>
    BY <1>3 DEF PasseSection, ReimplantEchoue, ReimplanteEntree, SectionReimplantee,
                FinReimplants, ProduExecutable, Arret, entree, tables, options
  <2>2. etape' \notin {"options", "charge"}
    BY <1>3 DEF PasseSection, ReimplantEchoue, ReimplanteEntree, SectionReimplantee,
                FinReimplants, ProduExecutable, Arret
  <2> QED
    BY <2>1, <2>2, ValCadre
<1> QED
  BY <1>1, <1>2, <1>3 DEF Next

(***************************************************************************)
(* For the same object files, and -s options that name different sections: *)
(* at every step a symbol has moved by exactly the address its section     *)
(* carries.                                                                *)
(***************************************************************************)
THEOREM ValeursSuiventToujours == Spec => [](Regulier /\ NomsDistincts => ValeursSuivent)
<1>1. Init => SuiviInv /\ ValInv
  BY InitSuivi, InitVal
<1>2. IInv /\ (SuiviInv /\ ValInv) /\ [Next]_vars => (SuiviInv /\ ValInv)'
  BY SuiviSupprime, SuiviCorrige, SuiviAutres, ValSupprime, ValCorrige, ValCharge, ValAutres
<1>3. Spec => [](SuiviInv /\ ValInv)
  BY <1>1, <1>2, IInvToujours, PTL DEF Spec
<1>4. SuiviInv /\ ValInv => (Regulier /\ NomsDistincts => ValeursSuivent)
  BY DEF ValInv
<1> QED
  BY <1>3, <1>4, PTL

-----------------------------------------------------------------------------
(***************************************************************************)
(* What a step leaves as it was when it follows the last addr_charge.      *)
(***************************************************************************)
FigeSymboles ==
  \A k \in DOMAIN sym : /\ sym'[k].value = sym[k].value
                        /\ sym'[k].name = sym[k].name
                        /\ sym'[k].inverse = sym[k].inverse

LEMMA PasFige ==
  ASSUME IInv, SuiviInv, Regulier, [Next]_vars, etape \notin {"options", "charge"}
  PROVE  FigeSymboles
<1>1. CASE UNCHANGED sym
  BY <1>1 DEF FigeSymboles
<1>2. CASE CorrigeNdx /\ TablesLues
  <2> SUFFICES ASSUME NEW k \in DOMAIN sym
               PROVE  /\ sym'[k].value = sym[k].value
                      /\ sym'[k].name = sym[k].name
                      /\ sym'[k].inverse = sym[k].inverse
    BY DEF FigeSymboles
  <2>1. sym'[k] = SymboleCorrige(sym[k])
    BY <1>2, CorrigeGarde
  <2>2. sym[k] \in SymboleLibre
    BY DEF IInv, TypeOK, TypeTables
  <2> QED
    BY <2>1, <2>2 DEF SymboleCorrige, SymboleLibre
<1>3. CASE CorrigeNdx /\ ~TablesLues
  <2>1. Arret("abandon")
    BY <1>3 DEF CorrigeNdx
  <2> QED
    BY <1>1, <2>1 DEF Arret, tables
<1>4. CASE Next /\ ~CorrigeNdx
  <2>1. ~OptionSection /\ ~OptionSortie /\ ~ErreurOptions /\ ~FinOptions /\ ~AddrCharge
    BY DEF OptionSection, OptionSortie, ErreurOptions, FinOptions, AddrCharge
  <2>2. UNCHANGED sym
    BY <1>4, <2>1 DEF Next, PasseSection, ReimplantEchoue, ReimplanteEntree, SectionReimplantee,
                      FinReimplants, SupprimerUneSection, ProduExecutable, Arret, tables
  <2> QED
    BY <1>1, <2>2
<1> QED
  BY <1>1, <1>2, <1>3, <1>4 DEF vars, tables

(***************************************************************************)
(* For the same object files: once relocation starts using them, the value *)
(* and the name of a symbol are never changed again, although corrige_ndx  *)
(* reads and writes the whole table for every section removed.             *)
(***************************************************************************)
THEOREM ValeursToujoursFigees == Spec /\ []Regulier => ValeursFigees
<1>1. IInv /\ SuiviInv /\ Regulier /\ [Next]_vars =>
        [etape \notin {"options", "charge"} =>
           \A k \in DOMAIN sym : /\ sym'[k].value = sym[k].value
                                 /\ sym'[k].name = sym[k].name
                                 /\ sym'[k].inverse = sym[k].inverse]_vars
  BY PasFige DEF FigeSymboles
<1> QED
  BY <1>1, SuiviToujours, IInvToujours, PTL DEF Spec, ValeursFigees

-----------------------------------------------------------------------------
(***************************************************************************)
(* The references inside the header table: sh_link, sh_info and e_shstrndx *)
(* keep naming the section they named.                                     *)
(***************************************************************************)
LEMMA InitTable == Init => TableSuit
<1> SUFFICES ASSUME Init PROVE TableSuit
  OBVIOUS
<1>1. ImageOK(image) /\ shdr = image.shdr /\ ehdr = image.ehdr
  BY ImagesAssumption DEF Init
<1> DEFINE D == DOMAIN image.shdr
<1>2. /\ image.ehdr.e_shstrndx \in D
      /\ \A i \in D : /\ image.shdr[i].link \in D
                      /\ HasSectionInfo(image.shdr[i]) => image.shdr[i].info \in D
      /\ \A i, j \in D : image.shdr[i].body = image.shdr[j].body => i = j
  <2>1. D = 0 .. image.ehdr.e_shnum - 1
    BY <1>1 DEF ImageOK
  <2> QED
    BY <1>1, <2>1 DEF ImageOK
<1>3. ASSUME NEW m \in D PROVE Suit(m, m)
  BY <1>1, <1>3 DEF Suit, Presents
<1> HIDE DEF D
<1> QED
  BY <1>1, <1>2, <1>3 DEF TableSuit, D

(***************************************************************************)
(* Steps that leave the numbers and the contents of the table alone.       *)
(***************************************************************************)
LEMMA TableCadre ==
  ASSUME TableSuit, image' = image, ehdr' = ehdr, DOMAIN shdr' = DOMAIN shdr,
         \A i \in DOMAIN shdr :
           /\ shdr'[i].body = shdr[i].body /\ shdr'[i].type = shdr[i].type
           /\ shdr'[i].link = shdr[i].link /\ shdr'[i].info = shdr[i].info,
         IInv
  PROVE  TableSuit'
<1>1. Presents' = Presents
  BY DEF Presents
<1>2. /\ ehdr.e_shstrndx \in DOMAIN shdr
      /\ \A i \in DOMAIN shdr : /\ shdr[i].link \in DOMAIN shdr
                                /\ HasSectionInfo(shdr[i]) => shdr[i].info \in DOMAIN shdr
  BY DEF IInv, TypeOK, TypeTables
<1>3. ASSUME NEW ndx \in DOMAIN shdr, NEW ndx0, Suit(ndx, ndx0)
      PROVE  Suit(ndx, ndx0)'
  BY <1>1, <1>3 DEF Suit, CorpsNul
<1>4. Suit(ehdr.e_shstrndx, image.ehdr.e_shstrndx)'
  <2> PICK e, e0 : e = ehdr.e_shstrndx /\ e0 = image.ehdr.e_shstrndx
    OBVIOUS
  <2>1. Suit(e, e0)'
    BY <1>2, <1>3 DEF TableSuit
  <2> QED
    BY <2>1 DEF Suit
<1>5. ASSUME NEW i \in DOMAIN shdr, NEW o \in DOMAIN image.shdr, shdr[i].body = image.shdr[o].body
      PROVE  Suit(shdr[i].link, image.shdr[o].link)'
  <2> PICK e, e0 : e = shdr[i].link /\ e0 = image.shdr[o].link
    OBVIOUS
  <2>1. Suit(e, e0)'
    BY <1>2, <1>3, <1>5 DEF TableSuit
  <2> QED
    BY <2>1 DEF Suit
<1>6. ASSUME NEW i \in DOMAIN shdr, NEW o \in DOMAIN image.shdr, shdr[i].body = image.shdr[o].body,
             HasSectionInfo(shdr[i])
      PROVE  Suit(shdr[i].info, image.shdr[o].info)'
  <2> PICK e, e0 : e = shdr[i].info /\ e0 = image.shdr[o].info
    OBVIOUS
  <2>1. Suit(e, e0)'
    BY <1>2, <1>3, <1>6 DEF TableSuit
  <2> QED
    BY <2>1 DEF Suit
<1>7. \A i \in DOMAIN shdr : HasSectionInfo(shdr[i])' <=> HasSectionInfo(shdr[i])
  BY DEF HasSectionInfo
<1> QED
  BY <1>4, <1>5, <1>6, <1>7 DEF TableSuit

(***************************************************************************)
(* A number that follows its section follows it through a removal.         *)
(***************************************************************************)
LEMMA RenumeroAncien ==
  ASSUME NEW n \in 2 .. 255, NEW x \in 1 .. n - 1, NEW j \in 0 .. n - 1
  PROVE  /\ renumero_index_section(j, x) \in 0 .. n - 2
         /\ Ancien(renumero_index_section(j, x), x) = IF j = x THEN 0 ELSE j
BY DEF Ancien, renumero_index_section

(***************************************************************************)
(* A removal takes exactly one section away.                               *)
(***************************************************************************)
LEMMA PresentsRetrait ==
  ASSUME IInv, NEW n, n = ehdr.e_shnum, NEW x \in 1 .. n - 1,
         shdr' = TableAfter(shdr, n, x)
  PROVE  Presents' = Presents \ {shdr[x].body}
<1>1. /\ TypeTables /\ ImageOK(image) /\ CorpsOK
      /\ DOMAIN shdr = 0 .. n - 1 /\ x \in DOMAIN shdr
  BY DEF IInv, TypeOK, TypeOptions, TypeTables
<1>2. /\ n \in 2 .. 255 /\ DOMAIN shdr' = 0 .. n - 2
      /\ \A i \in 0 .. n - 2 : shdr'[i].body = shdr[Ancien(i, x)].body
  BY <1>1, Retrait
<1>3. n \in 2 .. 255
  BY <1>2
<1>4. ASSUME NEW i \in 0 .. n - 2 PROVE Ancien(i, x) \in DOMAIN shdr /\ Ancien(i, x) # x
  <2>1. Ancien(i, x) \in 0 .. n - 1 /\ Ancien(i, x) # x
    BY <1>3, <1>4 DEF Ancien
  <2> QED
    BY <1>1, <2>1
<1>5. ASSUME NEW j \in DOMAIN shdr, j # x PROVE \E i \in 0 .. n - 2 : Ancien(i, x) = j
  <2>1. j \in 0 .. n - 1
    BY <1>1, <1>5
  <2>2. /\ renumero_index_section(j, x) \in 0 .. n - 2
        /\ Ancien(renumero_index_section(j, x), x) = j
    BY <1>3, <1>5, <2>1, RenumeroAncien
  <2> QED
    BY <2>2
<1>6. ASSUME NEW c PROVE c \in Presents' <=> \E i \in 0 .. n - 2 : c = shdr[Ancien(i, x)].body
  <2>1. c \in Presents' <=> \E i \in DOMAIN shdr' : c = shdr'[i].body
    BY DEF Presents
  <2>2. \A i \in 0 .. n - 2 : shdr'[i].body = shdr[Ancien(i, x)].body
    BY <1>2
  <2>3. DOMAIN shdr' = 0 .. n - 2
    BY <1>2
  <2> QED
    BY <2>1, <2>2, <2>3
<1>7. \A c : c \in Presents <=> \E j \in DOMAIN shdr : c = shdr[j].body
  BY DEF Presents
<1>8. \A i, j \in DOMAIN shdr : shdr[i].body = shdr[j].body => i = j
  BY <1>1 DEF CorpsOK
<1>9. \A c : c \in Presents' <=> c \in Presents /\ c # shdr[x].body
  BY <1>1, <1>4, <1>5, <1>6, <1>7, <1>8
<1> QED
  BY <1>9

LEMMA SuitRetrait ==
  ASSUME IInv, NEW n, n = ehdr.e_shnum, NEW x \in 1 .. n - 1,
         shdr' = TableAfter(shdr, n, x), image' = image,
         NEW ndx \in DOMAIN shdr, NEW ndx0, Suit(ndx, ndx0)
  PROVE  Suit(renumero_index_section(ndx, x), ndx0)'
<1> DEFINE m == renumero_index_section(ndx, x)
           b == image.shdr[ndx0].body
<1>1. /\ TypeTables /\ ImageOK(image) /\ CorpsOK
      /\ DOMAIN shdr = 0 .. n - 1 /\ x \in DOMAIN shdr
  BY DEF IInv, TypeOK, TypeOptions, TypeTables
<1>2. /\ n \in 2 .. 255 /\ DOMAIN shdr' = 0 .. n - 2
      /\ \A i \in 0 .. n - 2 : shdr'[i].body = shdr[Ancien(i, x)].body
  BY <1>1, Retrait
<1>21. n \in 2 .. 255
  BY <1>2
<1>3. Presents' = Presents \ {shdr[x].body}
  BY PresentsRetrait
<1>4. /\ m \in 0 .. n - 2
      /\ shdr'[m].body = IF ndx = x THEN CorpsNul ELSE shdr[ndx].body
  <2>1. m \in 0 .. n - 2 /\ Ancien(m, x) = IF ndx = x THEN 0 ELSE ndx
    <3>1. ndx \in 0 .. n - 1
      BY <1>1
    <3> QED
      BY <1>21, <3>1, RenumeroAncien
  <2> HIDE DEF m
  <2>2. shdr'[m].body = shdr[Ancien(m, x)].body
    BY <1>2, <2>1
  <2> QED
    BY <1>1, <2>1, <2>2 DEF CorpsOK
<1>5. shdr[ndx].body = IF b \in Presents THEN b ELSE CorpsNul
  BY DEF Suit
<1>6. shdr[x].body # CorpsNul
  <2>1. x # 0 /\ 0 \in DOMAIN shdr
    <3>1. x # 0 /\ 0 \in 0 .. n - 1
      BY <1>21
    <3> QED
      BY <1>1, <3>1
  <2> QED
    BY <1>1, <2>1 DEF CorpsOK
<1>7. ndx # x => shdr[ndx].body # shdr[x].body
  BY <1>1 DEF CorpsOK
<1> HIDE DEF m
<1>8. shdr'[m].body = IF b \in Presents' THEN b ELSE CorpsNul
  <2> HIDE DEF b
  <2> QED
    BY <1>1, <1>3, <1>4, <1>5, <1>6, <1>7 DEF Presents
<1>9. image'.shdr[ndx0].body = b /\ CorpsNul' = CorpsNul
  BY DEF CorpsNul
<1> QED
  BY <1>8, <1>9 DEF Suit, m

LEMMA TableSupprime == IInv /\ TableSuit /\ SupprimerUneSection => TableSuit'
<1> SUFFICES ASSUME IInv, TableSuit, SupprimerUneSection PROVE TableSuit'
  OBVIOUS
<1> PICK x : x = Section(get_nom_rel_corre(str_section[tour]))
  OBVIOUS
<1> PICK n : n = ehdr.e_shnum
  OBVIOUS
<1>1. /\ TypeTables /\ ImageOK(image) /\ CorpsOK /\ etape = "supprime"
  BY DEF IInv, TypeOK, TypeOptions, SupprimerUneSection
<1>2. CASE x = -1 /\ ~Arret("abandon")
  <2>1. UNCHANGED <<image, ehdr, shdr>>
    BY <1>2 DEF SupprimerUneSection, entree, tables
  <2> QED
    BY <2>1, TableCadre
<1>3. CASE x # -1 /\ ~Arret("abandon")
  <2>1. x \in 1 .. n - 1
    BY <1>1, <1>3, RetireNonNulle
  <2>2. /\ ehdr' = [ehdr EXCEPT !.e_shstrndx = renumero_index_section(@, x), !.e_shnum = @ - 1]
        /\ shdr' = TableAfter(shdr, n, x) /\ image' = image
    BY <1>3 DEF SupprimerUneSection, entree
  <2>3. /\ n \in 2 .. 255 /\ DOMAIN shdr' = 0 .. n - 2 /\ DOMAIN shdr = 0 .. n - 1
        /\ \A i \in 0 .. n - 2 :
              LET h == shdr[Ancien(i, x)] IN
              /\ shdr'[i].link = renumero_index_section(h.link, x)
              /\ HasSectionInfo(shdr'[i]) <=> HasSectionInfo(h)
              /\ HasSectionInfo(shdr'[i]) => shdr'[i].info = renumero_index_section(h.info, x)
              /\ shdr'[i].body = h.body
    <3>1. DOMAIN shdr = 0 .. n - 1
      BY <1>1 DEF TypeTables
    <3> QED
      BY <1>1, <2>1, <2>2, <3>1, Retrait
  <2>4. /\ ehdr.e_shstrndx \in DOMAIN shdr
        /\ \A i \in DOMAIN shdr : /\ shdr[i].link \in DOMAIN shdr
                                  /\ HasSectionInfo(shdr[i]) => shdr[i].info \in DOMAIN shdr
    BY <1>1 DEF TypeTables
  <2>5. ehdr'.e_shstrndx = renumero_index_section(ehdr.e_shstrndx, x)
    BY <1>1, <2>2 DEF TypeTables
  <2>6. ASSUME NEW ndx \in DOMAIN shdr, NEW ndx0, Suit(ndx, ndx0)
        PROVE  Suit(renumero_index_section(ndx, x), ndx0)'
    BY <2>1, <2>2, <2>6, SuitRetrait
  <2>7. Suit(ehdr.e_shstrndx, image.ehdr.e_shstrndx)'
    <3> PICK e : e = ehdr.e_shstrndx
      OBVIOUS
    <3> PICK e0 : e0 = image.ehdr.e_shstrndx
      OBVIOUS
    <3>1. Suit(renumero_index_section(e, x), e0)'
      BY <2>4, <2>6 DEF TableSuit
    <3> QED
      BY <2>2, <2>5, <3>1 DEF Suit
  <2>8. ASSUME NEW i \in DOMAIN shdr', NEW o \in DOMAIN image.shdr,
                shdr'[i].body = image.shdr[o].body
         PROVE  /\ Suit(shdr[i].link, image.shdr[o].link)'
                /\ HasSectionInfo(shdr[i])' => Suit(shdr[i].info, image.shdr[o].info)'
    <3> PICK j : j = Ancien(i, x)
      OBVIOUS
    <3>1. i \in 0 .. n - 2
      BY <2>3, <2>8
    <3>2. j \in DOMAIN shdr
      <4>1. Ancien(i, x) \in 0 .. n - 1
        BY <2>1, <2>3, <3>1, AncienFaits
      <4> QED
        BY <2>3, <4>1
    <3>3. shdr[j].body = image.shdr[o].body
      BY <2>3, <2>8, <3>1
    <3>4. /\ Suit(shdr[j].link, image.shdr[o].link)
          /\ HasSectionInfo(shdr[j]) => Suit(shdr[j].info, image.shdr[o].info)
      BY <3>2, <3>3, <2>8 DEF TableSuit
    <3>5. Suit(shdr[i].link, image.shdr[o].link)'
      <4> PICK e : e = shdr[j].link
        OBVIOUS
      <4> PICK e0 : e0 = image.shdr[o].link
        OBVIOUS
      <4>1. Suit(renumero_index_section(e, x), e0)'
        BY <2>4, <2>6, <3>2, <3>4
      <4>2. shdr'[i].link = renumero_index_section(e, x)
        BY <2>3, <3>1
      <4> QED
        BY <2>2, <4>1, <4>2 DEF Suit
    <3>6. ASSUME HasSectionInfo(shdr[i])' PROVE Suit(shdr[i].info, image.shdr[o].info)'
      <4> PICK e : e = shdr[j].info
        OBVIOUS
      <4> PICK e0 : e0 = image.shdr[o].info
        OBVIOUS
      <4>1. HasSectionInfo(shdr[j])
        BY <2>3, <3>1, <3>6
      <4>2. Suit(renumero_index_section(e, x), e0)'
        BY <2>4, <2>6, <3>2, <3>4, <4>1
      <4>3. shdr'[i].info = renumero_index_section(e, x)
        BY <2>3, <3>1, <3>6
      <4> QED
        BY <2>2, <4>2, <4>3 DEF Suit
    <3> QED
      BY <3>5, <3>6
  <2> QED
    BY <2>2, <2>7, <2>8 DEF TableSuit
<1>4. CASE Arret("abandon")
  BY <1>4, TableCadre DEF Arret, entree, tables
<1> QED
  BY <1>2, <1>3, <1>4

LEMMA TableAutres ==
  ASSUME IInv, TableSuit, [Next]_vars, ~SupprimerUneSection
  PROVE  TableSuit'
<1>1. CASE UNCHANGED <<image, ehdr, shdr>>
  BY <1>1, TableCadre
<1>2. CASE AddrCharge /\ ~UNCHANGED <<image, ehdr, shdr>>
  <2> PICK s : s = Section(str_section[tour])
    OBVIOUS
  <2>1. ~Arret("indefini") /\ ~Arret("abandon")
    BY <1>2 DEF Arret, tables, entree
  <2>2. PICK addr : /\ UNCHANGED shdr \/ shdr' = [shdr EXCEPT ![s].addr = addr]
                    /\ UNCHANGED <<image, ehdr>>
    BY <1>2, <2>1 DEF AddrCharge, entree
  <2>3. shdr' = [shdr EXCEPT ![s].addr = addr]
    BY <1>2, <2>2
  <2>4. DOMAIN shdr' = DOMAIN shdr
    BY <2>3
  <2>5. ASSUME NEW i \in DOMAIN shdr
        PROVE  /\ shdr'[i].body = shdr[i].body /\ shdr'[i].type = shdr[i].type
               /\ shdr'[i].link = shdr[i].link /\ shdr'[i].info = shdr[i].info
    <3>1. shdr \in [0 .. ehdr.e_shnum - 1 -> EnTete]
      BY DEF IInv, TypeOK, TypeTables
    <3>2. shdr'[i] = IF i = s THEN [shdr[i] EXCEPT !.addr = addr] ELSE shdr[i]
      BY <2>3, <2>5, <3>1
    <3>3. shdr[i] \in EnTete
      BY <2>5, <3>1
    <3> QED
      BY <3>2, <3>3 DEF EnTete
  <2> QED
    BY <2>2, <2>4, <2>5, TableCadre
<1>3. CASE CorrigeNdx
  <2>1. UNCHANGED <<image, ehdr, shdr>>
    BY <1>3 DEF CorrigeNdx, Arret, entree, tables
  <2> QED
    BY <2>1, TableCadre
<1>4. CASE Next /\ ~AddrCharge /\ ~CorrigeNdx
  <2>1. UNCHANGED <<image, ehdr, shdr>>
    BY <1>4 DEF Next, OptionSection, OptionSortie, ErreurOptions, FinOptions, PasseSection, ReimplantEchoue,
                ReimplanteEntree, SectionReimplantee, FinReimplants, ProduExecutable,
                Arret, entree, tables
  <2> QED
    BY <2>1, TableCadre
<1> QED
  BY <1>1, <1>2, <1>3, <1>4 DEF vars, entree, tables

(***************************************************************************)
(* Whatever the object file, the options and the order of its sections:    *)
(* sh_link, sh_info of the relocation sections and e_shstrndx always name  *)
(* the section they named in the object file, or the null section once     *)
(* that section is removed.                                                *)
(***************************************************************************)
THEOREM TableSuitToujours == Spec => []TableSuit
<1>1. Init => TableSuit
  BY InitTable
<1>2. IInv /\ TableSuit /\ [Next]_vars => TableSuit'
  BY TableSupprime, TableAutres
<1> QED
  BY <1>1, <1>2, IInvToujours, PTL DEF Spec

-----------------------------------------------------------------------------
(***************************************************************************)
(* The members of the group.  supprimer_une_section corrects the first     *)
(* section called .group only, so the object file may have one; and it     *)
(* corrects bytes, so its words must stay below 256.                       *)
(***************************************************************************)
UnSeulGroupe ==
  \A o, p \in DOMAIN image.shdr :
    image.shdr[o].name = Group /\ image.shdr[p].name = Group => o = p

MembresOK ==
  \A i \in DOMAIN shdr : shdr[i].name = Group =>
    /\ shdr[i].body \in DOMAIN group
    /\ DOMAIN group[shdr[i].body] = DOMAIN image.group[shdr[i].body]
    /\ \A w \in DOMAIN group[shdr[i].body] : group[shdr[i].body][w] \in DOMAIN shdr

GroupeInv == UnSeulGroupe => MembresOK /\ GroupeSuit

LEMMA InitGroupe == Init => GroupeInv
<1> SUFFICES ASSUME Init PROVE MembresOK /\ GroupeSuit
  BY DEF GroupeInv
<1>1. ImageOK(image) /\ shdr = image.shdr /\ group = image.group
  BY ImagesAssumption DEF Init
<1>2. DOMAIN shdr = 0 .. image.ehdr.e_shnum - 1 /\ image.group \in [Corps -> Seq(0 .. image.ehdr.e_shnum - 1)]
  BY <1>1 DEF ImageOK
<1>3. ASSUME NEW i \in DOMAIN shdr PROVE shdr[i].body \in Corps
  BY <1>1, <1>3 DEF ImageOK, EnTete
<1>4. ASSUME NEW m \in DOMAIN shdr PROVE Suit(m, m)
  BY <1>1, <1>4 DEF Suit, Presents
<1>5. ASSUME NEW i \in DOMAIN shdr, NEW w \in DOMAIN group[shdr[i].body]
      PROVE  group[shdr[i].body][w] \in DOMAIN shdr
  <2>1. image.group[shdr[i].body] \in Seq(0 .. image.ehdr.e_shnum - 1)
    BY <1>2, <1>3, <1>5
  <2> PICK f : f = image.group[shdr[i].body]
    OBVIOUS
  <2>2. f \in Seq(0 .. image.ehdr.e_shnum - 1) /\ w \in DOMAIN f
    BY <1>1, <1>5, <2>1
  <2>3. f[w] \in 0 .. image.ehdr.e_shnum - 1
    <3> DEFINE S == 0 .. image.ehdr.e_shnum - 1
    <3> HIDE DEF S
    <3>1. f \in Seq(S) /\ w \in DOMAIN f
      BY <2>2 DEF S
    <3>2. f[w] \in S
      BY <3>1
    <3> QED
      BY <3>2 DEF S
  <2> QED
    BY <1>1, <1>2, <2>3
<1>6. MembresOK
  BY <1>1, <1>2, <1>3, <1>5 DEF MembresOK
<1>7. ASSUME NEW i \in DOMAIN shdr, NEW w \in DOMAIN group[shdr[i].body]
      PROVE  Suit(group[shdr[i].body][w], image.group[shdr[i].body][w])
  BY <1>1, <1>4, <1>5, <1>7
<1> QED
  BY <1>1, <1>6, <1>7 DEF GroupeSuit

(***************************************************************************)
(* Steps that leave the group and the names and contents of the table      *)
(* alone.                                                                  *)
(***************************************************************************)
LEMMA GroupeCadre ==
  ASSUME GroupeInv, UNCHANGED <<image, group>>, DOMAIN shdr' = DOMAIN shdr,
         \A i \in DOMAIN shdr : shdr'[i].body = shdr[i].body /\ shdr'[i].name = shdr[i].name
  PROVE  GroupeInv'
<1>1. SUFFICES ASSUME UnSeulGroupe PROVE MembresOK' /\ GroupeSuit'
  BY DEF GroupeInv, UnSeulGroupe
<1>2. MembresOK /\ GroupeSuit
  BY <1>1 DEF GroupeInv
<1>3. Presents' = Presents /\ CorpsNul' = CorpsNul
  BY DEF Presents, CorpsNul
<1>4. MembresOK'
  BY <1>2 DEF MembresOK
<1>5. ASSUME NEW i \in DOMAIN shdr, shdr[i].name = Group,
             NEW w \in DOMAIN image.group[shdr[i].body]
      PROVE  Suit(group[shdr[i].body][w], image.group[shdr[i].body][w])'
  <2> PICK m, m0 : m = group[shdr[i].body][w] /\ m0 = image.group[shdr[i].body][w]
    OBVIOUS
  <2>1. m \in DOMAIN shdr /\ Suit(m, m0)
    BY <1>2, <1>5 DEF MembresOK, GroupeSuit
  <2>2. Suit(m, m0)'
    BY <1>3, <2>1 DEF Suit
  <2> QED
    BY <1>5, <2>2 DEF Suit
<1> QED
  BY <1>4, <1>5 DEF GroupeSuit

(***************************************************************************)
(* A word of the group is renumbered like every other section number.      *)
(***************************************************************************)
LEMMA MotRenumerote ==
  ASSUME NEW n \in 2 .. 255, NEW x \in 1 .. n - 1, NEW w \in 0 .. n - 1
  PROVE  GroupWordAfter(w, x) = renumero_index_section(w, x)
<1>1. w \div 256 = 0 /\ w % 256 = w
  BY SMT
<1>2. GroupByteAfter(0, x) = 0 /\ GroupByteAfter(w, x) = renumero_index_section(w, x)
  BY DEF GroupByteAfter, renumero_index_section
<1>3. renumero_index_section(w, x) \in Int
  BY DEF renumero_index_section
<1> QED
  BY <1>1, <1>2, <1>3 DEF GroupWordAfter

LEMMA GroupeUnique ==
  ASSUME IInv, UnSeulGroupe, NEW i \in DOMAIN shdr, shdr[i].name = Group
  PROVE  Section(Group) = i
<1>1. TypeTables /\ ImageOK(image) /\ CorpsOK
  BY DEF IInv, TypeOK, TypeOptions
<1>2. Section(Group) # -1
  <2>1. DOMAIN shdr = 0 .. ehdr.e_shnum - 1 /\ ehdr.e_shnum \in Nat
    BY <1>1 DEF TypeTables, ImageOK
  <2>2. LET r == chercher_index_de_section(shdr, Group) IN
           \/ r = -1 /\ \A k \in DOMAIN shdr : shdr[k].name # Group
           \/ r \in 0 .. ehdr.e_shnum - 1 /\ shdr[r].name = Group
    BY <2>1, Chercher
  <2> QED
    BY <2>1, <2>2 DEF Section
<1>3. Section(Group) \in DOMAIN shdr /\ shdr[Section(Group)].name = Group
  BY <1>1, <1>2, SectionTrouvee DEF TypeTables
<1>4. PICK o \in DOMAIN image.shdr : MemeSection(i, o)
  BY <1>1 DEF CorpsOK
<1> PICK s \in DOMAIN shdr : s = Section(Group)
  BY <1>3
<1>5. PICK p \in DOMAIN image.shdr : MemeSection(s, p)
  BY <1>1 DEF CorpsOK
<1>6. o = p
  BY <1>3, <1>4, <1>5 DEF UnSeulGroupe, MemeSection
<1>7. shdr[i].body = shdr[s].body
  BY <1>4, <1>5, <1>6 DEF MemeSection
<1> QED
  BY <1>1, <1>7 DEF CorpsOK

LEMMA GroupeSupprime == IInv /\ GroupeInv /\ SupprimerUneSection => GroupeInv'
<1> SUFFICES ASSUME IInv, GroupeInv, SupprimerUneSection PROVE GroupeInv'
  OBVIOUS
<1> PICK x : x = Section(get_nom_rel_corre(str_section[tour]))
  OBVIOUS
<1> PICK n : n = ehdr.e_shnum
  OBVIOUS
<1>1. /\ TypeTables /\ ImageOK(image) /\ CorpsOK /\ etape = "supprime"
  BY DEF IInv, TypeOK, TypeOptions, SupprimerUneSection
<1>2. CASE x = -1 /\ ~Arret("abandon")
  <2>1. UNCHANGED <<image, shdr, group>>
    BY <1>2 DEF SupprimerUneSection, entree, tables
  <2> QED
    BY <2>1, GroupeCadre
<1>3. CASE x # -1 /\ ~Arret("abandon")
  <2>1. /\ x \in 1 .. n - 1 /\ shdr[x].name # <<>> /\ Head(shdr[x].name) = ".rel"
    BY <1>1, <1>3, RetireNonNulle
  <2> PICK g : g = Section(Group)
    OBVIOUS
  <2>2. /\ shdr' = TableAfter(shdr, n, x) /\ image' = image
        /\ group' = IF g = -1 THEN group
                    ELSE [group EXCEPT ![shdr[g].body] =
                           [w \in DOMAIN @ |-> GroupWordAfter(@[w], x)]]
    BY <1>3 DEF SupprimerUneSection, entree
  <2>3. /\ n \in 2 .. 255 /\ DOMAIN shdr' = 0 .. n - 2 /\ DOMAIN shdr = 0 .. n - 1
        /\ \A i \in 0 .. n - 2 : /\ shdr'[i].body = shdr[Ancien(i, x)].body
                                 /\ shdr'[i].name = shdr[Ancien(i, x)].name
    BY <1>1, <2>1, <2>2, Retrait DEF TypeTables
  <2>4. SUFFICES ASSUME UnSeulGroupe, NEW i \in DOMAIN shdr', shdr'[i].name = Group
                 PROVE  /\ shdr'[i].body \in DOMAIN group'
                        /\ DOMAIN group'[shdr'[i].body] = DOMAIN image'.group[shdr'[i].body]
                        /\ \A w \in DOMAIN group'[shdr'[i].body] :
                             /\ group'[shdr'[i].body][w] \in DOMAIN shdr'
                             /\ Suit(group[shdr[i].body][w], image.group[shdr[i].body][w])'
    <3>1. UnSeulGroupe' = UnSeulGroupe
      BY <2>2 DEF UnSeulGroupe
    <3>2. ASSUME UnSeulGroupe, NEW i \in DOMAIN shdr', shdr'[i].name = Group
          PROVE  /\ shdr'[i].body \in DOMAIN group'
                 /\ DOMAIN group'[shdr'[i].body] = DOMAIN image'.group[shdr'[i].body]
                 /\ \A w \in DOMAIN group'[shdr'[i].body] : group'[shdr'[i].body][w] \in DOMAIN shdr'
      BY <2>4, <3>2
    <3>3. ASSUME UnSeulGroupe, NEW i \in DOMAIN shdr', shdr'[i].name = Group,
                 NEW w \in DOMAIN image'.group[shdr'[i].body]
          PROVE  Suit(group[shdr[i].body][w], image.group[shdr[i].body][w])'
      BY <2>4, <3>2, <3>3
    <3>4. UnSeulGroupe => MembresOK'
      BY <3>2 DEF MembresOK
    <3>5. UnSeulGroupe => GroupeSuit'
      BY <3>3 DEF GroupeSuit
    <3> QED
      BY <3>1, <3>4, <3>5 DEF GroupeInv
  <2> PICK j : j = Ancien(i, x)
    OBVIOUS
  <2>5. j \in DOMAIN shdr /\ shdr[j].name = Group /\ shdr'[i].body = shdr[j].body
    BY <2>1, <2>3, <2>4, AncienFaits
  <2>6. g = j
    BY <2>4, <2>5, GroupeUnique
  <2> PICK b : b = shdr[j].body
    OBVIOUS
  <2>7. /\ b \in DOMAIN group /\ DOMAIN group[b] = DOMAIN image.group[b]
        /\ \A w \in DOMAIN group[b] : /\ group[b][w] \in DOMAIN shdr
                                      /\ Suit(group[b][w], image.group[b][w])
    BY <2>4, <2>5 DEF GroupeInv, MembresOK, GroupeSuit
  <2>8. g # -1
    BY <2>3, <2>5, <2>6
  <2>9. /\ DOMAIN group' = DOMAIN group
        /\ group'[b] = [w \in DOMAIN group[b] |-> GroupWordAfter(group[b][w], x)]
    BY <2>2, <2>6, <2>7, <2>8
  <2>10. ASSUME NEW w \in DOMAIN group[b]
         PROVE  /\ group'[b][w] \in DOMAIN shdr'
                /\ Suit(group[shdr[i].body][w], image.group[shdr[i].body][w])'
    <3> PICK m, m0 : m = group[b][w] /\ m0 = image.group[b][w]
      OBVIOUS
    <3>1. m \in DOMAIN shdr /\ Suit(m, m0)
      BY <2>7, <2>10
    <3>2. group'[b][w] = renumero_index_section(m, x)
      <4>1. m \in 0 .. n - 1
        BY <2>3, <3>1
      <4>2. GroupWordAfter(m, x) = renumero_index_section(m, x)
        BY <2>1, <2>3, <4>1, MotRenumerote
      <4> QED
        BY <2>9, <2>10, <4>2
    <3>3. renumero_index_section(m, x) \in DOMAIN shdr'
      BY <2>1, <2>3, <3>1, RenumeroAncien
    <3>4. Suit(renumero_index_section(m, x), m0)'
      BY <2>1, <2>2, <3>1, SuitRetrait
    <3> QED
      BY <2>2, <2>5, <3>2, <3>3, <3>4 DEF Suit
  <2>11. /\ shdr'[i].body = b /\ b \in DOMAIN group'
         /\ DOMAIN group'[b] = DOMAIN group[b] /\ DOMAIN group[b] = DOMAIN image'.group[b]
    BY <2>2, <2>5, <2>7, <2>9
  <2>12. \A w \in DOMAIN group'[b] :
           /\ group'[b][w] \in DOMAIN shdr'
           /\ Suit(group[shdr[i].body][w], image.group[shdr[i].body][w])'
    BY <2>10, <2>11
  <2> QED
    BY <2>11, <2>12
<1>4. CASE Arret("abandon")
  BY <1>4, GroupeCadre DEF Arret, entree, tables
<1> QED
  BY <1>2, <1>3, <1>4

LEMMA GroupeAutres ==
  ASSUME IInv, GroupeInv, [Next]_vars, ~SupprimerUneSection
  PROVE  GroupeInv'
<1>1. CASE UNCHANGED <<image, shdr, group>>
  BY <1>1, GroupeCadre
<1>2. CASE AddrCharge /\ ~UNCHANGED <<image, shdr, group>>
  <2> PICK s : s = Section(str_section[tour])
    OBVIOUS
  <2>1. ~Arret("indefini") /\ ~Arret("abandon")
    BY <1>2 DEF Arret, tables, entree
  <2>2. PICK addr : /\ UNCHANGED shdr \/ shdr' = [shdr EXCEPT ![s].addr = addr]
                    /\ UNCHANGED <<image, group>>
    BY <1>2, <2>1 DEF AddrCharge, entree
  <2>3. shdr' = [shdr EXCEPT ![s].addr = addr]
    BY <1>2, <2>2
  <2>4. DOMAIN shdr' = DOMAIN shdr
    BY <2>3
  <2>5. ASSUME NEW i \in DOMAIN shdr
        PROVE  shdr'[i].body = shdr[i].body /\ shdr'[i].name = shdr[i].name
    <3>1. shdr \in [0 .. ehdr.e_shnum - 1 -> EnTete]
      BY DEF IInv, TypeOK, TypeTables
    <3>2. shdr'[i] = IF i = s THEN [shdr[i] EXCEPT !.addr = addr] ELSE shdr[i]
      BY <2>3, <2>5, <3>1
    <3>3. shdr[i] \in EnTete
      BY <2>5, <3>1
    <3> QED
      BY <3>2, <3>3 DEF EnTete
  <2> QED
    BY <2>2, <2>4, <2>5, GroupeCadre
<1>3. CASE CorrigeNdx
  <2>1. UNCHANGED <<image, shdr, group>>
    BY <1>3 DEF CorrigeNdx, Arret, entree, tables
  <2> QED
    BY <2>1, GroupeCadre
<1>4. CASE Next /\ ~AddrCharge /\ ~CorrigeNdx
  <2>1. UNCHANGED <<image, shdr, group>>
    BY <1>4 DEF Next, OptionSection, OptionSortie, ErreurOptions, FinOptions, PasseSection, ReimplantEchoue,
                ReimplanteEntree, SectionReimplantee, FinReimplants, ProduExecutable,
                Arret, entree, tables
  <2> QED
    BY <2>1, GroupeCadre
<1> QED
  BY <1>1, <1>2, <1>3, <1>4 DEF vars, entree, tables

(***************************************************************************)
(* For every object file with one group, whatever the options and the      *)
(* order of its sections: the members of the group stay the sections they  *)
(* were (the byte loop of supprimer_une_section, Etap6.c:61-75), or the    *)
(* null section once they are removed.                                     *)
(***************************************************************************)
THEOREM GroupeSuitToujours == Spec => [](UnSeulGroupe => GroupeSuit)
<1>1. Init => GroupeInv
  BY InitGroupe
<1>2. IInv /\ GroupeInv /\ [Next]_vars => GroupeInv'
  BY GroupeSupprime, GroupeAutres
<1>3. GroupeInv => (UnSeulGroupe => GroupeSuit)
  BY DEF GroupeInv
<1> QED
  BY <1>1, <1>2, <1>3, IInvToujours, PTL DEF Spec
=============================================================================
