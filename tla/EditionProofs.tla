--------------------------- MODULE EditionProofs ---------------------------
(***************************************************************************)
(* What the pipeline of Phase2 does as a whole, for object files and       *)
(* command lines of any size: the sections of the executable are the ones  *)
(* they should be and the pipeline implements EditionLiens; with a complete*)
(* command line and a sound file main succeeds, the executable then has the*)
(* segment, the sizes and the entry point it should have, and every word of*)
(* it is the one the ARM ELF rules ask for, whatever the order of the      *)
(* sections and of the relocation entries.                                 *)
(***************************************************************************)
EXTENDS Phase2Raffine, Phase2Proofs, SequenceTheorems

(***************************************************************************)
(* The sections of the executable.  A turn of the loop removes one section *)
(* of the name, so the object file must not have two of that name.         *)
(***************************************************************************)
NomsUniques ==
  \A t \in 0 .. MAXSIZE - 1, o, p \in DOMAIN image.shdr :
    /\ image.shdr[o].name = get_nom_rel_corre(str_section[t])
    /\ image.shdr[p].name = get_nom_rel_corre(str_section[t])
    => o = p

Faits ==   \* the turns whose section is removed
  CASE etape = "supprime" -> 0 .. tour - 1
    [] etape = "corrige"  -> 0 .. tour
    [] etape \in {"executable", "fini"} -> 0 .. MAXSIZE - 1
    [] OTHER -> {}

Ordonne ==
  \A i, j \in DOMAIN shdr, o, p \in DOMAIN image.shdr :
    shdr[i].body = image.shdr[o].body /\ shdr[j].body = image.shdr[p].body /\ i < j => o < p

RienDePlus ==   \* only what has to go is gone
  \A o \in DOMAIN image.shdr :
    \/ image.shdr[o].body \in Presents
    \/ etape # "options" /\ AOter(image.shdr[o])

RienDeMoins ==   \* what has to go is gone
  NomsUniques =>
    \A t \in Faits, i \in DOMAIN shdr : shdr[i].name # get_nom_rel_corre(str_section[t])

DansExe == exe # NoExe => etape = "fini" /\ exe.shdr = Decale(shdr)

OteInv ==
  /\ Ordonne /\ RienDePlus /\ RienDeMoins /\ DansExe
  /\ etape = "reimplants" => tour = 0

LEMMA InitOte == Init => OteInv
<1> SUFFICES ASSUME Init PROVE OteInv
  OBVIOUS
<1>1. ImageOK(image) /\ shdr = image.shdr /\ etape = "options" /\ exe = NoExe
  BY ImagesAssumption DEF Init
<1>2. \A o, p \in DOMAIN image.shdr : image.shdr[o].body = image.shdr[p].body => o = p
  <2>1. DOMAIN image.shdr = 0 .. image.ehdr.e_shnum - 1
    BY <1>1 DEF ImageOK
  <2>2. \A o, p \in 0 .. image.ehdr.e_shnum - 1 :
          image.shdr[o].body = image.shdr[p].body => o = p
    BY <1>1 DEF ImageOK
  <2> QED
    BY <2>1, <2>2
<1>3. Ordonne
  BY <1>1, <1>2 DEF Ordonne
<1>4. RienDePlus
  <2> SUFFICES ASSUME NEW o \in DOMAIN image.shdr PROVE image.shdr[o].body \in Presents
    BY DEF RienDePlus
  <2> QED
    BY <1>1 DEF Presents
<1>5. RienDeMoins
  BY <1>1 DEF RienDeMoins, Faits
<1> QED
  BY <1>1, <1>3, <1>4, <1>5 DEF OteInv, DansExe

(***************************************************************************)
(* Steps that leave the names and the contents of the table alone.         *)
(***************************************************************************)
LEMMA OteCadre ==
  ASSUME OteInv, image' = image, DOMAIN shdr' = DOMAIN shdr,
         \A i \in DOMAIN shdr : shdr'[i].body = shdr[i].body /\ shdr'[i].name = shdr[i].name,
         \/ etape = "options" /\ Faits' = {}
         \/ str_section' = str_section /\ etape' # "options" /\ Faits' \subseteq Faits
  PROVE  Ordonne' /\ RienDePlus' /\ RienDeMoins'
<1>1. Presents' = Presents
  BY DEF Presents
<1>2. Ordonne'
  BY DEF OteInv, Ordonne
<1>3. RienDePlus'
  <2> SUFFICES ASSUME NEW o \in DOMAIN image.shdr
               PROVE  \/ image'.shdr[o].body \in Presents'
                      \/ etape' # "options" /\ AOter(image.shdr[o])'
    BY DEF RienDePlus
  <2>1. \/ image.shdr[o].body \in Presents
        \/ etape # "options" /\ AOter(image.shdr[o])
    BY DEF OteInv, RienDePlus
  <2>2. CASE etape = "options"
    BY <1>1, <2>1, <2>2
  <2>3. CASE str_section' = str_section /\ etape' # "options"
    BY <1>1, <2>1, <2>3 DEF AOter
  <2> QED
    BY <2>2, <2>3
<1>4. RienDeMoins'
  <2>1. CASE Faits' = {}
    BY <2>1 DEF RienDeMoins
  <2>2. CASE str_section' = str_section /\ Faits' \subseteq Faits
    <3>1. NomsUniques' = NomsUniques
      BY <2>2 DEF NomsUniques
    <3> QED
      BY <2>2, <3>1 DEF OteInv, RienDeMoins
  <2> QED
    BY <2>1, <2>2
<1> QED
  BY <1>2, <1>3, <1>4

(***************************************************************************)
(* A look-up that fails leaves no header with the name.                    *)
(***************************************************************************)
LEMMA SectionAbsente ==
  ASSUME TypeTables, ImageOK(image), NEW nom, Section(nom) = -1
  PROVE  \A i \in DOMAIN shdr : shdr[i].name # nom
<1>1. ehdr.e_shnum \in Nat /\ DOMAIN shdr = 0 .. ehdr.e_shnum - 1
  BY SectionTrouvee DEF TypeTables
<1>2. LET r == chercher_index_de_section(shdr, nom) IN
         \/ r = -1 /\ \A i \in DOMAIN shdr : shdr[i].name # nom
         \/ r \in 0 .. ehdr.e_shnum - 1 /\ shdr[r].name = nom
  BY <1>1, Chercher
<1> QED
  BY <1>1, <1>2 DEF Section

LEMMA FaitsSuivants ==
  ASSUME TypeLocaux,
         \/ etape = "supprime" /\ Suivante("executable")
         \/ etape = "supprime" /\ etape' = "corrige" /\ tour' = tour
  PROVE  Faits' = Faits \union {tour}
<1>1. tour \in 0 .. 1
  BY DEF TypeLocaux, MAXSIZE
<1> QED
  BY <1>1 DEF Faits, Suivante, MAXSIZE

LEMMA FaitsCorriges ==
  ASSUME TypeLocaux, etape = "corrige",
         IF tour + 1 < MAXSIZE THEN etape' = "supprime" /\ tour' = tour + 1
                               ELSE etape' = "executable" /\ tour' = 0
  PROVE  Faits' = Faits /\ etape' # "options"
<1>1. tour \in 0 .. 1
  BY DEF TypeLocaux, MAXSIZE
<1> QED
  BY <1>1 DEF Faits, MAXSIZE

LEMMA CorpsDImage ==
  ASSUME ImageOK(image), NEW o \in DOMAIN image.shdr, NEW p \in DOMAIN image.shdr,
         image.shdr[o].body = image.shdr[p].body
  PROVE  o = p
<1>1. DOMAIN image.shdr = 0 .. image.ehdr.e_shnum - 1
  BY DEF ImageOK
<1> QED
  BY <1>1 DEF ImageOK

LEMMA OteSupprime == IInv /\ OteInv /\ SupprimerUneSection => OteInv'
<1> SUFFICES ASSUME IInv, OteInv, SupprimerUneSection PROVE OteInv'
  OBVIOUS
<1> PICK nom : nom = get_nom_rel_corre(str_section[tour])
  OBVIOUS
<1> PICK x : x = Section(nom)
  OBVIOUS
<1> PICK n : n = ehdr.e_shnum
  OBVIOUS
<1>1. /\ TypeTables /\ TypeLocaux /\ ImageOK(image) /\ CorpsOK /\ etape = "supprime"
      /\ tour \in 0 .. MAXSIZE - 1
  BY DEF IInv, TypeOK, TypeOptions, TypeLocaux, SupprimerUneSection
<1>2. DansExe' /\ etape' \notin {"options", "reimplants"} /\ image' = image /\ str_section' = str_section
  <2>1. exe = NoExe
    BY <1>1 DEF OteInv, DansExe
  <2>2. CASE x = -1 /\ ~Arret("abandon")
    BY <1>1, <2>1, <2>2 DEF SupprimerUneSection, Suivante, DansExe, entree, options
  <2>3. CASE x # -1 /\ ~Arret("abandon")
    BY <1>1, <2>1, <2>3 DEF SupprimerUneSection, DansExe, entree, options
  <2>4. CASE Arret("abandon")
    BY <2>1, <2>4 DEF Arret, DansExe, entree, options
  <2> QED
    BY <2>2, <2>3, <2>4
<1>3. ~Arret("abandon") => Faits' = Faits \union {tour}
  <2>1. CASE x = -1
    BY <1>1, <2>1, FaitsSuivants DEF SupprimerUneSection
  <2>2. CASE x # -1
    BY <1>1, <2>2, FaitsSuivants DEF SupprimerUneSection
  <2> QED
    BY <2>1, <2>2
<1>4. NomsUniques' = NomsUniques
  BY <1>2 DEF NomsUniques
<1>5. CASE x = -1 /\ ~Arret("abandon")
  <2>1. shdr' = shdr
    BY <1>5 DEF SupprimerUneSection, tables
  <2>2. Ordonne'
    BY <1>2, <2>1 DEF OteInv, Ordonne
  <2>3. RienDePlus'
    BY <1>1, <1>2, <2>1 DEF OteInv, RienDePlus, Presents, AOter
  <2>4. \A i \in DOMAIN shdr : shdr[i].name # nom
    BY <1>1, <1>5, SectionAbsente
  <2>5. RienDeMoins'
    BY <1>2, <1>3, <1>4, <1>5, <2>1, <2>4 DEF OteInv, RienDeMoins
  <2> QED
    BY <1>2, <2>2, <2>3, <2>5 DEF OteInv
<1>6. CASE x # -1 /\ ~Arret("abandon")
  <2>1. x \in 1 .. n - 1
    BY <1>1, <1>6, RetireNonNulle
  <2>2. shdr' = TableAfter(shdr, n, x) /\ shdr[x].name = nom
    BY <1>1, <1>6, SectionTrouvee DEF SupprimerUneSection
  <2>3. /\ n \in 2 .. 255 /\ DOMAIN shdr' = 0 .. n - 2 /\ DOMAIN shdr = 0 .. n - 1
        /\ \A i \in 0 .. n - 2 : /\ shdr'[i].body = shdr[Ancien(i, x)].body
                                 /\ shdr'[i].name = shdr[Ancien(i, x)].name
    BY <1>1, <2>1, <2>2, Retrait DEF TypeTables
  <2>31. n \in 2 .. 255
    BY <2>3
  <2>4. ASSUME NEW i \in 0 .. n - 2
        PROVE  Ancien(i, x) \in DOMAIN shdr /\ Ancien(i, x) # x
    <3>1. Ancien(i, x) \in 0 .. n - 1 /\ Ancien(i, x) # x
      BY <2>1, <2>31, <2>4 DEF Ancien
    <3> QED
      BY <2>3, <3>1
  <2>5. Ordonne'
    <3> SUFFICES ASSUME NEW i \in 0 .. n - 2, NEW j \in 0 .. n - 2,
                        NEW o \in DOMAIN image.shdr, NEW p \in DOMAIN image.shdr,
                        shdr'[i].body = image.shdr[o].body,
                        shdr'[j].body = image.shdr[p].body, i < j
                 PROVE  o < p
      BY <1>2, <2>3 DEF Ordonne
    <3>1. Ancien(i, x) < Ancien(j, x)
      BY <2>1, <2>31 DEF Ancien
    <3> QED
      BY <2>3, <2>4, <3>1 DEF OteInv, Ordonne
  <2>6. RienDePlus'
    <3>1. Presents' = Presents \ {shdr[x].body}
      BY <2>1, <2>2, PresentsRetrait
    <3>2. ASSUME NEW o \in DOMAIN image.shdr, image.shdr[o].body = shdr[x].body
          PROVE  AOter(image.shdr[o])'
      <4>1. x \in DOMAIN shdr
        BY <2>1, <2>3
      <4>2. PICK p \in DOMAIN image.shdr : MemeSection(x, p)
        BY <1>1, <4>1 DEF CorpsOK
      <4>3. o = p
        BY <1>1, <3>2, <4>2, CorpsDImage DEF MemeSection
      <4>4. image.shdr[o].name = get_nom_rel_corre(str_section[tour])
        BY <2>2, <4>2, <4>3 DEF MemeSection
      <4> QED
        BY <1>1, <1>2, <4>4 DEF AOter
    <3> QED
      BY <1>1, <1>2, <3>1, <3>2 DEF OteInv, RienDePlus, AOter
  <2>7. RienDeMoins'
    <3> SUFFICES ASSUME NomsUniques, NEW t \in Faits \union {tour}, NEW i \in 0 .. n - 2,
                        shdr'[i].name = get_nom_rel_corre(str_section[t])
                 PROVE  FALSE
      BY <1>2, <1>3, <1>4, <1>6, <2>3 DEF RienDeMoins
    <3> PICK j : j = Ancien(i, x)
      OBVIOUS
    <3>1. j \in DOMAIN shdr /\ j # x /\ shdr[j].name = get_nom_rel_corre(str_section[t])
      BY <2>3, <2>4
    <3>2. t = tour
      BY <3>1 DEF OteInv, RienDeMoins
    <3>3. x \in DOMAIN shdr
      BY <2>1, <2>3
    <3>4. PICK o \in DOMAIN image.shdr : MemeSection(j, o)
      BY <1>1, <3>1 DEF CorpsOK
    <3>5. PICK p \in DOMAIN image.shdr : MemeSection(x, p)
      BY <1>1, <3>3 DEF CorpsOK
    <3>6. o = p
      BY <1>1, <2>2, <3>1, <3>2, <3>4, <3>5 DEF NomsUniques, MemeSection
    <3> QED
      BY <1>1, <3>1, <3>3, <3>4, <3>5, <3>6 DEF CorpsOK, MemeSection
  <2> QED
    BY <1>2, <2>5, <2>6, <2>7 DEF OteInv
<1>7. CASE Arret("abandon")
  <2>1. UNCHANGED <<image, shdr, str_section>> /\ etape' = "abandon" /\ Faits' = {}
    BY <1>7 DEF Arret, entree, options, tables, Faits
  <2> QED
    BY <1>2, <2>1, OteCadre DEF OteInv
<1> QED
  BY <1>5, <1>6, <1>7

(***************************************************************************)
(* The other steps: the table keeps its names, and a step that reads the   *)
(* options or stops has nothing removed.                                   *)
(***************************************************************************)
LEMMA AddrChargeNoms ==
  ASSUME IInv, AddrCharge
  PROVE  /\ image' = image /\ str_section' = str_section /\ exe' = exe
         /\ etape' # "options" /\ Faits' = {}
         /\ etape' = "reimplants" => tour' = 0
         /\ DOMAIN shdr' = DOMAIN shdr
         /\ \A i \in DOMAIN shdr : /\ shdr'[i].body = shdr[i].body
                                   /\ shdr'[i].name = shdr[i].name
                                   /\ shdr'[i].type = shdr[i].type
                                   /\ shdr'[i].size = shdr[i].size
                                   /\ shdr'[i].offset = shdr[i].offset
                                   /\ shdr'[i].entsize = shdr[i].entsize
<1>1. TypeTables /\ TypeLocaux /\ etape = "charge" /\ tour \in 0 .. 1
  BY DEF IInv, TypeOK, TypeLocaux, AddrCharge, MAXSIZE
<1>2. CASE Arret("indefini") \/ Arret("abandon")
  BY <1>2 DEF Arret, entree, options, tables, Faits
<1>3. CASE ~(Arret("indefini") \/ Arret("abandon"))
  <2> PICK s : s = Section(str_section[tour])
    OBVIOUS
  <2>1. PICK addr : /\ UNCHANGED shdr \/ shdr' = [shdr EXCEPT ![s].addr = addr]
                    /\ Suivante("reimplants")
                    /\ UNCHANGED <<image, str_section, exe>>
    BY <1>3 DEF AddrCharge, entree, options
  <2>2. etape' # "options" /\ Faits' = {} /\ (etape' = "reimplants" => tour' = 0)
    <3>1. \/ etape' = "charge"
          \/ etape' = "reimplants" /\ tour' = 0
      BY <1>1, <2>1 DEF Suivante
    <3> QED
      BY <3>1 DEF Faits
  <2>3. DOMAIN shdr' = DOMAIN shdr
    BY <2>1
  <2>4. ASSUME NEW i \in DOMAIN shdr
        PROVE  /\ shdr'[i].body = shdr[i].body /\ shdr'[i].name = shdr[i].name
               /\ shdr'[i].type = shdr[i].type /\ shdr'[i].size = shdr[i].size
               /\ shdr'[i].offset = shdr[i].offset /\ shdr'[i].entsize = shdr[i].entsize
    <3>1. shdr[i] \in EnTete
      BY <1>1, <2>4 DEF TypeTables
    <3>2. shdr'[i] = shdr[i] \/ shdr'[i] = [shdr[i] EXCEPT !.addr = addr]
      BY <1>1, <2>1, <2>4 DEF TypeTables
    <3> QED
      BY <3>1, <3>2 DEF EnTete
  <2> QED
    BY <2>1, <2>2, <2>3, <2>4
<1> QED
  BY <1>2, <1>3

LEMMA OteOptions ==
  ASSUME OteInv, OptionSection \/ OptionSortie \/ ErreurOptions \/ FinOptions
  PROVE  OteInv'
<1>1. etape = "options" /\ UNCHANGED <<image, shdr, exe>>
  BY DEF OptionSection, OptionSortie, ErreurOptions, FinOptions, Arret, entree, tables
<1>2. etape' \in {"options", "indefini", "abandon", "erreur", "charge"}
  BY <1>1 DEF OptionSection, OptionSortie, ErreurOptions, FinOptions, Arret
<1>3. Faits' = {} /\ etape' # "reimplants"
  BY <1>2 DEF Faits
<1>4. exe' = NoExe
  BY <1>1 DEF OteInv, DansExe
<1> QED
  BY <1>1, <1>3, <1>4, OteCadre DEF OteInv, DansExe

LEMMA OteReimplants ==
  ASSUME OteInv,
         \/ PasseSection \/ ReimplantEchoue \/ ReimplanteEntree
         \/ SectionReimplantee \/ FinReimplants
  PROVE  OteInv'
<1>1. etape = "reimplants" /\ UNCHANGED <<image, shdr, exe, tour, str_section>>
  BY DEF PasseSection, ReimplantEchoue, ReimplanteEntree, SectionReimplantee, FinReimplants,
         Arret, entree, options, tables
<1>2. etape' \in {"reimplants", "abandon", "supprime"} /\ tour = 0
  BY <1>1 DEF PasseSection, ReimplantEchoue, ReimplanteEntree, SectionReimplantee, FinReimplants,
              Arret, OteInv
<1>3. Faits' = {} /\ etape' # "options"
  BY <1>1, <1>2 DEF Faits
<1>4. exe' = NoExe
  BY <1>1 DEF OteInv, DansExe
<1> QED
  BY <1>1, <1>2, <1>3, <1>4, OteCadre DEF OteInv, DansExe

LEMMA OteCorrige ==
  ASSUME IInv, OteInv, CorrigeNdx
  PROVE  OteInv'
<1>1. TypeLocaux /\ etape = "corrige" /\ UNCHANGED <<image, shdr, exe, str_section>>
  BY DEF IInv, TypeOK, CorrigeNdx, Arret, entree, options, tables
<1>2. exe' = NoExe
  BY <1>1 DEF OteInv, DansExe
<1>3. CASE Arret("abandon")
  <2>1. Faits' = {} /\ etape' = "abandon"
    BY <1>3 DEF Arret, Faits
  <2> QED
    BY <1>1, <1>2, <2>1, OteCadre DEF OteInv, DansExe
<1>4. CASE IF tour + 1 < MAXSIZE THEN etape' = "supprime" /\ tour' = tour + 1
                                 ELSE etape' = "executable" /\ tour' = 0
  <2>1. Faits' = Faits /\ etape' # "options" /\ etape' # "reimplants"
    BY <1>1, <1>4, FaitsCorriges
  <2> QED
    BY <1>1, <1>2, <2>1, OteCadre DEF OteInv, DansExe
<1> QED
  BY <1>3, <1>4 DEF CorrigeNdx

LEMMA OteProdu ==
  ASSUME OteInv, ProduExecutable
  PROVE  OteInv'
<1>1. etape = "executable" /\ UNCHANGED <<image, shdr, tour, str_section>>
  BY DEF ProduExecutable, Arret, entree, options, tables
<1>2. exe = NoExe
  BY <1>1 DEF OteInv, DansExe
<1>3. /\ etape' \in {"abandon", "fini", "indefini", "boucle"}
      /\ \/ exe' = NoExe
         \/ etape' = "fini" /\ exe'.shdr = Decale(shdr)
  <2>1. CASE \E fin \in {"abandon", "fini", "indefini", "boucle"} : Arret(fin)
    BY <1>2, <2>1 DEF Arret
  <2>2. CASE /\ etape' = "fini"
             /\ \E e, s : exe' = [ehdr |-> e, segments |-> s, shdr |-> Decale(shdr)]
    BY <2>2
  <2> QED
    BY <2>1, <2>2 DEF ProduExecutable
<1>4. Faits' \subseteq Faits /\ etape' # "options" /\ etape' # "reimplants"
  BY <1>1, <1>3 DEF Faits
<1> QED
  BY <1>1, <1>3, <1>4, OteCadre DEF OteInv, DansExe

LEMMA NextOte == IInv /\ OteInv /\ [Next]_vars => OteInv'
<1> SUFFICES ASSUME IInv, OteInv, [Next]_vars PROVE OteInv'
  OBVIOUS
<1>1. CASE AddrCharge
  <2>1. exe = NoExe
    BY <1>1 DEF OteInv, DansExe, AddrCharge
  <2> QED
    BY <1>1, <2>1, AddrChargeNoms, OteCadre DEF OteInv, DansExe
<1>2. CASE UNCHANGED vars
  <2>1. UNCHANGED <<image, shdr, str_section, etape, tour, exe>>
    BY <1>2 DEF vars, entree, options, tables
  <2>2. Faits' = Faits
    BY <2>1 DEF Faits
  <2> QED
    BY <2>1, <2>2, OteCadre DEF OteInv, DansExe, Faits
<1> QED
  BY <1>1, <1>2, OteOptions, OteReimplants, OteCorrige, OteProdu, OteSupprime DEF Next

LEMMA OteToujours == Spec => []OteInv
<1>1. Init => OteInv
  BY InitOte
<1>2. IInv /\ OteInv /\ [Next]_vars => OteInv'
  BY NextOte
<1> QED
  BY <1>1, <1>2, IInvToujours, PTL DEF Spec

-----------------------------------------------------------------------------
(***************************************************************************)
(* The pipeline implements EditionLiens.  First what the mapping gives for *)
(* a section that is in the table.                                         *)
(***************************************************************************)
Lecture ==
  /\ \A i \in DOMAIN shdr :
       /\ shdr[i].body \in Presents
       /\ Adresses[shdr[i].body] = shdr[i].addr
       /\ Liens[shdr[i].body] = shdr[shdr[i].link].body
       /\ HasSectionInfo(shdr[i]) => Infos[shdr[i].body] = shdr[shdr[i].info].body
       /\ shdr[i].body \in DOMAIN Infos <=> HasSectionInfo(shdr[i])
  /\ \A b \in Presents : \E i \in DOMAIN shdr : b = shdr[i].body
  /\ DOMAIN Infos \subseteq Presents

LEMMA LectureFaite == IInv => Lecture
<1> SUFFICES ASSUME IInv PROVE Lecture
  OBVIOUS
<1>1. \A i, j \in DOMAIN shdr : shdr[i].body = shdr[j].body => i = j
  BY DEF IInv, CorpsOK
<1>2. ASSUME NEW i \in DOMAIN shdr PROVE Ou(shdr[i].body) = i
  BY <1>1, <1>2 DEF Ou
<1>3. ASSUME NEW i \in DOMAIN shdr
      PROVE  /\ shdr[i].body \in Presents
             /\ Adresses[shdr[i].body] = shdr[i].addr
             /\ Liens[shdr[i].body] = shdr[shdr[i].link].body
  <2>1. shdr[i].body \in Presents
    BY <1>3 DEF Presents
  <2> QED
    BY <1>2, <1>3, <2>1 DEF Adresses, Liens
<1>4. ASSUME NEW i \in DOMAIN shdr
      PROVE  /\ HasSectionInfo(shdr[i]) => Infos[shdr[i].body] = shdr[shdr[i].info].body
             /\ shdr[i].body \in DOMAIN Infos <=> HasSectionInfo(shdr[i])
  <2> DEFINE D == {shdr[j].body : j \in {k \in DOMAIN shdr : HasSectionInfo(shdr[k])}}
  <2>1. shdr[i].body \in D <=> HasSectionInfo(shdr[i])
    BY <1>1, <1>4
  <2>2. Infos = [b \in D |-> shdr[shdr[Ou(b)].info].body]
    BY DEF Infos
  <2> HIDE DEF D
  <2> QED
    BY <1>2, <1>4, <2>1, <2>2
<1>5. /\ \A b \in Presents : \E i \in DOMAIN shdr : b = shdr[i].body
      /\ DOMAIN Infos \subseteq Presents
  BY DEF Presents, Infos
<1> QED
  BY <1>3, <1>4, <1>5 DEF Lecture

(***************************************************************************)
(* The words of the group the program corrects are section numbers.        *)
(***************************************************************************)
PremierGroupe ==
  Section(Group) # -1 =>
    LET b == shdr[Section(Group)].body IN
    b \in DOMAIN group /\ \A w \in DOMAIN group[b] : group[b][w] \in DOMAIN shdr

LEMMA IndexBorne ==
  ASSUME TypeTables, ImageOK(image), NEW i \in DOMAIN shdr
  PROVE  i \in 0 .. 254
<1>1. ehdr.e_shnum \in 1 .. 255 /\ DOMAIN shdr = 0 .. ehdr.e_shnum - 1
  BY SectionTrouvee DEF TypeTables
<1> PICK e : e = ehdr.e_shnum
  OBVIOUS
<1>2. e \in 1 .. 255 /\ i \in 0 .. e - 1
  BY <1>1
<1> QED
  BY <1>2

(***************************************************************************)
(* What the symbols belong to does not depend on the numbers they hold.    *)
(***************************************************************************)
ProprioDImage(k) ==
  IF image.sym[k].shndx >= SHN_ABS THEN image.sym[k].shndx
  ELSE image.shdr[image.sym[k].shndx].body


LectureSymboles == Regulier => Proprios = [k \in DOMAIN image.sym |-> ProprioDImage(k)]

LEMMA LectureSymbolesFaite == IInv /\ SuiviInv => LectureSymboles
<1> SUFFICES ASSUME IInv, SuiviInv, Regulier
             PROVE  Proprios = [k \in DOMAIN image.sym |-> ProprioDImage(k)]
  BY DEF LectureSymboles
<1>1. /\ TypeTables /\ TypeLocaux /\ ImageOK(image) /\ SymbolesSuivent
      /\ DOMAIN sym = DOMAIN image.sym
  BY DEF IInv, TypeOK, TypeOptions, TypeTables, SuiviInv
<1>2. ASSUME NEW k \in DOMAIN sym PROVE Proprio(sym[k].shndx) = ProprioDImage(k)
  <2>1. CASE image.sym[k].shndx >= SHN_ABS
    BY <1>1, <1>2, <2>1 DEF SymbolesSuivent, Proprio, ProprioDImage
  <2>2. CASE ~(image.sym[k].shndx >= SHN_ABS)
    <3> PICK n, b : n = sym[k].shndx /\ b = image.shdr[image.sym[k].shndx].body
      OBVIOUS
    <3> PICK i : i = IF index_supprime # -1 /\ n > index_supprime THEN n - 1 ELSE n
      OBVIOUS
    <3>1. i \in DOMAIN shdr /\ shdr[i].body = b
      BY <1>1, <1>2, <2>2 DEF SymbolesSuivent, Designe
    <3>2. n \in Nat
      <4>1. sym[k] \in SymboleLibre
        BY <1>1, <1>2 DEF TypeTables
      <4> QED
        BY <4>1, Indices DEF SymboleLibre
    <3>3. i \in 0 .. 254
      BY <1>1, <3>1, IndexBorne
    <3>4. ~(n >= SHN_ABS)
      <4>1. n <= i + 1
        BY <3>2, <3>3
      <4> QED
        BY <3>2, <3>3, <4>1, Indices
    <3> QED
      BY <2>2, <3>1, <3>4 DEF Proprio, ProprioDImage
  <2> QED
    BY <2>1, <2>2
<1> QED
  BY <1>1, <1>2 DEF Proprios

(***************************************************************************)
(* The invariant of the refinement.                                        *)
(***************************************************************************)
RInv == IInv /\ SuiviInv /\ PremierGroupe /\ OteInv

LEMMA TermeDeSuite ==
  ASSUME NEW S, NEW f \in Seq(S), NEW w \in DOMAIN f
  PROVE  f[w] \in S
OBVIOUS

LEMMA InitPremierGroupe == Init => PremierGroupe
<1> SUFFICES ASSUME Init, Section(Group) # -1
             PROVE  LET b == shdr[Section(Group)].body IN
                    b \in DOMAIN group /\ \A w \in DOMAIN group[b] : group[b][w] \in DOMAIN shdr
  BY DEF PremierGroupe
<1>1. ImageOK(image) /\ shdr = image.shdr /\ group = image.group /\ IInv
  BY ImagesAssumption, InitIInv DEF Init
<1> PICK g : g = Section(Group)
  OBVIOUS
<1> PICK n : n = image.ehdr.e_shnum
  OBVIOUS
<1>2. g \in DOMAIN shdr
  BY <1>1, SectionTrouvee DEF IInv, TypeOK, TypeTables
<1>3. /\ DOMAIN shdr = 0 .. n - 1 /\ shdr[g] \in EnTete
      /\ group \in [Corps -> Seq(0 .. n - 1)]
  <2>1. /\ image.shdr \in [0 .. n - 1 -> EnTete]
        /\ image.group \in [Corps -> Seq(0 .. n - 1)]
    BY <1>1 DEF ImageOK
  <2>2. shdr \in [0 .. n - 1 -> EnTete] /\ group = image.group
    BY <1>1, <2>1
  <2> QED
    BY <1>2, <2>1, <2>2
<1> PICK b, S : b = shdr[g].body /\ S = 0 .. n - 1
  OBVIOUS
<1>4. b \in Corps
  BY <1>3 DEF EnTete
<1> PICK f : f = group[b]
  OBVIOUS
<1>5. f \in Seq(S)
  BY <1>3, <1>4
<1>6. \A w \in DOMAIN f : f[w] \in S
  BY <1>5, TermeDeSuite
<1> QED
  BY <1>3, <1>4, <1>6

LEMMA RefineInit == Init => Abstrait!Init
<1> SUFFICES ASSUME Init PROVE Abstrait!Init
  OBVIOUS
<1>1. IInv /\ Lecture /\ PremierGroupe /\ exe = NoExe
  BY InitIInv, LectureFaite, InitPremierGroupe DEF Init
<1>2. TypeTables /\ CorpsOK /\ ImageOK(image)
  BY <1>1 DEF IInv, TypeOK, TypeOptions
<1>3. \A i \in DOMAIN shdr : /\ shdr[i].addr = 0
                             /\ shdr[i].link \in DOMAIN shdr
                             /\ HasSectionInfo(shdr[i]) => shdr[i].info \in DOMAIN shdr
  BY <1>2 DEF Init, ImageOK, TypeTables
<1>4. CorpsNul \in Presents
  <2>1. 0 \in DOMAIN shdr
    BY <1>2, SectionTrouvee DEF TypeTables
  <2> QED
    BY <1>1, <1>2, <2>1 DEF Lecture, CorpsOK
<1>5. DOMAIN Adresses = Presents /\ \A b \in Presents : Adresses[b] = 0
  <2>1. DOMAIN Adresses = Presents
    BY DEF Adresses
  <2> QED
    BY <1>1, <1>3, <2>1 DEF Lecture
<1>6. Liens \in [Presents -> Presents]
  <2>1. DOMAIN Liens = Presents /\ Liens = [b \in Presents |-> Liens[b]]
    BY DEF Liens
  <2>2. \A b \in Presents : Liens[b] \in Presents
    BY <1>1, <1>3 DEF Lecture
  <2> QED
    BY <2>1, <2>2
<1>7. DOMAIN Infos \subseteq Presents /\ \A b \in DOMAIN Infos : Infos[b] \in Presents
  BY <1>1, <1>3 DEF Lecture
<1>8. Noms \in Presents
  <2>1. ehdr.e_shstrndx \in DOMAIN shdr
    BY <1>2 DEF TypeTables
  <2> QED
    BY <1>1, <2>1 DEF Lecture, Noms
<1>9. \A w \in DOMAIN Membres : Membres[w] \in Presents
  BY <1>1 DEF Membres, Groupe, PremierGroupe, Lecture
<1>10. DOMAIN Proprios = DOMAIN Valeurs
  BY DEF Proprios, Valeurs
<1> QED
  BY <1>1, <1>4, <1>5, <1>6, <1>7, <1>8, <1>9, <1>10 DEF Abstrait!Init

(***************************************************************************)
(* Steps that touch neither tables nor symbols are invisible.              *)
(***************************************************************************)
LEMMA MemeFonction ==
  ASSUME NEW D, NEW f, NEW g, f = [b \in D |-> f[b]], g = [b \in D |-> g[b]],
         \A b \in D : f[b] = g[b]
  PROVE  f = g
<1>1. [b \in D |-> f[b]] = [b \in D |-> g[b]]
  OBVIOUS
<1> QED
  BY <1>1, Zenon

LEMMA TablesVues ==
  ASSUME UNCHANGED <<image, ehdr, shdr, group>>
  PROVE  UNCHANGED <<Presents, Adresses, Liens, Infos, Noms, Membres, CorpsNul>>
<1>1. Presents' = Presents /\ Noms' = Noms /\ CorpsNul' = CorpsNul
  BY DEF Presents, Noms, CorpsNul
<1>2. \A b : Ou(b)' = Ou(b)
  BY DEF Ou
<1>3. Adresses' = Adresses /\ Liens' = Liens
  BY <1>1, <1>2 DEF Adresses, Liens
<1>4. Infos' = Infos
  BY <1>1, <1>2 DEF Infos, HasSectionInfo
<1>5. Groupe' = Groupe
  BY DEF Groupe, Section
<1>6. Membres' = Membres
  BY <1>5 DEF Membres
<1> QED
  BY <1>1, <1>3, <1>4, <1>6

LEMMA Invisible ==
  ASSUME UNCHANGED <<image, ehdr, shdr, group, sym, index_supprime>>,
         (exe' # NoExe) = (exe # NoExe)
  PROVE  UNCHANGED Abstrait!avars
<1>1. UNCHANGED <<Presents, Adresses, Liens, Infos, Noms, Membres, CorpsNul>>
  BY TablesVues
<1>2. Proprios' = Proprios /\ Valeurs' = Valeurs
  BY DEF Proprios, Valeurs, Proprio
<1> QED
  BY <1>1, <1>2 DEF Abstrait!avars, Abstrait!liens

(***************************************************************************)
(* addr_charge loads a section by identity.                                *)
(***************************************************************************)
LEMMA ProprioSection ==
  ASSUME RInv, Regulier, index_supprime = -1, NEW k \in DOMAIN sym, NEW s \in DOMAIN shdr
  PROVE  Proprios[k] = shdr[s].body <=> sym[k].shndx = s
<1>1. /\ TypeTables /\ ImageOK(image) /\ SymbolesSuivent /\ DOMAIN sym = DOMAIN image.sym
      /\ \A i, j \in DOMAIN shdr : shdr[i].body = shdr[j].body => i = j
      /\ shdr[s] \in EnTete
  BY DEF RInv, IInv, TypeOK, TypeOptions, TypeTables, SuiviInv, CorpsOK
<1>2. Proprios = [j \in DOMAIN image.sym |-> ProprioDImage(j)]
  BY LectureSymbolesFaite DEF RInv, LectureSymboles
<1>3. Proprios[k] = ProprioDImage(k)
  BY <1>1, <1>2
<1>4. CASE image.sym[k].shndx >= SHN_ABS
  <2>1. sym[k].shndx = image.sym[k].shndx /\ Proprios[k] = image.sym[k].shndx
    BY <1>1, <1>3, <1>4 DEF SymbolesSuivent, ProprioDImage
  <2>2. image.sym[k].shndx \in SHN_ABS .. SHN_HIRESERVE
    <3>1. sym[k] \in SymboleLibre
      BY <1>1 DEF TypeTables
    <3>2. sym[k].shndx \in 0 .. SHN_HIRESERVE
      BY <3>1 DEF SymboleLibre
    <3> QED
      BY <1>4, <2>1, <3>2, Indices
  <2>3. shdr[s].body # image.sym[k].shndx
    BY <1>1, <2>2, CorpsAssumption DEF EnTete
  <2>4. s # image.sym[k].shndx
    <3>1. s \in 0 .. 254
      BY <1>1, IndexBorne
    <3> QED
      BY <2>2, <3>1, Indices
  <2> QED
    BY <2>1, <2>3, <2>4
<1>5. CASE ~(image.sym[k].shndx >= SHN_ABS)
  <2>1. /\ sym[k].shndx \in DOMAIN shdr /\ shdr[sym[k].shndx].body = Proprios[k]
    BY <1>1, <1>3, <1>5 DEF SymbolesSuivent, Designe, ProprioDImage
  <2> QED
    BY <1>1, <2>1
<1> QED
  BY <1>4, <1>5

LEMMA ChercherPremier ==
  ASSUME NEW n \in Nat, NEW tab, DOMAIN tab = 0 .. n - 1, NEW nom,
         NEW r, r = chercher_index_de_section(tab, nom), r # -1
  PROVE  /\ r \in DOMAIN tab /\ tab[r].name = nom
         /\ \A k \in DOMAIN tab : tab[k].name = nom => r <= k
<1> DEFINE hits == {i \in DOMAIN tab : tab[i].name = nom}
<1>1. hits # {} /\ hits \subseteq Nat
  BY DEF chercher_index_de_section
<1>2. r = CHOOSE i \in hits : \A k \in hits : i <= k
  BY <1>1 DEF chercher_index_de_section
<1>3. r \in hits /\ \A k \in hits : r <= k
  <2> HIDE DEF hits
  <2>1. \E i \in hits : \A k \in hits : i <= k
    BY <1>1, Premier
  <2> QED
    BY <1>2, <2>1
<1> QED
  BY <1>3

LEMMA ChercherUnique ==
  ASSUME NEW n \in Nat, NEW tab, DOMAIN tab = 0 .. n - 1, NEW nom,
         NEW r \in DOMAIN tab, tab[r].name = nom,
         \A k \in DOMAIN tab : tab[k].name = nom => r <= k
  PROVE  chercher_index_de_section(tab, nom) = r
<1> PICK q : q = chercher_index_de_section(tab, nom)
  OBVIOUS
<1>1. q # -1
  BY Chercher
<1>2. q \in DOMAIN tab /\ q <= r /\ r <= q
  BY <1>1, ChercherPremier
<1> QED
  BY <1>2

LEMMA MemesNoms ==
  ASSUME NEW n \in Nat, NEW T, NEW U, NEW nom, DOMAIN T = 0 .. n - 1, DOMAIN U = DOMAIN T,
         \A i \in DOMAIN T : U[i].name = T[i].name
  PROVE  chercher_index_de_section(U, nom) = chercher_index_de_section(T, nom)
<1> PICK q : q = chercher_index_de_section(T, nom)
  OBVIOUS
<1>1. CASE q = -1
  <2>1. \A i \in DOMAIN T : T[i].name # nom
    <3> PICK r : r = chercher_index_de_section(T, nom)
      OBVIOUS
    <3>1. \/ r = -1 /\ \A i \in DOMAIN T : T[i].name # nom
          \/ r \in 0 .. n - 1 /\ T[r].name = nom
      BY Chercher
    <3> QED
      BY <1>1, <3>1
  <2> QED
    BY <1>1, <2>1, Chercher
<1>2. CASE q # -1
  <2>1. /\ q \in DOMAIN T /\ T[q].name = nom
        /\ \A k \in DOMAIN T : T[k].name = nom => q <= k
    BY <1>2, ChercherPremier
  <2>2. chercher_index_de_section(U, nom) = q
    BY <2>1, ChercherUnique
  <2> QED
    BY <2>2
<1> QED
  BY <1>1, <1>2

LEMMA ProduitPasEncore ==
  ASSUME RInv, etape # "fini"
  PROVE  exe = NoExe
BY DEF RInv, OteInv, DansExe

LEMMA RefineCharge ==
  ASSUME RInv, RInv', Regulier, AddrCharge
  PROVE  Abstrait!Next \/ UNCHANGED Abstrait!avars
<1> PICK s : s = Section(str_section[tour])
  OBVIOUS
<1>1. /\ TypeTables /\ TypeOptions /\ TypeLocaux /\ ImageOK(image) /\ IInv
      /\ etape = "charge" /\ index_supprime = -1 /\ tour \in 0 .. 1
  BY DEF RInv, IInv, TypeOK, TypeOptions, TypeLocaux, AddrCharge, MAXSIZE
<1>2. CASE Arret("indefini") \/ Arret("abandon")
  BY <1>2, Invisible DEF Arret, entree, tables
<1>3. CASE ~(Arret("indefini") \/ Arret("abandon"))
  <2>1. PICK addr \in IF adresse_donnee[tour] = Inconnu THEN Residus
                       ELSE {adresse_donnee[tour]} :
         /\ \/ s = -1 /\ UNCHANGED <<shdr, sym>>
            \/ /\ s # -1
               /\ shdr' = [shdr EXCEPT ![s].addr = addr]
               /\ sym' = [k \in DOMAIN sym |-> SymboleCharge(sym[k], s, addr)]
         /\ UNCHANGED <<image, ehdr, group, index_supprime, exe>>
    BY <1>3 DEF AddrCharge, entree
  <2>2. addr \in Adresse
    BY <1>1, <2>1, ResidusAssumption DEF TypeOptions, MAXSIZE
  <2>3. CASE s = -1
    BY <2>1, <2>3, Invisible
  <2>4. CASE s # -1
    <3>1. s \in DOMAIN shdr
      BY <1>1, <2>4, SectionTrouvee DEF TypeTables
    <3>2. /\ shdr' = [shdr EXCEPT ![s].addr = addr]
          /\ sym' = [k \in DOMAIN sym |-> SymboleCharge(sym[k], s, addr)]
      BY <2>1, <2>4
    <3>3. /\ DOMAIN shdr' = DOMAIN shdr /\ shdr'[s].addr = addr
          /\ \A i \in DOMAIN shdr : /\ shdr'[i].body = shdr[i].body /\ shdr'[i].name = shdr[i].name
                                    /\ shdr'[i].type = shdr[i].type
                                    /\ shdr'[i].link = shdr[i].link /\ shdr'[i].info = shdr[i].info
                                    /\ i # s => shdr'[i].addr = shdr[i].addr
      <4> PICK d : d = DOMAIN shdr
        OBVIOUS
      <4>1. shdr \in [d -> EnTete] /\ s \in d
        BY <1>1, <3>1 DEF TypeTables
      <4> QED
        BY <3>2, <4>1 DEF EnTete
    <3>4. Lecture /\ Lecture'
      <4>1. IInv' => Lecture'
        BY LectureFaite, PTL
      <4> QED
        BY <4>1, LectureFaite DEF RInv
    <3>5. \A i \in DOMAIN shdr : /\ shdr[i].link \in DOMAIN shdr
                                 /\ HasSectionInfo(shdr[i]) => shdr[i].info \in DOMAIN shdr
                                 /\ HasSectionInfo(shdr'[i]) <=> HasSectionInfo(shdr[i])
      BY <1>1, <3>3 DEF TypeTables, HasSectionInfo
    <3>6. Presents' = Presents /\ CorpsNul' = CorpsNul
      BY <2>1, <3>3 DEF Presents, CorpsNul
    <3>7. Liens' = Liens
      <4>1. /\ Liens = [b \in Presents |-> Liens[b]]
            /\ Liens' = [b \in Presents |-> Liens'[b]]
        BY <3>6 DEF Liens
      <4>2. ASSUME NEW b \in Presents PROVE Liens'[b] = Liens[b]
        <5>1. PICK i \in DOMAIN shdr : b = shdr[i].body
          BY <3>4 DEF Lecture
        <5>2. /\ Liens[b] = shdr[shdr[i].link].body
              /\ Liens'[b] = shdr'[shdr'[i].link].body
          BY <3>3, <3>4, <5>1 DEF Lecture
        <5> QED
          BY <3>3, <3>5, <5>2
      <4> QED
        BY <4>1, <4>2, MemeFonction
    <3>8. Infos' = Infos
      <4>1. DOMAIN Infos' = DOMAIN Infos
        BY <3>3, <3>5 DEF Infos
      <4>2. /\ Infos = [b \in DOMAIN Infos |-> Infos[b]]
            /\ Infos' = [b \in DOMAIN Infos |-> Infos'[b]]
        BY <4>1 DEF Infos
      <4>3. ASSUME NEW b \in DOMAIN Infos PROVE Infos'[b] = Infos[b]
        <5>1. PICK i \in DOMAIN shdr : b = shdr[i].body /\ HasSectionInfo(shdr[i])
          BY <3>4, <4>3 DEF Lecture
        <5>2. Infos[b] = shdr[shdr[i].info].body
          BY <3>4, <5>1 DEF Lecture
        <5>3. i \in DOMAIN shdr' /\ b = shdr'[i].body /\ HasSectionInfo(shdr'[i])
          BY <3>3, <3>5, <5>1
        <5>4. Infos'[b] = shdr'[shdr'[i].info].body
          BY <3>4, <5>3 DEF Lecture
        <5>5. shdr'[i].info = shdr[i].info /\ shdr[i].info \in DOMAIN shdr
          BY <3>3, <3>5, <5>1
        <5> QED
          BY <3>3, <5>2, <5>4, <5>5
      <4> QED
        BY <4>2, <4>3, MemeFonction
    <3>9. Noms' = Noms
      <4>1. ehdr.e_shstrndx \in DOMAIN shdr
        BY <1>1 DEF TypeTables
      <4> QED
        BY <2>1, <3>3, <4>1 DEF Noms
    <3>10. Membres' = Membres
      <4>1. Section(Group)' = Section(Group)
        <5>1. ehdr.e_shnum \in Nat /\ DOMAIN shdr = 0 .. ehdr.e_shnum - 1
          BY <1>1, SectionTrouvee DEF TypeTables
        <5>2. chercher_index_de_section(shdr', Group) = chercher_index_de_section(shdr, Group)
          BY <3>3, <5>1, MemesNoms
        <5> QED
          BY <5>2 DEF Section
      <4>2. CASE Section(Group) = -1
        BY <4>1, <4>2 DEF Membres, Groupe
      <4>3. CASE Section(Group) # -1
        <5>1. Section(Group) \in DOMAIN shdr
          BY <1>1, <4>3, SectionTrouvee DEF TypeTables
        <5>2. Groupe' = Groupe /\ \A w \in DOMAIN Groupe : Groupe[w] \in DOMAIN shdr
          BY <2>1, <3>3, <4>1, <4>3, <5>1 DEF Groupe, RInv, PremierGroupe
        <5> QED
          BY <3>3, <5>2 DEF Membres
      <4> QED
        BY <4>2, <4>3
    <3>11. Proprios' = Proprios
      <4>1. DOMAIN sym' = DOMAIN sym
        BY <3>2
      <4>2. ASSUME NEW k \in DOMAIN sym PROVE sym'[k].shndx = sym[k].shndx
        <5>1. sym[k] \in SymboleLibre /\ sym'[k] = SymboleCharge(sym[k], s, addr)
          BY <1>1, <3>2, <4>2 DEF TypeTables
        <5> QED
          BY <5>1 DEF SymboleLibre, SymboleCharge
      <4>3. LectureSymboles /\ LectureSymboles'
        <5>1. (IInv /\ SuiviInv)' => LectureSymboles'
          BY LectureSymbolesFaite, PTL
        <5> QED
          BY <5>1, LectureSymbolesFaite DEF RInv
      <4> QED
        BY <2>1, <4>3 DEF LectureSymboles, Regulier, ProprioDImage
    <3> PICK b : b = shdr[s].body
      OBVIOUS
    <3>12. b \in Presents /\ Adresses'[b] = addr /\ Adresses[b] = shdr[s].addr
      BY <3>1, <3>3, <3>4 DEF Lecture
    <3>13. Adresses' = [Adresses EXCEPT ![b] = addr]
      <4> DEFINE A == [Adresses EXCEPT ![b] = addr]
      <4>1. /\ Adresses' = [c \in Presents |-> Adresses'[c]]
            /\ A = [c \in Presents |-> A[c]]
        BY <3>6 DEF Adresses
      <4>2. ASSUME NEW c \in Presents PROVE Adresses'[c] = A[c]
        <5>1. A[c] = IF c = b THEN addr ELSE Adresses[c]
          BY <4>2 DEF Adresses
        <5>2. PICK i \in DOMAIN shdr : c = shdr[i].body
          BY <3>4, <4>2 DEF Lecture
        <5>3. Adresses'[c] = shdr'[i].addr /\ Adresses[c] = shdr[i].addr
          BY <3>3, <3>4, <5>2 DEF Lecture
        <5>4. c # b => i # s
          BY <5>2
        <5> QED
          BY <3>3, <3>12, <5>1, <5>3, <5>4
      <4> HIDE DEF A
      <4>3. Adresses' = A
        BY <4>1, <4>2, MemeFonction
      <4> QED
        BY <4>3 DEF A
    <3>14. Valeurs' = [k \in DOMAIN Valeurs |->
                         IF Proprios[k] = b THEN (Valeurs[k] + addr) % Espace ELSE Valeurs[k]]
      <4>1. ASSUME NEW k \in DOMAIN sym
            PROVE  sym'[k].value = IF Proprios[k] = b THEN (sym[k].value + addr) % Espace
                                                      ELSE sym[k].value
        <5>1. sym[k] \in SymboleLibre /\ sym'[k] = SymboleCharge(sym[k], s, addr)
          BY <1>1, <3>2, <4>1 DEF TypeTables
        <5>2. sym'[k].value = IF sym[k].shndx = s THEN (sym[k].value + addr) % Espace
                                                  ELSE sym[k].value
          BY <5>1 DEF SymboleLibre, SymboleCharge
        <5>3. Proprios[k] = b <=> sym[k].shndx = s
          BY <1>1, <3>1, <4>1, ProprioSection
        <5> QED
          BY <5>2, <5>3
      <4>2. DOMAIN sym' = DOMAIN sym
        BY <3>2
      <4> QED
        BY <4>1, <4>2 DEF Valeurs
    <3>15. exe = NoExe /\ exe' = exe
      BY <1>1, <2>1, ProduitPasEncore
    <3>16. Abstrait!Charger(b)
      BY <2>2, <3>6, <3>7, <3>8, <3>9, <3>10, <3>11, <3>12, <3>13, <3>14, <3>15
         DEF Abstrait!Charger, Abstrait!liens, Adresse
    <3> QED
      BY <3>12, <3>16 DEF Abstrait!Next
  <2> QED
    BY <2>1, <2>3, <2>4
<1> QED
  BY <1>2, <1>3

(***************************************************************************)
(* supprimer_une_section removes a section by identity: a reference counted*)
(* in the new table names what it named, or the null section.              *)
(***************************************************************************)
LEMMA CorpsRenumerote ==
  ASSUME IInv, NEW n, n = ehdr.e_shnum, NEW x \in 1 .. n - 1,
         shdr' = TableAfter(shdr, n, x), UNCHANGED image, NEW m \in DOMAIN shdr
  PROVE  /\ renumero_index_section(m, x) \in DOMAIN shdr'
         /\ shdr'[renumero_index_section(m, x)].body = Abstrait!Sans(shdr[m].body, shdr[x].body)
<1>1. /\ TypeTables /\ ImageOK(image) /\ CorpsOK /\ DOMAIN shdr = 0 .. n - 1 /\ x \in DOMAIN shdr
  BY DEF IInv, TypeOK, TypeOptions, TypeTables
<1>2. /\ n \in 2 .. 255 /\ DOMAIN shdr' = 0 .. n - 2
      /\ \A i \in 0 .. n - 2 : shdr'[i].body = shdr[Ancien(i, x)].body
  BY <1>1, Retrait
<1> PICK j : j = renumero_index_section(m, x)
  OBVIOUS
<1>3. j \in 0 .. n - 2 /\ Ancien(j, x) = IF m = x THEN 0 ELSE m
  <2>1. n \in 2 .. 255
    BY <1>2
  <2>2. m \in 0 .. n - 1
    BY <1>1
  <2>3. /\ renumero_index_section(m, x) \in 0 .. n - 2
        /\ Ancien(renumero_index_section(m, x), x) = IF m = x THEN 0 ELSE m
    BY <2>1, <2>2, RenumeroAncien
  <2> QED
    BY <2>3
<1>4. shdr'[j].body = IF m = x THEN CorpsNul ELSE shdr[m].body
  BY <1>1, <1>2, <1>3 DEF CorpsOK
<1>5. shdr[m].body = shdr[x].body <=> m = x
  BY <1>1 DEF CorpsOK
<1> QED
  BY <1>2, <1>3, <1>4, <1>5 DEF Abstrait!Sans

LEMMA AncienMonotone ==
  ASSUME NEW n \in 2 .. 255, NEW x \in 1 .. n - 1
  PROVE  /\ n - 1 \in Nat /\ n - 2 = (n - 1) - 1
         /\ 0 \in 0 .. n - 1
BY DEF Ancien

LEMMA AncienOrdre ==
  \A n \in 2 .. 255 : \A x \in 1 .. n - 1 : \A i, j \in 0 .. n - 2 :
    /\ Ancien(i, x) \in 0 .. n - 1 /\ Ancien(i, x) # x
    /\ Ancien(j, x) <= Ancien(i, x) => j <= i
BY DEF Ancien

LEMMA RenumeroPartout ==
  \A n \in 2 .. 255 : \A x \in 1 .. n - 1 : \A j \in 0 .. n - 1 :
    /\ renumero_index_section(j, x) \in 0 .. n - 2
    /\ j # x => Ancien(renumero_index_section(j, x), x) = j
BY RenumeroAncien

LEMMA MotPartout ==
  \A n \in 2 .. 255 : \A x \in 1 .. n - 1 : \A w \in 0 .. n - 1 :
    GroupWordAfter(w, x) = renumero_index_section(w, x)
BY MotRenumerote

(***************************************************************************)
(* The first .group stays the first .group.                                *)
(***************************************************************************)
LEMMA GroupeRetrait ==
  ASSUME IInv, IInv', NEW n, n = ehdr.e_shnum, NEW x \in 1 .. n - 1,
         shdr[x].name # <<>>, Head(shdr[x].name) = ".rel",
         shdr' = TableAfter(shdr, n, x)
  PROVE  /\ Section(Group) = -1 => Section(Group)' = -1
         /\ Section(Group) # -1 =>
              /\ Section(Group)' \in DOMAIN shdr' /\ Section(Group)' # -1
              /\ shdr'[Section(Group)'].body = shdr[Section(Group)].body
<1>1. /\ TypeTables /\ ImageOK(image) /\ DOMAIN shdr = 0 .. n - 1 /\ n \in Nat
  BY SectionTrouvee DEF IInv, TypeOK, TypeOptions, TypeTables
<1>2. /\ n \in 2 .. 255 /\ DOMAIN shdr' = 0 .. n - 2
      /\ \A i \in 0 .. n - 2 : /\ shdr'[i].body = shdr[Ancien(i, x)].body
                               /\ shdr'[i].name = shdr[Ancien(i, x)].name
  BY <1>1, Retrait
<1>3. n - 1 \in Nat /\ n - 2 = (n - 1) - 1
  <2>1. n \in 2 .. 255
    BY <1>2
  <2> QED
    BY <2>1, AncienMonotone
<1>4. \A i, j \in 0 .. n - 2 : /\ Ancien(i, x) \in 0 .. n - 1
                               /\ Ancien(j, x) <= Ancien(i, x) => j <= i
  <2>1. n \in 2 .. 255
    BY <1>2
  <2> QED
    BY <2>1, AncienOrdre, Zenon
<1> PICK g : g = Section(Group)
  OBVIOUS
<1>5. CASE g = -1
  <2>1. \A i \in DOMAIN shdr : shdr[i].name # Group
    BY <1>1, <1>5, SectionAbsente
  <2>2. \A i \in DOMAIN shdr' : shdr'[i].name # Group
    BY <1>1, <1>2, <1>4, <2>1
  <2> PICK tab : tab = shdr'
    OBVIOUS
  <2>3. \/ chercher_index_de_section(tab, Group) = -1
        \/ /\ chercher_index_de_section(tab, Group) \in 0 .. (n - 1) - 1
           /\ tab[chercher_index_de_section(tab, Group)].name = Group
    BY <1>2, <1>3, Chercher
  <2> QED
    BY <1>2, <1>3, <1>5, <2>2, <2>3 DEF Section
<1>6. CASE g # -1
  <2>1. /\ g \in DOMAIN shdr /\ shdr[g].name = Group
        /\ \A k \in DOMAIN shdr : shdr[k].name = Group => g <= k
    BY <1>1, <1>6, ChercherPremier DEF Section
  <2>2. g # x
    BY <2>1 DEF Group
  <2> PICK h : h = renumero_index_section(g, x)
    OBVIOUS
  <2>3. h \in 0 .. n - 2 /\ Ancien(h, x) = g
    <3>1. n \in 2 .. 255
      BY <1>2
    <3>2. g \in 0 .. n - 1
      BY <1>1, <2>1
    <3> QED
      <4>1. /\ renumero_index_section(g, x) \in 0 .. n - 2
            /\ g # x => Ancien(renumero_index_section(g, x), x) = g
        BY <3>1, <3>2, RenumeroPartout, Zenon
      <4> QED
        BY <2>2, <4>1
  <2>4. h \in DOMAIN shdr' /\ shdr'[h].name = Group /\ shdr'[h].body = shdr[g].body
    BY <1>2, <2>1, <2>3
  <2>5. ASSUME NEW k \in DOMAIN shdr', shdr'[k].name = Group PROVE h <= k
    <3>1. k \in 0 .. n - 2 /\ shdr[Ancien(k, x)].name = Group
      BY <1>2, <2>5
    <3>2. g <= Ancien(k, x)
      BY <1>1, <1>4, <2>1, <3>1
    <3> QED
      BY <1>4, <2>3, <3>1, <3>2
  <2> PICK tab : tab = shdr'
    OBVIOUS
  <2>6. DOMAIN tab = 0 .. (n - 1) - 1
    BY <1>2, <1>3
  <2>7. chercher_index_de_section(tab, Group) = h
    BY <1>3, <2>4, <2>5, <2>6, ChercherUnique
  <2>8. h # -1
    BY <2>3
  <2> QED
    BY <1>6, <2>4, <2>7, <2>8 DEF Section
<1> QED
  BY <1>5, <1>6

(***************************************************************************)
(* The words of the group after a removal.                                 *)
(***************************************************************************)
LEMMA MembresRetrait ==
  ASSUME IInv, IInv', PremierGroupe, NEW n, n = ehdr.e_shnum, NEW x \in 1 .. n - 1,
         shdr[x].name # <<>>, Head(shdr[x].name) = ".rel",
         shdr' = TableAfter(shdr, n, x), UNCHANGED image,
         NEW g, g = Section(Group),
         group' = IF g = -1 THEN group
                  ELSE [group EXCEPT ![shdr[g].body] =
                         [w \in DOMAIN @ |-> GroupWordAfter(@[w], x)]]
  PROVE  /\ PremierGroupe'
         /\ Membres' = [w \in DOMAIN Membres |-> Abstrait!Sans(Membres[w], shdr[x].body)]
<1>1. CASE g = -1
  <2>1. Section(Group)' = -1
    BY <1>1, GroupeRetrait
  <2>2. Membres = <<>> /\ Membres' = <<>>
    <3>1. Groupe = <<>> /\ Groupe' = <<>>
      BY <1>1, <2>1 DEF Groupe
    <3> QED
      BY <3>1 DEF Membres
  <2> QED
    BY <2>1, <2>2 DEF PremierGroupe
<1>2. CASE g # -1
  <2>1. Section(Group)' # -1 /\ shdr'[Section(Group)'].body = shdr[g].body
    BY <1>2, GroupeRetrait
  <2> PICK b : b = shdr[g].body
    OBVIOUS
  <2>2. b \in DOMAIN group /\ \A w \in DOMAIN group[b] : group[b][w] \in DOMAIN shdr
    BY <1>2 DEF PremierGroupe
  <2>3. /\ DOMAIN group' = DOMAIN group
        /\ group'[b] = [w \in DOMAIN group[b] |-> GroupWordAfter(group[b][w], x)]
    BY <1>2, <2>2
  <2>4. ASSUME NEW w \in DOMAIN group[b]
        PROVE  /\ group'[b][w] \in DOMAIN shdr'
               /\ shdr'[group'[b][w]].body = Abstrait!Sans(shdr[group[b][w]].body, shdr[x].body)
    <3> PICK m : m = group[b][w]
      OBVIOUS
    <3>1. m \in DOMAIN shdr
      BY <2>2, <2>4
    <3>2. n \in 2 .. 255
      BY Retrait DEF IInv, TypeOK, TypeOptions
    <3>3. m \in 0 .. n - 1
      BY <3>1 DEF IInv, TypeOK, TypeTables
    <3>5. group'[b][w] = renumero_index_section(m, x)
      <4>1. GroupWordAfter(m, x) = renumero_index_section(m, x)
        BY <3>2, <3>3, MotPartout, Zenon
      <4>2. group'[b][w] = GroupWordAfter(m, x)
        BY <2>3, <2>4
      <4> QED
        BY <4>1, <4>2
    <3>4. /\ renumero_index_section(m, x) \in DOMAIN shdr'
          /\ shdr'[renumero_index_section(m, x)].body = Abstrait!Sans(shdr[m].body, shdr[x].body)
      BY <3>1, CorpsRenumerote
    <3> QED
      BY <3>4, <3>5
  <2>5. PremierGroupe'
    BY <2>1, <2>2, <2>3, <2>4 DEF PremierGroupe
  <2>6. Groupe = group[b] /\ Groupe' = group'[b] /\ DOMAIN group'[b] = DOMAIN group[b]
    BY <1>2, <2>1, <2>3 DEF Groupe
  <2>7. Membres' = [w \in DOMAIN Membres |-> Abstrait!Sans(Membres[w], shdr[x].body)]
    <3>1. DOMAIN Membres = DOMAIN group[b]
      BY <2>6 DEF Membres
    <3>2. \A w \in DOMAIN group[b] : Membres[w] = shdr[group[b][w]].body
      BY <2>6 DEF Membres
    <3>3. Membres' = [w \in DOMAIN group[b] |-> shdr'[group'[b][w]].body]
      BY <2>6 DEF Membres
    <3>4. ASSUME NEW w \in DOMAIN group[b]
          PROVE  shdr'[group'[b][w]].body = Abstrait!Sans(Membres[w], shdr[x].body)
      <4>1. Membres[w] = shdr[group[b][w]].body
        BY <3>2, <3>4
      <4> QED
        BY <2>4, <3>4, <4>1, Zenon
    <3>5. Membres' = [w \in DOMAIN group[b] |-> Abstrait!Sans(Membres[w], shdr[x].body)]
      BY <3>3, <3>4
    <3> QED
      BY <3>1, <3>5
  <2> QED
    BY <2>5, <2>7
<1> QED
  BY <1>1, <1>2

LEMMA RefineSupprime ==
  ASSUME RInv, RInv', Regulier, SupprimerUneSection
  PROVE  Abstrait!Next \/ UNCHANGED Abstrait!avars
<1> PICK x : x = Section(get_nom_rel_corre(str_section[tour]))
  OBVIOUS
<1> PICK n : n = ehdr.e_shnum
  OBVIOUS
<1> PICK g : g = Section(Group)
  OBVIOUS
<1>1. /\ TypeTables /\ TypeLocaux /\ ImageOK(image) /\ IInv /\ IInv' /\ CorpsOK
      /\ etape = "supprime" /\ index_supprime = -1
  BY DEF RInv, IInv, TypeOK, TypeOptions, TypeLocaux, SupprimerUneSection
<1>2. CASE x = -1 /\ ~Arret("abandon")
  <2>1. UNCHANGED <<image, ehdr, shdr, group, sym, index_supprime, exe>>
    BY <1>2 DEF SupprimerUneSection, entree, tables
  <2> QED
    BY <2>1, Invisible
<1>3. CASE x # -1 /\ ~Arret("abandon")
  <2>1. x \in 1 .. n - 1 /\ shdr[x].name # <<>> /\ Head(shdr[x].name) = ".rel"
    BY <1>1, <1>3, RetireNonNulle
  <2>2. /\ ehdr' = [ehdr EXCEPT !.e_shstrndx = renumero_index_section(@, x), !.e_shnum = @ - 1]
        /\ shdr' = TableAfter(shdr, n, x)
        /\ group' = IF g = -1 THEN group
                    ELSE [group EXCEPT ![shdr[g].body] =
                           [w \in DOMAIN @ |-> GroupWordAfter(@[w], x)]]
        /\ UNCHANGED <<image, sym, exe>>
    BY <1>3 DEF SupprimerUneSection, entree
  <2>3. /\ n \in 2 .. 255 /\ DOMAIN shdr' = 0 .. n - 2 /\ DOMAIN shdr = 0 .. n - 1
        /\ \A i \in 0 .. n - 2 :
              LET h == shdr[Ancien(i, x)] IN
              /\ shdr'[i].link = renumero_index_section(h.link, x)
              /\ HasSectionInfo(shdr'[i]) <=> HasSectionInfo(h)
              /\ HasSectionInfo(shdr'[i]) => shdr'[i].info = renumero_index_section(h.info, x)
              /\ shdr'[i].body = h.body /\ shdr'[i].addr = h.addr
    <3>1. DOMAIN shdr = 0 .. n - 1
      BY <1>1 DEF TypeTables
    <3> PICK tab : tab = shdr'
      OBVIOUS
    <3>2. /\ TypeTables /\ ImageOK(image) /\ x \in 1 .. ehdr.e_shnum - 1
          /\ tab = TableAfter(shdr, ehdr.e_shnum, x)
      BY <1>1, <2>1, <2>2
    <3>3. /\ n \in 2 .. 255 /\ DOMAIN tab = 0 .. n - 2
          /\ \A i \in 0 .. n - 2 :
                LET h == shdr[Ancien(i, x)] IN
                /\ tab[i].link = renumero_index_section(h.link, x)
                /\ HasSectionInfo(tab[i]) <=> HasSectionInfo(h)
                /\ HasSectionInfo(tab[i]) => tab[i].info = renumero_index_section(h.info, x)
                /\ tab[i].body = h.body /\ tab[i].addr = h.addr
      BY <3>2, Retrait
    <3> QED
      BY <3>1, <3>3
  <2>4. x \in DOMAIN shdr /\ x # 0
    <3>1. n \in 2 .. 255 /\ DOMAIN shdr = 0 .. n - 1
      BY <2>3
    <3> QED
      BY <2>1, <3>1
  <2> PICK r : r = shdr[x].body
    OBVIOUS
  <2>5. Lecture /\ Lecture'
    <3>1. IInv' => Lecture'
      BY LectureFaite, PTL
    <3> QED
      BY <1>1, <3>1, LectureFaite
  <2>6. Presents' = Presents \ {r} /\ r \in Presents
    BY <1>1, <2>1, <2>2, <2>4, <2>5, PresentsRetrait DEF Lecture
  <2>7. ASSUME NEW b \in Presents'
        PROVE  \E i \in DOMAIN shdr', j \in DOMAIN shdr :
                 /\ b = shdr'[i].body /\ b = shdr[j].body /\ j # x
                 /\ shdr'[i].addr = shdr[j].addr
                 /\ shdr'[i].link = renumero_index_section(shdr[j].link, x)
                 /\ HasSectionInfo(shdr'[i]) <=> HasSectionInfo(shdr[j])
                 /\ HasSectionInfo(shdr[j]) =>
                      shdr'[i].info = renumero_index_section(shdr[j].info, x)
    <3>1. PICK i \in DOMAIN shdr' : b = shdr'[i].body
      BY <2>5, <2>7 DEF Lecture
    <3>2. i \in 0 .. n - 2
      BY <2>3, <3>1
    <3>4. n \in 2 .. 255 /\ x \in 1 .. n - 1
      BY <2>1, <2>3
    <3>3. Ancien(i, x) \in 0 .. n - 1 /\ Ancien(i, x) # x
      BY <3>2, <3>4, AncienOrdre, Zenon
    <3> QED
      BY <2>3, <3>1, <3>2, <3>3
  <2>8. \A m \in DOMAIN shdr :
          /\ renumero_index_section(m, x) \in DOMAIN shdr'
          /\ shdr'[renumero_index_section(m, x)].body = Abstrait!Sans(shdr[m].body, r)
    BY <1>1, <2>1, <2>2, CorpsRenumerote
  <2>9. /\ \A j \in DOMAIN shdr : /\ shdr[j].link \in DOMAIN shdr
                                  /\ HasSectionInfo(shdr[j]) => shdr[j].info \in DOMAIN shdr
        /\ ehdr.e_shstrndx \in DOMAIN shdr
    BY <1>1 DEF TypeTables
  <2>10. Adresses' = [b \in Presents' |-> Adresses[b]]
    <3>1. ASSUME NEW b \in Presents' PROVE Adresses'[b] = Adresses[b]
      <4>1. PICK i \in DOMAIN shdr', j \in DOMAIN shdr :
              b = shdr'[i].body /\ b = shdr[j].body /\ shdr'[i].addr = shdr[j].addr
        BY <2>7
      <4> QED
        BY <2>5, <4>1 DEF Lecture
    <3>2. Adresses' = [b \in Presents' |-> Adresses'[b]]
      BY DEF Adresses
    <3> QED
      BY <3>1, <3>2
  <2>11. Liens' = [b \in Presents' |-> Abstrait!Sans(Liens[b], r)]
    <3>1. ASSUME NEW b \in Presents' PROVE Liens'[b] = Abstrait!Sans(Liens[b], r)
      <4>1. PICK i \in DOMAIN shdr', j \in DOMAIN shdr :
              /\ b = shdr'[i].body /\ b = shdr[j].body
              /\ shdr'[i].link = renumero_index_section(shdr[j].link, x)
        BY <2>7
      <4>2. Liens'[b] = shdr'[shdr'[i].link].body /\ Liens[b] = shdr[shdr[j].link].body
        <5>1. Liens'[b] = shdr'[shdr'[i].link].body
          BY <2>5, <4>1 DEF Lecture
        <5>2. Liens[b] = shdr[shdr[j].link].body
          BY <2>5, <4>1 DEF Lecture
        <5> QED
          BY <5>1, <5>2
      <4> QED
        BY <2>8, <2>9, <4>1, <4>2
    <3>2. Liens' = [b \in Presents' |-> Liens'[b]]
      BY DEF Liens
    <3> QED
      BY <3>1, <3>2
  <2>12. Infos' = [b \in (DOMAIN Infos) \ {r} |-> Abstrait!Sans(Infos[b], r)]
    <3>1. DOMAIN Infos' = (DOMAIN Infos) \ {r}
      <4>1. ASSUME NEW b \in Presents' PROVE b \in DOMAIN Infos' <=> b \in DOMAIN Infos
        <5>1. PICK i \in DOMAIN shdr', j \in DOMAIN shdr :
                /\ b = shdr'[i].body /\ b = shdr[j].body
                /\ HasSectionInfo(shdr'[i]) <=> HasSectionInfo(shdr[j])
          BY <2>7
        <5> QED
          BY <2>5, <5>1 DEF Lecture
      <4>2. DOMAIN Infos' \subseteq Presents' /\ DOMAIN Infos \subseteq Presents
        BY <2>5 DEF Lecture
      <4> QED
        BY <2>6, <4>1, <4>2
    <3>2. ASSUME NEW b \in DOMAIN Infos' PROVE Infos'[b] = Abstrait!Sans(Infos[b], r)
      <4>1. b \in Presents' /\ b \in DOMAIN Infos
        BY <2>5, <3>1, <3>2 DEF Lecture
      <4>2. PICK i \in DOMAIN shdr', j \in DOMAIN shdr :
              /\ b = shdr'[i].body /\ b = shdr[j].body
              /\ HasSectionInfo(shdr'[i]) <=> HasSectionInfo(shdr[j])
              /\ HasSectionInfo(shdr[j]) =>
                   shdr'[i].info = renumero_index_section(shdr[j].info, x)
        BY <2>7, <4>1
      <4>3. HasSectionInfo(shdr[j])
        BY <2>5, <4>1, <4>2 DEF Lecture
      <4>4. Infos'[b] = shdr'[shdr'[i].info].body /\ Infos[b] = shdr[shdr[j].info].body
        BY <2>5, <4>2, <4>3 DEF Lecture
      <4> QED
        BY <2>8, <2>9, <4>2, <4>3, <4>4
    <3>3. Infos' = [b \in DOMAIN Infos' |-> Infos'[b]]
      BY DEF Infos
    <3> QED
      BY <3>1, <3>2, <3>3
  <2>13. Noms' = Abstrait!Sans(Noms, r)
    <3>1. ehdr'.e_shstrndx = renumero_index_section(ehdr.e_shstrndx, x)
      BY <1>1, <2>2 DEF TypeTables
    <3> QED
      BY <2>8, <2>9, <3>1 DEF Noms
  <2>14. Membres' = [w \in DOMAIN Membres |-> Abstrait!Sans(Membres[w], r)]
    BY <1>1, <2>1, <2>2, MembresRetrait DEF RInv
  <2>15. Valeurs' = Valeurs /\ CorpsNul' = CorpsNul
    BY <2>2 DEF Valeurs, CorpsNul
  <2>16. LectureSymboles /\ LectureSymboles'
    <3>1. (IInv /\ SuiviInv)' => LectureSymboles'
      BY LectureSymbolesFaite, PTL
    <3> QED
      BY <3>1, LectureSymbolesFaite DEF RInv
  <2>17. Proprios' = Proprios
    BY <2>2, <2>16 DEF LectureSymboles, Regulier, ProprioDImage
  <2>18. r # CorpsNul
    <3>1. 0 \in DOMAIN shdr
      <4>1. n \in 2 .. 255
        BY <2>3
      <4>2. 0 \in 0 .. n - 1
        BY <2>1, <4>1, AncienMonotone
      <4> QED
        BY <2>3, <4>2
    <3> QED
      BY <1>1, <2>4, <3>1 DEF CorpsOK
  <2>19. \A k \in DOMAIN Proprios : Proprios[k] # r
    <3> SUFFICES ASSUME NEW k \in DOMAIN sym PROVE Proprios[k] # r
      BY DEF Proprios
    <3>1. k \in DOMAIN image.sym /\ Proprios[k] = ProprioDImage(k)
      BY <1>1, <2>16 DEF LectureSymboles, TypeTables
    <3>2. CASE image.sym[k].shndx >= SHN_ABS
      <4>1. Proprios[k] = image.sym[k].shndx /\ sym[k].shndx = image.sym[k].shndx
        BY <3>1, <3>2 DEF ProprioDImage, RInv, SuiviInv, SymbolesSuivent
      <4>2. sym[k].shndx \in 0 .. SHN_HIRESERVE
        <5>1. sym[k] \in SymboleLibre
          BY <1>1, <3>1 DEF TypeTables
        <5> QED
          BY <5>1 DEF SymboleLibre
      <4>3. Proprios[k] \in SHN_ABS .. SHN_HIRESERVE
        BY <3>2, <4>1, <4>2, Indices
      <4>4. r \in Corps
        <5>1. shdr[x] \in EnTete
          BY <1>1, <2>4 DEF TypeTables
        <5> QED
          BY <5>1 DEF EnTete
      <4> QED
        BY <4>3, <4>4, CorpsAssumption
    <3>3. CASE ~(image.sym[k].shndx >= SHN_ABS)
      <4>1. Proprios[k] = image.shdr[image.sym[k].shndx].body
        BY <3>1, <3>3 DEF ProprioDImage
      <4> QED
        BY <1>1, <2>1, <2>4, <3>1, <3>3, <4>1, HorsDuRetrait
    <3> QED
      BY <3>2, <3>3
  <2>20. exe = NoExe /\ exe' = exe
    BY <1>1, <2>2, ProduitPasEncore
  <2>21. Abstrait!Retirer(r)
    BY <2>6, <2>10, <2>11, <2>12, <2>13, <2>14, <2>15, <2>17, <2>18, <2>19, <2>20
       DEF Abstrait!Retirer
  <2> QED
    BY <2>6, <2>21 DEF Abstrait!Next
<1>4. CASE Arret("abandon")
  BY <1>4, Invisible DEF Arret, entree, tables
<1> QED
  BY <1>2, <1>3, <1>4

(***************************************************************************)
(* corrige_ndx is invisible, the last step writes the executable.          *)
(***************************************************************************)
LEMMA RefineCorrige ==
  ASSUME RInv, RInv', Regulier, CorrigeNdx
  PROVE  UNCHANGED Abstrait!avars
<1>1. CASE ~TablesLues
  <2>1. Arret("abandon")
    BY <1>1 DEF CorrigeNdx
  <2> QED
    BY <2>1, Invisible DEF Arret, entree, tables
<1>2. CASE TablesLues
  <2>1. IInv /\ SuiviInv /\ DOMAIN sym = DOMAIN image.sym
    BY DEF RInv, IInv, TypeOK, TypeTables
  <2>2. UNCHANGED <<image, ehdr, shdr, group, exe>> /\ etape = "corrige"
    BY <1>2 DEF CorrigeNdx, entree
  <2>3. UNCHANGED <<Presents, Adresses, Liens, Infos, Noms, Membres, CorpsNul>>
    BY <2>2, TablesVues
  <2>4. LectureSymboles /\ LectureSymboles'
    <3>1. (IInv /\ SuiviInv)' => LectureSymboles'
      BY LectureSymbolesFaite, PTL
    <3> QED
      BY <3>1, LectureSymbolesFaite DEF RInv
  <2>5. Proprios' = Proprios
    BY <2>2, <2>4 DEF LectureSymboles, Regulier, ProprioDImage
  <2>6. Valeurs' = Valeurs
    <3>1. DOMAIN sym' = DOMAIN sym
      BY <1>2, <2>1, CorrigeGarde
    <3>2. FigeSymboles
      BY <2>1, <2>2, PasFige DEF Next
    <3> QED
      BY <3>1, <3>2 DEF Valeurs, FigeSymboles
  <2> QED
    BY <2>2, <2>3, <2>5, <2>6 DEF Abstrait!avars, Abstrait!liens
<1> QED
  BY <1>1, <1>2

LEMMA RefineProdu ==
  ASSUME RInv, ProduExecutable
  PROVE  Abstrait!Next \/ UNCHANGED Abstrait!avars
<1>1. exe = NoExe
  BY ProduitPasEncore DEF ProduExecutable
<1>2. UNCHANGED <<image, ehdr, shdr, group, sym, index_supprime>>
  BY DEF ProduExecutable, Arret, entree, tables
<1>3. CASE exe' = NoExe
  BY <1>1, <1>2, <1>3, Invisible
<1>4. CASE exe' # NoExe
  <2>1. UNCHANGED <<Presents, Adresses, Liens, Infos, Noms, Membres, CorpsNul>>
    BY <1>2, TablesVues
  <2>2. Proprios' = Proprios /\ Valeurs' = Valeurs
    BY <1>2 DEF Proprios, Valeurs, Proprio
  <2> QED
    BY <1>1, <1>4, <2>1, <2>2 DEF Abstrait!Next, Abstrait!Produire, Abstrait!liens
<1> QED
  BY <1>3, <1>4

LEMMA PremierGroupeSuite == IInv /\ IInv' /\ PremierGroupe /\ [Next]_vars => PremierGroupe'
<1> SUFFICES ASSUME IInv, IInv', PremierGroupe, [Next]_vars PROVE PremierGroupe'
  OBVIOUS
<1>1. /\ TypeTables /\ ImageOK(image)
  BY DEF IInv, TypeOK, TypeOptions
<1>2. ASSUME DOMAIN shdr' = DOMAIN shdr, group' = group,
             \A i \in DOMAIN shdr : shdr'[i].name = shdr[i].name /\ shdr'[i].body = shdr[i].body
      PROVE  PremierGroupe'
  <2>1. ehdr.e_shnum \in Nat /\ DOMAIN shdr = 0 .. ehdr.e_shnum - 1
    BY <1>1, SectionTrouvee DEF TypeTables
  <2>2. chercher_index_de_section(shdr', Group) = chercher_index_de_section(shdr, Group)
    BY <1>2, <2>1, MemesNoms
  <2>3. Section(Group)' = Section(Group)
    BY <2>2 DEF Section
  <2>4. Section(Group) # -1 => Section(Group) \in DOMAIN shdr
    BY <1>1, SectionTrouvee DEF TypeTables
  <2> QED
    BY <1>2, <2>3, <2>4 DEF PremierGroupe
<1>3. CASE SupprimerUneSection
  <2> PICK x : x = Section(get_nom_rel_corre(str_section[tour]))
    OBVIOUS
  <2> PICK n : n = ehdr.e_shnum
    OBVIOUS
  <2> PICK g : g = Section(Group)
    OBVIOUS
  <2>1. CASE x = -1 \/ Arret("abandon")
    BY <1>2, <1>3, <2>1 DEF SupprimerUneSection, Arret, tables
  <2>2. CASE x # -1 /\ ~Arret("abandon")
    <3>1. x \in 1 .. n - 1 /\ shdr[x].name # <<>> /\ Head(shdr[x].name) = ".rel"
      BY <1>3, <2>2, RetireNonNulle DEF SupprimerUneSection
    <3>2. /\ shdr' = TableAfter(shdr, n, x)
          /\ group' = IF g = -1 THEN group
                      ELSE [group EXCEPT ![shdr[g].body] =
                             [w \in DOMAIN @ |-> GroupWordAfter(@[w], x)]]
          /\ UNCHANGED image
      BY <1>3, <2>2 DEF SupprimerUneSection, entree
    <3> QED
      BY <3>1, <3>2, MembresRetrait
  <2> QED
    BY <2>1, <2>2
<1>4. CASE AddrCharge
  <2>1. group' = group
    BY <1>4 DEF AddrCharge, Arret, tables
  <2> QED
    BY <1>2, <1>4, <2>1, AddrChargeNoms
<1>5. CASE \/ OptionSection \/ OptionSortie \/ ErreurOptions \/ FinOptions
           \/ PasseSection \/ ReimplantEchoue \/ ReimplanteEntree
           \/ SectionReimplantee \/ FinReimplants \/ CorrigeNdx \/ ProduExecutable
           \/ UNCHANGED vars
  <2>1. UNCHANGED <<shdr, group>>
    BY <1>5 DEF vars, OptionSection, OptionSortie, ErreurOptions, FinOptions, PasseSection, ReimplantEchoue,
       ReimplanteEntree, SectionReimplantee, FinReimplants, CorrigeNdx, ProduExecutable, Arret, tables
  <2> QED
    BY <1>2, <2>1
<1> QED
  BY <1>3, <1>4, <1>5 DEF Next

LEMMA RefineSuite == RInv /\ RInv' /\ Regulier /\ [Next]_vars => [Abstrait!Next]_(Abstrait!avars)
<1> SUFFICES ASSUME RInv, RInv', Regulier, [Next]_vars
             PROVE  Abstrait!Next \/ UNCHANGED Abstrait!avars
  OBVIOUS
<1>1. CASE \/ OptionSection \/ OptionSortie \/ ErreurOptions \/ FinOptions
           \/ PasseSection \/ ReimplantEchoue \/ ReimplanteEntree
           \/ SectionReimplantee \/ FinReimplants \/ UNCHANGED vars
  <2>1. UNCHANGED <<image, ehdr, shdr, group, sym, index_supprime, exe>>
    BY <1>1 DEF vars, OptionSection, OptionSortie, ErreurOptions, FinOptions, PasseSection, ReimplantEchoue,
       ReimplanteEntree, SectionReimplantee, FinReimplants, Arret, entree, tables
  <2> QED
    BY <2>1, Invisible
<1> QED
  BY <1>1, RefineCharge, RefineSupprime, RefineCorrige, RefineProdu DEF Next

(***************************************************************************)
(* For every big-endian file without symbols in removed sections, whatever *)
(* the order of its sections, its links, its group, the command line and   *)
(* the addresses: the pipeline of Phase2 implements the linker that knows  *)
(* its sections by identity; no renumbering of Etap6.c or Etap7.c can be   *)
(* told from outside.                                                      *)
(***************************************************************************)
THEOREM PipelineRaffine == Spec /\ []Regulier => RaffineEditionLiens
<1>1. Init => Abstrait!Init
  BY RefineInit
<1>2. Spec => [](IInv /\ OteInv)
  BY IInvToujours, OteToujours, PTL
<1>3. Spec => []SuiviInv
  BY SuiviToujours
<1>4. Spec => []PremierGroupe
  <2>1. Init => PremierGroupe
    BY InitPremierGroupe
  <2>2. IInv /\ IInv' /\ PremierGroupe /\ [Next]_vars => PremierGroupe'
    BY PremierGroupeSuite
  <2> QED
    BY <2>1, <2>2, IInvToujours, PTL DEF Spec
<1>5. IInv /\ OteInv /\ SuiviInv /\ PremierGroupe => RInv
  BY DEF RInv
<1>6. Spec => []RInv
  BY <1>2, <1>3, <1>4, <1>5, PTL
<1>7. RInv /\ RInv' /\ Regulier /\ [Next]_vars => [Abstrait!Next]_(Abstrait!avars)
  BY RefineSuite
<1> QED
  BY <1>1, <1>6, <1>7, PTL DEF Spec, RaffineEditionLiens, Abstrait!Spec

-----------------------------------------------------------------------------

(***************************************************************************)
(* While the options are read: as many names and addresses as -s options   *)
(* were read, and an output once -o was.                                   *)
(***************************************************************************)
SectionsLues(n) == {o \in 1 .. n : argv[o].opt = "s"}

Sain == LigneComplete /\ FichierSain /\ Regulier

OptionsLues ==
  Sain /\ etape = "options" =>
    /\ index = Cardinality(SectionsLues(optind))
    /\ (\E o \in 1 .. optind : argv[o].opt = "o") => fp_sortie
    /\ \A i \in 0 .. index - 1 : str_section[i] \in Nom

OptionsConnues ==
  Sain /\ etape \in Etapes \ {"options"} =>
    fp_sortie /\ \A t \in 0 .. MAXSIZE - 1 : str_section[t] \in Nom

(***************************************************************************)
(* Until the first removal the table has the sections of the object file   *)
(* at the places they have there.                                          *)
(***************************************************************************)
TableDImage ==
  etape \in {"options", "charge", "reimplants"} =>
    /\ DOMAIN shdr = DOMAIN image.shdr
    /\ \A i \in DOMAIN shdr : /\ MemeSection(i, i)
                              /\ shdr[i].size = image.shdr[i].size

(***************************************************************************)
(* The places and sizes of the sections, the size of their entries and the *)
(* place of their table are those of the object file to the end.           *)
(***************************************************************************)
Etendues ==
  /\ \A i \in DOMAIN shdr, o \in DOMAIN image.shdr :
       shdr[i].body = image.shdr[o].body =>
         /\ shdr[i].size = image.shdr[o].size /\ shdr[i].offset = image.shdr[o].offset
         /\ shdr[i].entsize = image.shdr[o].entsize
  /\ ehdr.e_shoff = image.ehdr.e_shoff

Lisible == Regulier => \A k \in DOMAIN sym : sym[k].inverse = FALSE

Arretes == {"erreur", "abandon", "indefini"}

Reussit == Sain => etape \notin Arretes

ReuInv == OptionsLues /\ OptionsConnues /\ TableDImage /\ Lisible /\ Reussit

LEMMA InitReu == Init => ReuInv
<1> SUFFICES ASSUME Init PROVE ReuInv
  OBVIOUS
<1>1. /\ ImageOK(image) /\ etape = "options" /\ optind = 0 /\ index = 0
      /\ shdr = image.shdr /\ sym = image.sym
  BY ImagesAssumption DEF Init
<1>2. OptionsLues
  <2>1. 1 .. optind = {}
    BY <1>1
  <2>2. SectionsLues(optind) = {}
    BY <2>1 DEF SectionsLues
  <2>3. 0 .. index - 1 = {}
    BY <1>1
  <2> QED
    BY <1>1, <2>1, <2>2, <2>3, FS_EmptySet DEF OptionsLues
<1>3. OptionsConnues
  BY <1>1 DEF OptionsConnues
<1>4. TableDImage
  BY <1>1 DEF TableDImage, MemeSection
<1>5. Lisible
  <2> SUFFICES ASSUME NEW k \in DOMAIN image.sym PROVE image.sym[k].inverse = FALSE
    BY <1>1 DEF Lisible
  <2>1. image.sym \in Seq(Symbole(image.ehdr.e_shnum))
    BY <1>1 DEF ImageOK
  <2>2. image.sym[k] \in Symbole(image.ehdr.e_shnum)
    BY <2>1
  <2> QED
    BY <2>2 DEF Symbole
<1>6. Reussit
  BY <1>1 DEF Reussit, Arretes
<1> QED
  BY <1>2, <1>3, <1>4, <1>5, <1>6 DEF ReuInv

(***************************************************************************)
(* A third section is one too many: main never runs out of places for a    *)
(* complete line.                                                          *)
(***************************************************************************)
LEMMA LuesFini ==
  ASSUME NEW n \in Nat
  PROVE  /\ IsFiniteSet(SectionsLues(n)) /\ Cardinality(SectionsLues(n)) \in Nat
<1>1. IsFiniteSet(1 .. n)
  BY FS_Interval
<1>2. SectionsLues(n) \in SUBSET (1 .. n)
  BY DEF SectionsLues
<1> QED
  BY <1>1, <1>2, FS_Subset, FS_CardinalityType

LEMMA LueDePlus ==
  ASSUME NEW n \in Nat
  PROVE  Cardinality(SectionsLues(n + 1)) =
           IF argv[n + 1].opt = "s" THEN Cardinality(SectionsLues(n)) + 1
                                    ELSE Cardinality(SectionsLues(n))
<1>1. CASE argv[n + 1].opt = "s"
  <2>1. SectionsLues(n + 1) = SectionsLues(n) \union {n + 1}
    BY <1>1 DEF SectionsLues
  <2>2. n + 1 \notin SectionsLues(n)
    BY DEF SectionsLues
  <2> QED
    BY <1>1, <2>1, <2>2, LuesFini, FS_AddElement
<1>2. CASE argv[n + 1].opt # "s"
  <2>1. SectionsLues(n + 1) = SectionsLues(n)
    BY <1>2 DEF SectionsLues
  <2> QED
    BY <1>2, <2>1
<1> QED
  BY <1>1, <1>2

LEMMA LuesAuPlus ==
  ASSUME Sain, NEW m, m = Len(argv), m \in Nat, DOMAIN argv = 1 .. m,
         NEW n \in 0 .. m
  PROVE  /\ Cardinality(SectionsLues(n)) <= MAXSIZE
         /\ Cardinality(SectionsLues(m)) = MAXSIZE
<1>1. SectionsLues(m) = {o \in DOMAIN argv : argv[o].opt = "s"}
  BY DEF SectionsLues
<1>2. Cardinality(SectionsLues(m)) = MAXSIZE
  BY <1>1 DEF Sain, LigneComplete
<1>3. SectionsLues(n) \in SUBSET SectionsLues(m)
  BY DEF SectionsLues
<1> QED
  BY <1>2, <1>3, LuesFini, FS_Subset

LEMMA Ligne ==
  ASSUME IInv
  PROVE  /\ argv \in Lignes /\ argv \in Seq(Range(argv))
         /\ Len(argv) \in Nat /\ DOMAIN argv = 1 .. Len(argv)
         /\ optind \in 0 .. Len(argv) /\ index \in 0 .. MAXSIZE
         /\ \A o \in DOMAIN argv : OptionOK(argv[o])
<1>1. argv \in Lignes /\ optind \in 0 .. Len(argv) /\ index \in 0 .. MAXSIZE
  BY DEF IInv, TypeOK, TypeOptions
<1>2. argv \in Seq(Range(argv)) /\ \A o \in DOMAIN argv : OptionOK(argv[o])
  BY <1>1, LignesAssumption
<1> QED
  BY <1>1, <1>2

(***************************************************************************)
(* The options of a complete line are read without an error.               *)
(***************************************************************************)
LEMMA UneSection ==
  ASSUME IInv, ReuInv, Sain, OptionSection
  PROVE  /\ OptionsLues' /\ etape' = "options" /\ UNCHANGED <<image, argv, shdr, sym>>
<1>1. /\ etape = "options" /\ optind < Len(argv) /\ argv[optind + 1].opt = "s"
  BY DEF OptionSection
<1> PICK o : o = argv[optind + 1]
  OBVIOUS
<1> PICK n : n = optind
  OBVIOUS
<1>2. n \in Nat /\ n + 1 \in 0 .. Len(argv) /\ n + 1 \in DOMAIN argv
  BY <1>1, Ligne
<1>3. /\ index = Cardinality(SectionsLues(n))
      /\ (\E k \in 1 .. n : argv[k].opt = "o") => fp_sortie
      /\ \A i \in 0 .. index - 1 : str_section[i] \in Nom
  BY <1>1 DEF ReuInv, OptionsLues
<1>4. Cardinality(SectionsLues(n + 1)) = index + 1 /\ Cardinality(SectionsLues(n + 1)) <= MAXSIZE
  <2>1. Cardinality(SectionsLues(n + 1)) = index + 1
    BY <1>1, <1>2, <1>3, LueDePlus
  <2>2. Cardinality(SectionsLues(n + 1)) <= MAXSIZE
    BY <1>2, Ligne, LuesAuPlus
  <2> QED
    BY <2>1, <2>2
<1>5. index \in 0 .. 1 /\ MAXSIZE = 2
  BY <1>4, Ligne DEF MAXSIZE
<1>6. o.nom \in Nom /\ o.valeur # Inconnu /\ o.valeur # NULL
  BY <1>1, <1>2, Ligne DEF OptionOK, Sain, LigneComplete
<1>7. /\ optind' = n + 1 /\ index' = index + 1
      /\ str_section' = [str_section EXCEPT ![index] = o.nom]
      /\ UNCHANGED <<image, argv, fp_sortie, etape, shdr, sym>>
  BY <1>5, <1>6 DEF OptionSection, FormatValide, entree, tables
<1>8. \A i \in 0 .. index' - 1 : str_section'[i] \in Nom
  <2>1. DOMAIN str_section = 0 .. MAXSIZE - 1
    BY DEF IInv, TypeOK, TypeOptions
  <2> QED
    BY <1>3, <1>5, <1>6, <1>7, <2>1
<1>9. index' = Cardinality(SectionsLues(optind))'
  <2>1. SectionsLues(optind)' = SectionsLues(n + 1)
    BY <1>7 DEF SectionsLues
  <2> QED
    BY <1>4, <1>7, <2>1
<1>10. (\E k \in 1 .. n + 1 : argv[k].opt = "o") => fp_sortie
  BY <1>1, <1>2, <1>3
<1> QED
  BY <1>1, <1>7, <1>8, <1>9, <1>10 DEF OptionsLues

LEMMA UneSortie ==
  ASSUME IInv, ReuInv, Sain, OptionSortie
  PROVE  /\ OptionsLues' /\ etape' = "options" /\ UNCHANGED <<image, argv, shdr, sym>>
<1>1. /\ etape = "options" /\ optind < Len(argv) /\ argv[optind + 1].opt = "o"
      /\ optind' = optind + 1 /\ fp_sortie' = TRUE
      /\ UNCHANGED <<image, argv, index, str_section, etape, shdr, sym>>
  BY DEF OptionSortie, Sain, FichierSain, entree, tables
<1> PICK n : n = optind
  OBVIOUS
<1>2. n \in Nat
  BY Ligne
<1>3. Cardinality(SectionsLues(n + 1)) = Cardinality(SectionsLues(n))
  BY <1>1, <1>2, LueDePlus
<1>4. index' = Cardinality(SectionsLues(optind))'
  <2>1. SectionsLues(optind)' = SectionsLues(n + 1)
    BY <1>1 DEF SectionsLues
  <2>2. index = Cardinality(SectionsLues(n))
    BY <1>1 DEF ReuInv, OptionsLues
  <2> QED
    BY <1>1, <1>3, <2>1, <2>2
<1> QED
  BY <1>1, <1>4 DEF ReuInv, OptionsLues

LEMMA PasDErreur ==
  ASSUME IInv, Sain
  PROVE  ~ErreurOptions
<1>1. Ouvert
  BY Ligne DEF Ouvert, Sain, LigneComplete, FichierSain
<1>2. optind < Len(argv) => argv[optind + 1].opt # "?"
  <2> SUFFICES ASSUME optind < Len(argv) PROVE optind + 1 \in DOMAIN argv
    BY DEF Sain, LigneComplete
  <2> QED
    BY Ligne
<1> QED
  BY <1>1, <1>2 DEF ErreurOptions

LEMMA FinLigne ==
  ASSUME IInv, ReuInv, Sain, FinOptions
  PROVE  /\ OptionsConnues' /\ etape' = "charge" /\ UNCHANGED <<image, argv, shdr, sym>>
<1>1. etape = "options" /\ optind = Len(argv)
  BY DEF FinOptions
<1>2. argv # <<>> /\ image.elf
  BY Ligne DEF Sain, LigneComplete, FichierSain
<1>3. etape' = "charge" /\ UNCHANGED <<image, argv, fp_sortie, str_section, shdr, sym>>
  BY <1>2 DEF FinOptions, Arret, entree, options, tables
<1>4. Len(argv) \in Nat /\ DOMAIN argv = 1 .. Len(argv)
  BY Ligne
<1>5. index = MAXSIZE
  <2>1. index = Cardinality(SectionsLues(Len(argv)))
    BY <1>1 DEF ReuInv, OptionsLues
  <2> QED
    BY <1>4, <2>1, LuesAuPlus
<1>6. fp_sortie
  BY <1>1, <1>4 DEF ReuInv, OptionsLues, Sain, LigneComplete
<1>7. \A t \in 0 .. MAXSIZE - 1 : str_section[t] \in Nom
  BY <1>1, <1>5 DEF ReuInv, OptionsLues
<1> QED
  BY <1>3, <1>6, <1>7 DEF OptionsConnues

(***************************************************************************)
(* A header is as readable as the one it was in the object file.           *)
(***************************************************************************)
LEMMA LuDImage ==
  ASSUME IInv, Etendues, NEW i \in DOMAIN shdr, NEW o \in DOMAIN image.shdr,
         shdr[i].body = image.shdr[o].body
  PROVE  /\ shdr[i].name = image.shdr[o].name
         /\ NonVide(shdr[i]) <=> NonVide(image.shdr[o])
         /\ EntreesLisibles(shdr[i]) <=> EntreesLisibles(image.shdr[o])
<1>1. ImageOK(image) /\ CorpsOK
  BY DEF IInv, TypeOK, TypeOptions
<1>2. PICK p \in DOMAIN image.shdr : MemeSection(i, p)
  BY <1>1 DEF CorpsOK
<1>3. p = o
  BY <1>1, <1>2, CorpsDImage DEF MemeSection
<1>4. shdr[i].size = image.shdr[o].size /\ shdr[i].entsize = image.shdr[o].entsize
  BY DEF Etendues
<1> QED
  BY <1>2, <1>3, <1>4 DEF MemeSection, NonVide, calcul_nombre_entrees, EntreesLisibles

(***************************************************************************)
(* The tables are never removed: their names do not begin with ".rel".     *)
(***************************************************************************)
LEMMA TableGardee ==
  ASSUME IInv, OteInv, ReuInv, Sain, etape \in Etapes,
         NEW o \in DOMAIN image.shdr, image.shdr[o].name \in {Shstrtab, Symtab, Strtab}
  PROVE  image.shdr[o].body \in Presents
<1>1. Head(image.shdr[o].name) # ".rel"
  BY DEF Symtab, Strtab, Shstrtab
<1>2. etape # "options" => ~AOter(image.shdr[o])
  <2> SUFFICES ASSUME etape # "options", NEW t \in 0 .. MAXSIZE - 1,
                      image.shdr[o].name = get_nom_rel_corre(str_section[t])
               PROVE  FALSE
    BY DEF AOter
  <2>1. str_section[t] \in Seq(STRING)
    BY DEF ReuInv, OptionsConnues, Nom
  <2> QED
    BY <1>1, <2>1, NomRel
<1> QED
  BY <1>2 DEF OteInv, RienDePlus

(***************************************************************************)
(* What the readers ask of a section of that name they find.               *)
(***************************************************************************)
LEMMA TableTrouvee ==
  ASSUME IInv, Etendues, Sain, NEW nom \in {Symtab, Strtab, Group}, Section(nom) # -1
  PROVE  /\ NonVide(shdr[Section(nom)])
         /\ nom = Symtab => EntreesLisibles(shdr[Section(nom)])
<1> PICK i : i = Section(nom)
  OBVIOUS
<1>1. ImageOK(image) /\ CorpsOK /\ TypeTables
  BY DEF IInv, TypeOK, TypeOptions
<1>2. i \in DOMAIN shdr /\ shdr[i].name = nom
  BY <1>1, SectionTrouvee DEF TypeTables
<1>3. PICK o \in DOMAIN image.shdr : MemeSection(i, o)
  BY <1>1, <1>2 DEF CorpsOK
<1>4. /\ image.shdr[o].name = nom
      /\ NonVide(shdr[i]) <=> NonVide(image.shdr[o])
      /\ EntreesLisibles(shdr[i]) <=> EntreesLisibles(image.shdr[o])
  BY <1>2, <1>3, LuDImage DEF MemeSection
<1>5. /\ NonVide(image.shdr[o])
      /\ nom = Symtab => calcul_nombre_entrees(image.shdr[o])
  BY <1>4 DEF Sain, FichierSain
<1> QED
  BY <1>4, <1>5 DEF EntreesLisibles

LEMMA TablesGardees ==
  ASSUME IInv, OteInv, ReuInv, Etendues, TableSuit, Sain, etape \in Etapes
  PROVE  TablesLues /\ StrtabLisible
<1>1. ImageOK(image) /\ CorpsOK /\ TypeTables
  BY DEF IInv, TypeOK, TypeOptions
<1>2. ASSUME NEW nom \in {Symtab, Strtab} PROVE Section(nom) # -1
  <2>1. PICK o \in DOMAIN image.shdr : image.shdr[o].name = nom
    BY <1>2 DEF Sain, FichierSain
  <2>2. PICK i \in DOMAIN shdr : shdr[i].body = image.shdr[o].body
    BY <2>1, TableGardee DEF Presents
  <2>3. shdr[i].name = nom
    BY <2>1, <2>2, LuDImage
  <2> QED
    BY <1>1, <2>3, SectionAbsente
<1>3. NomsLisibles
  <2> PICK o : o = image.ehdr.e_shstrndx
    OBVIOUS
  <2> PICK i : i = ehdr.e_shstrndx
    OBVIOUS
  <2>1. o \in DOMAIN image.shdr /\ i \in DOMAIN shdr
    BY <1>1 DEF ImageOK, TypeTables
  <2>2. image.shdr[o].name = Shstrtab
    BY DEF Sain, FichierSain
  <2>3. image.shdr[o].body \in Presents
    BY <2>1, <2>2, TableGardee
  <2>4. shdr[i].body = image.shdr[o].body
    BY <2>3 DEF TableSuit, Suit
  <2>5. NonVide(image.shdr[o])
    BY <2>1, <2>2 DEF Sain, FichierSain
  <2>6. NonVide(shdr[i])
    BY <2>1, <2>4, <2>5, LuDImage
  <2> QED
    BY <2>6 DEF NomsLisibles
<1>4. Section(Symtab) # -1 /\ Section(Strtab) # -1
  BY <1>2
<1>5. EntreesLisibles(shdr[Section(Symtab)]) /\ NonVide(shdr[Section(Strtab)])
  BY <1>4, TableTrouvee
<1> QED
  BY <1>3, <1>4, <1>5 DEF TablesLues, SymbolesLisibles, StrtabLisible

(***************************************************************************)
(* The first section of a name is the same in the table and in the object  *)
(* file until the first removal.                                           *)
(***************************************************************************)
LEMMA ChercherDImage ==
  ASSUME IInv, TableDImage, etape \in {"options", "charge", "reimplants"}, NEW nom
  PROVE  Section(nom) = chercher_index_de_section(image.shdr, nom)
<1> PICK n : n = image.ehdr.e_shnum
  OBVIOUS
<1>1. n \in Nat /\ DOMAIN image.shdr = 0 .. n - 1
  BY DEF IInv, TypeOK, TypeOptions, ImageOK
<1>2. DOMAIN shdr = DOMAIN image.shdr /\ \A i \in DOMAIN shdr : shdr[i].name = image.shdr[i].name
  BY DEF TableDImage, MemeSection
<1> QED
  BY <1>1, <1>2, MemesNoms DEF Section

LEMMA PasDEchec ==
  ASSUME IInv, OteInv, ReuInv, Etendues, TableSuit, Sain
  PROVE  ~ReimplantEchoue
<1> SUFFICES ASSUME ReimplantEchoue PROVE FALSE
  OBVIOUS
<1>1. etape = "reimplants" /\ etape \in Etapes
  BY DEF ReimplantEchoue, Etapes
<1>2. ri < ehdr.e_shnum /\ AReimplanter(shdr[ri]) /\ ~Reimplantable
  BY <1>1, TablesGardees DEF ReimplantEchoue
<1>3. /\ ri \in DOMAIN shdr /\ TypeTables /\ ImageOK(image)
      /\ DOMAIN shdr = DOMAIN image.shdr /\ \A i \in DOMAIN shdr : MemeSection(i, i)
  BY <1>1, <1>2 DEF IInv, TypeOK, TypeTables, TypeLocaux, TypeOptions, ReuInv, TableDImage
<1>4. AReimplanter(image.shdr[ri])
  BY <1>2, <1>3 DEF AReimplanter, MemeSection
<1> PICK c : c = chercher_index_de_section(image.shdr, nom_section_correspondant(image.shdr[ri].name))
  OBVIOUS
<1>5. EntreesLisibles(image.shdr[ri]) /\ c # -1 /\ NonVide(image.shdr[c])
  BY <1>3, <1>4 DEF Sain, FichierSain
<1>6. Cible = c
  BY <1>1, <1>3, ChercherDImage DEF Cible, MemeSection, ReuInv
<1>7. c \in DOMAIN shdr
  BY <1>3, <1>5, <1>6, SectionTrouvee DEF Cible, TypeTables
<1>8. EntreesLisibles(shdr[ri]) /\ NonVide(shdr[c])
  BY <1>3, <1>5, <1>7, LuDImage DEF MemeSection
<1> QED
  BY <1>2, <1>5, <1>6, <1>8 DEF Reimplantable

-----------------------------------------------------------------------------
(***************************************************************************)
(* Every part of the invariant is kept.                                    *)
(***************************************************************************)
LEMMA ReuTable == IInv /\ TableDImage /\ [Next]_vars => TableDImage'
<1> SUFFICES ASSUME IInv, TableDImage, [Next]_vars, etape' \in {"options", "charge", "reimplants"}
             PROVE  TableDImage'
  BY DEF TableDImage
<1>1. CASE AddrCharge
  <2>1. etape \in {"options", "charge", "reimplants"} /\ image' = image
    BY <1>1, AddrChargeNoms DEF AddrCharge
  <2>2. DOMAIN shdr' = DOMAIN shdr
        /\ \A i \in DOMAIN shdr : /\ shdr'[i].body = shdr[i].body
                                  /\ shdr'[i].name = shdr[i].name
                                  /\ shdr'[i].type = shdr[i].type
                                  /\ shdr'[i].size = shdr[i].size
    BY <1>1, AddrChargeNoms
  <2> QED
    BY <2>1, <2>2 DEF TableDImage, MemeSection
<1>2. CASE \/ OptionSection \/ OptionSortie \/ ErreurOptions \/ FinOptions
           \/ PasseSection \/ ReimplantEchoue \/ ReimplanteEntree
           \/ SectionReimplantee \/ FinReimplants
  <2>1. etape \in {"options", "reimplants"} /\ UNCHANGED <<image, shdr>>
    BY <1>2 DEF OptionSection, OptionSortie, ErreurOptions, FinOptions, PasseSection, ReimplantEchoue,
                ReimplanteEntree, SectionReimplantee, FinReimplants, Arret, entree, tables
  <2> QED
    BY <2>1 DEF TableDImage, MemeSection
<1>3. CASE SupprimerUneSection \/ CorrigeNdx \/ ProduExecutable
  <2>1. etape' \in {"supprime", "corrige", "executable", "abandon", "fini", "indefini", "boucle"}
    BY <1>3 DEF SupprimerUneSection, CorrigeNdx, ProduExecutable, Suivante, Arret
  <2> QED
    BY <2>1
<1>4. CASE UNCHANGED vars
  BY <1>4 DEF vars, entree, tables, TableDImage, MemeSection
<1> QED
  BY <1>1, <1>2, <1>3, <1>4 DEF Next

LEMMA ChargeInverse ==
  ASSUME IInv, AddrCharge, NEW k \in DOMAIN sym
  PROVE  k \in DOMAIN sym' /\ sym'[k].inverse = sym[k].inverse
<1>1. CASE UNCHANGED sym
  BY <1>1
<1>2. CASE ~UNCHANGED sym
  <2> PICK s : s = Section(str_section[tour])
    OBVIOUS
  <2>0. ~Arret("indefini") /\ ~Arret("abandon")
    BY <1>2 DEF Arret, tables
  <2>1. PICK addr : sym' = [j \in DOMAIN sym |-> SymboleCharge(sym[j], s, addr)]
    BY <1>2, <2>0 DEF AddrCharge
  <2>2. sym[k] \in SymboleLibre
    BY DEF IInv, TypeOK, TypeTables
  <2> QED
    BY <2>1, <2>2 DEF SymboleCharge, SymboleLibre
<1> QED
  BY <1>1, <1>2

LEMMA ReuLisible == IInv /\ IInv' /\ SuiviInv /\ Lisible /\ [Next]_vars => Lisible'
<1> SUFFICES ASSUME IInv, IInv', SuiviInv, Lisible, [Next]_vars, Regulier' PROVE Lisible'
  BY DEF Lisible
<1>1. image' = image
  BY DEF Next, vars, entree, OptionSection, OptionSortie, ErreurOptions, FinOptions, AddrCharge, PasseSection,
         ReimplantEchoue, ReimplanteEntree, SectionReimplantee, FinReimplants,
         SupprimerUneSection, CorrigeNdx, ProduExecutable, Arret
<1>2. Regulier /\ DOMAIN sym' = DOMAIN sym
  <2>1. DOMAIN sym = DOMAIN image.sym /\ DOMAIN sym' = DOMAIN image'.sym
    BY DEF IInv, TypeOK, TypeTables
  <2> QED
    BY <1>1, <2>1 DEF Regulier
<1>3. \A k \in DOMAIN sym : sym'[k].inverse = sym[k].inverse
  <2>1. CASE etape \notin {"options", "charge"}
    BY <1>2, <2>1, PasFige DEF FigeSymboles
  <2>2. CASE AddrCharge
    BY <2>2, ChargeInverse
  <2>3. CASE etape \in {"options", "charge"} /\ ~AddrCharge
    <3>1. UNCHANGED sym
      BY <2>3 DEF Next, vars, OptionSection, OptionSortie, ErreurOptions, FinOptions, PasseSection,
         ReimplantEchoue, ReimplanteEntree, SectionReimplantee, FinReimplants,
         SupprimerUneSection, CorrigeNdx, ProduExecutable, Arret, tables
    <3> QED
      BY <3>1
  <2> QED
    BY <2>1, <2>2, <2>3
<1> QED
  BY <1>2, <1>3 DEF Lisible

(***************************************************************************)
(* A sound file and a complete line stay so: nothing writes them.          *)
(***************************************************************************)
LEMMA EntreeFixe ==
  ASSUME [Next]_vars
  PROVE  /\ image' = image /\ argv' = argv
         /\ Sain' = Sain
<1>1. image' = image /\ argv' = argv
  BY DEF Next, vars, entree, OptionSection, OptionSortie, ErreurOptions, FinOptions, AddrCharge, PasseSection,
         ReimplantEchoue, ReimplanteEntree, SectionReimplantee, FinReimplants,
         SupprimerUneSection, CorrigeNdx, ProduExecutable, Arret
<1> QED
  BY <1>1 DEF Sain, LigneComplete, FichierSain, Regulier

LEMMA GardeEtendues == IInv /\ Etendues /\ [Next]_vars => Etendues'
<1> SUFFICES ASSUME IInv, Etendues, [Next]_vars PROVE Etendues'
  OBVIOUS
<1>1. image' = image /\ TypeTables /\ TypeLocaux /\ ImageOK(image)
  BY EntreeFixe DEF IInv, TypeOK, TypeOptions
<1>11. ehdr'.e_shoff = ehdr.e_shoff
  <2>1. CASE UNCHANGED ehdr
    BY <2>1
  <2>2. CASE SupprimerUneSection /\ ~UNCHANGED ehdr
    <3>1. PICK r, n : ehdr' = [ehdr EXCEPT !.e_shstrndx = r, !.e_shnum = n]
      BY <2>2 DEF SupprimerUneSection, Arret, tables
    <3> QED
      BY <3>1
  <2>3. CASE ~SupprimerUneSection
    <3>1. UNCHANGED ehdr
      BY <2>3 DEF Next, vars, OptionSection, OptionSortie, ErreurOptions, FinOptions, AddrCharge,
           PasseSection, ReimplantEchoue, ReimplanteEntree, SectionReimplantee, FinReimplants,
           CorrigeNdx, ProduExecutable, Arret, tables
    <3> QED
      BY <3>1
  <2> QED
    BY <2>1, <2>2, <2>3
<1>2. CASE AddrCharge
  <2>1. DOMAIN shdr' = DOMAIN shdr /\ \A i \in DOMAIN shdr : /\ shdr'[i].body = shdr[i].body
                                   /\ shdr'[i].size = shdr[i].size
                                   /\ shdr'[i].offset = shdr[i].offset
                                   /\ shdr'[i].entsize = shdr[i].entsize
    BY <1>2, AddrChargeNoms
  <2> QED
    BY <1>1, <1>11, <2>1 DEF Etendues
<1>3. CASE UNCHANGED shdr
  BY <1>1, <1>11, <1>3 DEF Etendues
<1>4. CASE SupprimerUneSection /\ ~UNCHANGED shdr
  <2> PICK x : x = Section(get_nom_rel_corre(str_section[tour]))
    OBVIOUS
  <2> PICK n : n = ehdr.e_shnum
    OBVIOUS
  <2>1. x # -1 /\ etape = "supprime" /\ shdr' = TableAfter(shdr, n, x)
    BY <1>4 DEF SupprimerUneSection, Arret, tables
  <2>2. x \in 1 .. n - 1
    BY <1>1, <2>1, RetireNonNulle
  <2>3. n \in 2 .. 255 /\ DOMAIN shdr' = 0 .. n - 2
    BY <1>1, <2>1, <2>2, Retrait
  <2>4. ASSUME NEW i \in DOMAIN shdr'
        PROVE  \E j \in DOMAIN shdr : /\ shdr'[i].body = shdr[j].body
                                      /\ shdr'[i].size = shdr[j].size
                                      /\ shdr'[i].offset = shdr[j].offset
                                      /\ shdr'[i].entsize = shdr[j].entsize
    <3>1. n \in 2 .. 255 /\ x \in 1 .. n - 1 /\ i \in 0 .. n - 2
      BY <2>2, <2>3
    <3>2. Ancien(i, x) \in 0 .. n - 1
      BY <3>1, AncienOrdre, Zenon
    <3>3. Ancien(i, x) \in DOMAIN shdr /\ shdr[Ancien(i, x)] \in EnTete
      BY <1>1, <3>2 DEF TypeTables
    <3>4. shdr'[i] = HeaderAfter(shdr[Ancien(i, x)], x)
      BY <2>1, <3>1 DEF TableAfter, Ancien
    <3> PICK h : h = shdr[Ancien(i, x)]
      OBVIOUS
    <3>5. /\ HeaderAfter(h, x).body = h.body /\ HeaderAfter(h, x).size = h.size
          /\ HeaderAfter(h, x).offset = h.offset /\ HeaderAfter(h, x).entsize = h.entsize
      <4>1. h \in EnTete
        BY <3>3
      <4> QED
        BY <4>1 DEF HeaderAfter, EnTete
    <3> QED
      BY <3>3, <3>4, <3>5
  <2> QED
    BY <1>1, <1>11, <2>4 DEF Etendues
<1>5. CASE ~AddrCharge /\ ~SupprimerUneSection
  <2>1. UNCHANGED shdr
    BY <1>5 DEF Next, vars, OptionSection, OptionSortie, ErreurOptions, FinOptions, PasseSection,
         ReimplantEchoue, ReimplanteEntree, SectionReimplantee, FinReimplants,
         CorrigeNdx, ProduExecutable, Arret, tables
  <2> QED
    BY <1>3, <2>1
<1> QED
  BY <1>2, <1>3, <1>4, <1>5

LEMMA EtenduesToujours == Spec => []Etendues
<1>1. Init => Etendues
  <2> SUFFICES ASSUME Init PROVE Etendues
    OBVIOUS
  <2>1. ImageOK(image) /\ shdr = image.shdr /\ ehdr = image.ehdr
    BY ImagesAssumption DEF Init
  <2> QED
    BY <2>1, CorpsDImage DEF Etendues
<1>2. IInv /\ Etendues /\ [Next]_vars => Etendues'
  BY GardeEtendues
<1> QED
  BY <1>1, <1>2, IInvToujours, PTL DEF Spec

LEMMA ReuSuite ==
  ASSUME IInv, OteInv, SuiviInv, ReuInv, Etendues, TableSuit, Sain, [Next]_vars
  PROVE  OptionsLues' /\ OptionsConnues' /\ etape' \notin Arretes
<1>0. etape \notin Arretes
  BY DEF ReuInv, Reussit
<1>01. etape \in Etapes => TablesLues /\ StrtabLisible
  BY TablesGardees
<1>1. CASE OptionSection \/ OptionSortie
  BY <1>1, UneSection, UneSortie DEF OptionsConnues, Arretes
<1>2. CASE FinOptions
  BY <1>2, FinLigne DEF OptionsLues, Arretes
<1>3. CASE UNCHANGED vars
  <2>1. UNCHANGED <<argv, image, etape, optind, index, fp_sortie, str_section>>
    BY <1>3 DEF vars, entree, options
  <2>2. SectionsLues(optind)' = SectionsLues(optind)
    BY <2>1 DEF SectionsLues
  <2> QED
    BY <1>0, <2>1, <2>2, EntreeFixe DEF ReuInv, OptionsLues, OptionsConnues
<1>4. ASSUME etape \in Etapes \ {"options"}, UNCHANGED options, etape' # "options",
             etape' \notin Arretes
      PROVE  OptionsLues' /\ OptionsConnues' /\ etape' \notin Arretes
  BY <1>4 DEF OptionsLues, OptionsConnues, ReuInv, options
<1>5. CASE AddrCharge
  <2>1. etape = "charge" /\ fp_sortie /\ str_section[tour] \in Nom
    <3>1. tour \in 0 .. MAXSIZE - 1
      BY DEF IInv, TypeOK, TypeLocaux
    <3> QED
      BY <1>5, <3>1 DEF AddrCharge, ReuInv, OptionsConnues, Etapes
  <2>2. NomsLisibles /\ Section(Symtab) # -1 /\ SymbolesLisibles
    BY <1>01, <2>1 DEF Etapes, TablesLues, SymbolesLisibles
  <2>3. UNCHANGED options /\ Suivante("reimplants")
    <3>1. str_section[tour] # Inconnu
      BY <2>1, ResidusAssumption
    <3> QED
      BY <1>5, <2>1, <2>2, <3>1 DEF AddrCharge
  <2> QED
    BY <1>4, <2>1, <2>3 DEF Suivante, Etapes, Arretes
<1>6. CASE \/ PasseSection \/ ReimplantEchoue \/ ReimplanteEntree
           \/ SectionReimplantee \/ FinReimplants
  <2>1. ~ReimplantEchoue
    BY PasDEchec
  <2>2. etape = "reimplants" /\ UNCHANGED options /\ etape' \in {"reimplants", "supprime"}
    BY <1>6, <2>1 DEF PasseSection, ReimplanteEntree, SectionReimplantee, FinReimplants, tables
  <2> QED
    BY <1>4, <2>2 DEF Etapes, Arretes
<1>7. CASE SupprimerUneSection
  <2>0. /\ etape = "supprime" /\ NomsLisibles
        /\ Section(Group) # -1 => NonVide(shdr[Section(Group)])
    BY <1>01, <1>7, TableTrouvee DEF SupprimerUneSection, Etapes, TablesLues
  <2>1. etape = "supprime" /\ UNCHANGED options /\ etape' \in {"supprime", "corrige", "executable"}
    BY <1>7, <2>0 DEF SupprimerUneSection, Suivante
  <2> QED
    BY <1>4, <2>1 DEF Etapes, Arretes
<1>8. CASE CorrigeNdx
  <2>1. etape = "corrige"
    BY <1>8 DEF CorrigeNdx
  <2>2. TablesLues
    BY <1>01, <2>1 DEF Etapes
  <2>3. UNCHANGED options /\ etape' \in {"supprime", "executable"}
    BY <1>8, <2>2 DEF CorrigeNdx
  <2> QED
    BY <1>4, <2>1, <2>3 DEF Etapes, Arretes
<1>9. CASE ProduExecutable
  <2>1. etape = "executable" /\ UNCHANGED options
    BY <1>9 DEF ProduExecutable, Arret
  <2>2. TablesLues /\ StrtabLisible
    BY <1>01, <2>1 DEF Etapes
  <2>3. ~\E k \in DOMAIN sym : sym[k].inverse /\ sym[k].name # <<>>
    BY DEF ReuInv, Lisible, Sain
  <2>4. ~CopieEchoue(image.taille - TailleEhdr)
    BY DEF Sain, FichierSain
  <2>5. etape' \in {"fini", "boucle"}
    BY <1>9, <2>2, <2>3, <2>4 DEF ProduExecutable, Arret
  <2> QED
    BY <1>4, <2>1, <2>5 DEF Etapes, Arretes
<1> QED
  BY <1>1, <1>2, <1>3, <1>5, <1>6, <1>7, <1>8, <1>9, PasDErreur DEF Next

LEMMA NextReu ==
  /\ IInv /\ IInv' /\ OteInv /\ SuiviInv /\ Etendues /\ TableSuit /\ ReuInv /\ [Next]_vars
  => ReuInv'
<1> SUFFICES ASSUME IInv, IInv', OteInv, SuiviInv, Etendues, TableSuit, ReuInv, [Next]_vars
             PROVE  ReuInv'
  OBVIOUS
<1>1. TableDImage' /\ Lisible'
  BY ReuTable, ReuLisible DEF ReuInv
<1>2. Sain' => Sain
  BY EntreeFixe
<1>3. OptionsLues' /\ OptionsConnues' /\ Reussit'
  BY <1>2, ReuSuite DEF OptionsLues, OptionsConnues, Reussit
<1> QED
  BY <1>1, <1>3 DEF ReuInv

LEMMA ReuToujours == Spec => []ReuInv
<1>1. Init => ReuInv
  BY InitReu
<1>2. Spec => []SuiviInv
  BY SuiviToujours
<1>3. Spec => []TableSuit
  BY TableSuitToujours
<1>4. /\ IInv /\ IInv' /\ OteInv /\ SuiviInv /\ Etendues /\ TableSuit /\ ReuInv /\ [Next]_vars
      => ReuInv'
  BY NextReu
<1> QED
  BY <1>1, <1>2, <1>3, <1>4, IInvToujours, OteToujours, EtenduesToujours, PTL DEF Spec

(***************************************************************************)
(* Whatever the order of the sections and the places of the tables after   *)
(* the removals: with a complete line and a sound file without symbols in  *)
(* removed sections no step exits, fails an assertion of its own or of a   *)
(* reader (read_data_auxiliaries.c), follows a null pointer or uses a      *)
(* local without a value.                                                  *)
(***************************************************************************)
THEOREM ReussiteToujours == Spec => [](Regulier => Reussite)
<1>1. ReuInv => (Regulier => Reussite)
  BY DEF ReuInv, Reussit, Reussite, Sain, Arretes
<1> QED
  BY <1>1, ReuToujours, PTL

-----------------------------------------------------------------------------

(***************************************************************************)
(* The names and kinds of the symbols are those of the object file to the  *)
(* end.                                                                    *)
(***************************************************************************)
SymbolesDImage ==
  Regulier => \A k \in DOMAIN sym : /\ sym[k].name = image.sym[k].name
                                    /\ sym[k].func = image.sym[k].func

(***************************************************************************)
(* What is in the executable.                                              *)
(***************************************************************************)
Ecrit ==
  exe # NoExe =>
    /\ exe.ehdr = [ehdr EXCEPT !.e_type = 2, !.e_entry = PointEntree(sym, @),
                               !.e_shoff = @ + offset_decal(shdr)]
    /\ IF UnSeulSegment(shdr) THEN exe.segments = <<Segment(shdr)>>
                              ELSE exe.segments \in SegResidus \X SegResidus
    /\ ~SansSegment(shdr) /\ AlignementsTrouves(shdr)

SortieInv == SymbolesDImage /\ Ecrit

LEMMA InitSortie == Init => SortieInv
<1> SUFFICES ASSUME Init PROVE SortieInv
  OBVIOUS
<1>1. ImageOK(image) /\ shdr = image.shdr /\ sym = image.sym /\ exe = NoExe
  BY ImagesAssumption DEF Init
<1> QED
  BY <1>1 DEF SortieInv, SymbolesDImage, Ecrit

LEMMA SymboleGarde ==
  ASSUME IInv, SuiviInv, Regulier, [Next]_vars, NEW k \in DOMAIN sym
  PROVE  sym'[k].name = sym[k].name /\ sym'[k].func = sym[k].func
<1>1. sym[k] \in SymboleLibre
  BY DEF IInv, TypeOK, TypeTables
<1>2. CASE UNCHANGED sym
  BY <1>2
<1>3. CASE AddrCharge /\ ~UNCHANGED sym
  <2> PICK s : s = Section(str_section[tour])
    OBVIOUS
  <2>0. ~Arret("indefini") /\ ~Arret("abandon")
    BY <1>3 DEF Arret, tables
  <2>1. PICK addr : sym' = [j \in DOMAIN sym |-> SymboleCharge(sym[j], s, addr)]
    BY <1>3, <2>0 DEF AddrCharge
  <2> QED
    BY <1>1, <2>1 DEF SymboleCharge, SymboleLibre
<1>4. CASE CorrigeNdx /\ TablesLues
  <2>1. sym'[k] = SymboleCorrige(sym[k])
    BY <1>4, CorrigeGarde
  <2> QED
    BY <1>1, <2>1 DEF SymboleCorrige, SymboleLibre
<1>5. CASE CorrigeNdx /\ ~TablesLues
  <2>1. Arret("abandon")
    BY <1>5 DEF CorrigeNdx
  <2> QED
    BY <1>2, <2>1 DEF Arret, tables
<1>6. CASE ~AddrCharge /\ ~CorrigeNdx
  <2>1. UNCHANGED sym
    BY <1>6 DEF Next, vars, OptionSection, OptionSortie, ErreurOptions, FinOptions, PasseSection,
         ReimplantEchoue, ReimplanteEntree, SectionReimplantee, FinReimplants,
         SupprimerUneSection, ProduExecutable, Arret, tables
  <2> QED
    BY <1>2, <2>1
<1> QED
  BY <1>2, <1>3, <1>4, <1>5, <1>6

LEMMA GardeSymboles == IInv /\ IInv' /\ SuiviInv /\ SymbolesDImage /\ [Next]_vars => SymbolesDImage'
<1> SUFFICES ASSUME IInv, IInv', SuiviInv, SymbolesDImage, [Next]_vars, Regulier'
             PROVE  SymbolesDImage'
  BY DEF SymbolesDImage
<1>1. image' = image
  BY EntreeFixe
<1>2. Regulier /\ DOMAIN sym' = DOMAIN sym
  <2>1. DOMAIN sym = DOMAIN image.sym /\ DOMAIN sym' = DOMAIN image'.sym
    BY DEF IInv, TypeOK, TypeTables
  <2> QED
    BY <1>1, <2>1 DEF Regulier
<1> QED
  BY <1>1, <1>2, SymboleGarde DEF SymbolesDImage

LEMMA GardeEcrit == OteInv /\ Ecrit /\ [Next]_vars => Ecrit'
<1> SUFFICES ASSUME OteInv, Ecrit, [Next]_vars, exe' # NoExe PROVE Ecrit'
  BY DEF Ecrit
<1>1. CASE ProduExecutable
  <2>1. exe = NoExe
    BY <1>1 DEF OteInv, DansExe, ProduExecutable
  <2>2. /\ ~SansSegment(shdr)
        /\ AlignementsTrouves(shdr)
        /\ \E segments \in IF UnSeulSegment(shdr) THEN {<<Segment(shdr)>>}
                              ELSE SegResidus \X SegResidus :
               exe' = [ehdr |-> [ehdr EXCEPT !.e_type = 2,
                                             !.e_entry = PointEntree(sym, @),
                                             !.e_shoff = @ + offset_decal(shdr)],
                       segments |-> segments, shdr |-> Decale(shdr)]
        /\ UNCHANGED <<ehdr, shdr, sym>>
    BY <1>1, <2>1 DEF ProduExecutable, Arret, tables
  <2> QED
    BY <2>2 DEF Ecrit
<1>2. CASE ~ProduExecutable
  <2>1. exe' = exe /\ exe # NoExe
    BY <1>2 DEF Next, vars, OptionSection, OptionSortie, ErreurOptions, FinOptions, AddrCharge, PasseSection,
         ReimplantEchoue, ReimplanteEntree, SectionReimplantee, FinReimplants,
         SupprimerUneSection, CorrigeNdx, Arret
  <2>2. etape = "fini"
    BY <2>1 DEF OteInv, DansExe
  <2>3. UNCHANGED <<ehdr, shdr, sym>>
    BY <1>2, <2>2 DEF Next, vars, tables, OptionSection, OptionSortie, ErreurOptions, FinOptions, AddrCharge, PasseSection,
         ReimplantEchoue, ReimplanteEntree, SectionReimplantee, FinReimplants,
         SupprimerUneSection, CorrigeNdx
  <2> QED
    BY <2>1, <2>3 DEF Ecrit
<1> QED
  BY <1>1, <1>2

LEMMA SortieToujours == Spec => []SortieInv
<1>1. Init => SortieInv
  BY InitSortie
<1>2. IInv /\ IInv' /\ OteInv /\ SuiviInv /\ SortieInv /\ [Next]_vars => SortieInv'
  BY GardeSymboles, GardeEcrit DEF SortieInv
<1>3. Spec => []SuiviInv
  BY SuiviToujours
<1> QED
  BY <1>1, <1>2, <1>3, IInvToujours, OteToujours, PTL DEF Spec

-----------------------------------------------------------------------------
(***************************************************************************)
(* PGCD divides both its arguments, so p_vaddr and p_offset agree modulo   *)
(* p_align (the comment at Etap11.c:113).                                  *)
(***************************************************************************)
Commun(d, a, b) == a % d = 0 /\ b % d = 0

LEMMA PlusGrand ==
  ASSUME NEW a \in Nat, NEW S, S \subseteq 1 .. a, S # {}
  PROVE  \E d \in S : \A e \in d + 1 .. a : e \notin S
<1> DEFINE T == {e \in 0 .. a : a - e \in S}
<1>1. T \subseteq Nat /\ T # {}
  <2>1. PICK d \in S : TRUE
    OBVIOUS
  <2>2. d \in 1 .. a /\ a - (a - d) = d /\ a - d \in 0 .. a
    BY <2>1
  <2>3. a - (a - d) \in S
    BY <2>1, <2>2, Zenon
  <2>4. a - d \in T
    BY <2>2, <2>3
  <2>5. \A e \in T : e \in Nat
    OBVIOUS
  <2> HIDE DEF T
  <2> QED
    BY <2>4, <2>5
<1>2. PICK m \in T : \A e \in T : m <= e
  <2> HIDE DEF T
  <2> QED
    BY <1>1, Premier
<1>3. ASSUME NEW e \in a - m + 1 .. a, e \in S PROVE FALSE
  <2>1. a - e \in T /\ a - e < m
    BY <1>2, <1>3
  <2> QED
    BY <1>2, <2>1
<1> QED
  BY <1>2, <1>3

LEMMA PgcdDivise ==
  ASSUME NEW a \in Nat \ {0}, NEW b \in Nat
  PROVE  /\ PGCD(a, b) \in 1 .. a
         /\ a % PGCD(a, b) = 0 /\ b % PGCD(a, b) = 0
<1> DEFINE S == {d \in 1 .. a : Commun(d, a, b)}
<1>1. 1 \in S
  BY DEF Commun
<1>2. PICK d \in S : \A e \in d + 1 .. a : e \notin S
  <2> HIDE DEF S
  <2>1. S \subseteq 1 .. a
    BY DEF S
  <2> QED
    BY <1>1, <2>1, PlusGrand
<1>3. d \in 1 .. a /\ Commun(d, a, b) /\ \A e \in d + 1 .. a : ~Commun(e, a, b)
  BY <1>2
<1>4. PGCD(a, b) = CHOOSE c \in 1 .. a : Commun(c, a, b) /\ \A e \in c + 1 .. a : ~Commun(e, a, b)
  BY DEF PGCD, Commun
<1>5. PGCD(a, b) \in 1 .. a /\ Commun(PGCD(a, b), a, b)
  BY <1>3, <1>4, Zenon
<1> QED
  BY <1>5 DEF Commun

(***************************************************************************)
(* The object files the executable is right for: one symbol main, in a     *)
(* section; one .text and one .data, which do not overlap.  When both      *)
(* start at the same offset the code starts the segment with .data, so     *)
(* .data must be the empty one.                                            *)
(***************************************************************************)
Disposition ==
  /\ \A k, m \in DOMAIN image.sym :
       image.sym[k].name = Main /\ image.sym[m].name = Main => k = m
  /\ \A k \in DOMAIN image.sym : image.sym[k].name = Main => image.sym[k].shndx < SHN_ABS
  /\ \A o, p \in DOMAIN image.shdr :
       image.shdr[o].name = image.shdr[p].name /\ image.shdr[o].name \in {Text, Data} => o = p
  /\ \A t, d \in DOMAIN image.shdr :
       image.shdr[t].name = Text /\ image.shdr[d].name = Data =>
         /\ \/ image.shdr[t].offset + image.shdr[t].size <= image.shdr[d].offset
            \/ image.shdr[d].offset + image.shdr[d].size <= image.shdr[t].offset
         /\ image.shdr[t].offset = image.shdr[d].offset => image.shdr[d].size = 0

(***************************************************************************)
(* What the table keeps of it.                                             *)
(***************************************************************************)
DispositionTable ==
  /\ \A i, j \in DOMAIN shdr :
       shdr[i].name = shdr[j].name /\ shdr[i].name \in {Text, Data} => i = j
  /\ \A t, d \in DOMAIN shdr :
       shdr[t].name = Text /\ shdr[d].name = Data =>
         /\ \/ shdr[t].offset + shdr[t].size <= shdr[d].offset
            \/ shdr[d].offset + shdr[d].size <= shdr[t].offset
         /\ shdr[t].offset = shdr[d].offset => shdr[d].size = 0

LEMMA DispositionSuit ==
  ASSUME IInv, Etendues, Disposition
  PROVE  DispositionTable
<1>1. CorpsOK
  BY DEF IInv
<1>2. ASSUME NEW i \in DOMAIN shdr
      PROVE  \E o \in DOMAIN image.shdr :
               /\ shdr[i].body = image.shdr[o].body /\ shdr[i].name = image.shdr[o].name
               /\ shdr[i].size = image.shdr[o].size /\ shdr[i].offset = image.shdr[o].offset
  BY <1>1, <1>2 DEF CorpsOK, MemeSection, Etendues
<1>3. ASSUME NEW i \in DOMAIN shdr, NEW j \in DOMAIN shdr,
             shdr[i].name = shdr[j].name, shdr[i].name \in {Text, Data}
      PROVE  i = j
  <2>1. PICK o \in DOMAIN image.shdr :
          shdr[i].body = image.shdr[o].body /\ shdr[i].name = image.shdr[o].name
    BY <1>2
  <2>2. PICK p \in DOMAIN image.shdr :
          shdr[j].body = image.shdr[p].body /\ shdr[j].name = image.shdr[p].name
    BY <1>2
  <2>3. o = p
    BY <1>3, <2>1, <2>2 DEF Disposition
  <2> QED
    BY <1>1, <2>1, <2>2, <2>3 DEF CorpsOK
<1>4. ASSUME NEW t \in DOMAIN shdr, NEW d \in DOMAIN shdr,
             shdr[t].name = Text, shdr[d].name = Data
      PROVE  /\ \/ shdr[t].offset + shdr[t].size <= shdr[d].offset
                \/ shdr[d].offset + shdr[d].size <= shdr[t].offset
             /\ shdr[t].offset = shdr[d].offset => shdr[d].size = 0
  <2>1. PICK o \in DOMAIN image.shdr :
          /\ shdr[t].name = image.shdr[o].name
          /\ shdr[t].size = image.shdr[o].size /\ shdr[t].offset = image.shdr[o].offset
    BY <1>2
  <2>2. PICK p \in DOMAIN image.shdr :
          /\ shdr[d].name = image.shdr[p].name
          /\ shdr[d].size = image.shdr[p].size /\ shdr[d].offset = image.shdr[p].offset
    BY <1>2
  <2> QED
    BY <1>4, <2>1, <2>2 DEF Disposition
<1> QED
  BY <1>3, <1>4 DEF DispositionTable

(***************************************************************************)
(* .text and .data as produ_executable finds them.                         *)
(***************************************************************************)
LEMMA TexteEtDonnees ==
  ASSUME IInv
  PROVE  \A nom, r : r = chercher_index_de_section(shdr, nom) =>
           \/ r = -1 /\ \A i \in DOMAIN shdr : shdr[i].name # nom
           \/ r # -1 /\ r \in DOMAIN shdr /\ shdr[r].name = nom
<1>1. TypeTables /\ ImageOK(image)
  BY DEF IInv, TypeOK, TypeOptions
<1> SUFFICES ASSUME NEW nom, NEW r, r = chercher_index_de_section(shdr, nom)
             PROVE  \/ r = -1 /\ \A i \in DOMAIN shdr : shdr[i].name # nom
                    \/ r # -1 /\ r \in DOMAIN shdr /\ shdr[r].name = nom
  OBVIOUS
<1>2. r = Section(nom)
  BY DEF Section
<1>3. CASE r = -1
  BY <1>1, <1>2, <1>3, SectionAbsente
<1>4. CASE r # -1
  BY <1>1, <1>2, <1>4, SectionTrouvee DEF TypeTables
<1> QED
  BY <1>3, <1>4

LEMMA Entete ==
  ASSUME IInv, NEW i \in DOMAIN shdr
  PROVE  /\ shdr[i].offset \in Nat /\ shdr[i].size \in Nat /\ shdr[i].addr \in Adresse
         /\ i \in Nat /\ (i = 0 => shdr[i].name = <<>>)
<1>1. TypeTables /\ CorpsOK /\ ImageOK(image)
  BY DEF IInv, TypeOK, TypeOptions
<1>2. shdr[i] \in EnTete
  BY <1>1 DEF TypeTables
<1>3. i \in Nat
  BY <1>1 DEF TypeTables
<1> QED
  BY <1>1, <1>2, <1>3 DEF EnTete, CorpsOK

(***************************************************************************)
(* The segment starts with the section of the least offset, and ends with  *)
(* the other one.                                                          *)
(***************************************************************************)
LEMMA EntreeEtAutre ==
  ASSUME IInv, DispositionTable, ~SansSegment(shdr),
         NEW e, e = index_sec_entry(shdr), NEW a, a = index_sec_autre(shdr)
  PROVE  /\ e \in DOMAIN shdr /\ shdr[e].name \in {Text, Data}
         /\ \/ /\ a = -1
               /\ \A i \in DOMAIN shdr : shdr[i].name \in {Text, Data} => i = e
            \/ /\ a # -1 /\ a \in DOMAIN shdr
               /\ \A i \in DOMAIN shdr : shdr[i].name \in {Text, Data} => i = e \/ i = a
               /\ shdr[e].offset <= shdr[a].offset
               /\ shdr[e].offset + shdr[e].size <= shdr[a].offset + shdr[a].size
<1> PICK d : d = chercher_index_de_section(shdr, Data)
  OBVIOUS
<1> PICK t : t = chercher_index_de_section(shdr, Text)
  OBVIOUS
<1>1. /\ \/ d = -1 /\ \A i \in DOMAIN shdr : shdr[i].name # Data
         \/ d # -1 /\ d \in DOMAIN shdr /\ shdr[d].name = Data
      /\ \/ t = -1 /\ \A i \in DOMAIN shdr : shdr[i].name # Text
         \/ t # -1 /\ t \in DOMAIN shdr /\ shdr[t].name = Text
      /\ Text # Data
  BY TexteEtDonnees DEF Text, Data
<1>2. /\ e = IF t = -1 THEN d ELSE IF d = -1 THEN t
               ELSE IF shdr[t].offset < shdr[d].offset THEN t ELSE d
      /\ a = IF d = -1 \/ t = -1 THEN -1 ELSE IF e = d THEN t ELSE d
      /\ ~(d = -1 /\ t = -1)
  BY DEF index_sec_entry, index_sec_autre, index_sec_data, index_sec_text, SansSegment
<1>3. ASSUME NEW i \in DOMAIN shdr, shdr[i].name \in {Text, Data}
      PROVE  i = d \/ i = t
  BY <1>1, <1>3 DEF DispositionTable
<1>4. CASE d = -1 \/ t = -1
  <2>1. CASE d = -1
    <3>1. e = t /\ a = -1 /\ t # -1
      BY <1>2, <2>1
    <3>2. t \in DOMAIN shdr /\ shdr[t].name = Text
      BY <1>1, <3>1
    <3>3. ASSUME NEW i \in DOMAIN shdr, shdr[i].name \in {Text, Data} PROVE i = e
      BY <1>1, <1>3, <2>1, <3>1, <3>3 DEF DispositionTable
    <3> QED
      BY <3>1, <3>2, <3>3
  <2>2. CASE t = -1 /\ d # -1
    <3>1. e = d /\ a = -1
      BY <1>2, <2>2
    <3>2. d \in DOMAIN shdr /\ shdr[d].name = Data
      BY <1>1, <2>2
    <3>3. ASSUME NEW i \in DOMAIN shdr, shdr[i].name \in {Text, Data} PROVE i = e
      BY <1>1, <1>3, <2>2, <3>1, <3>3 DEF DispositionTable
    <3> QED
      BY <3>1, <3>2, <3>3
  <2> QED
    BY <1>4, <2>1, <2>2
<1>5. CASE d # -1 /\ t # -1
  <2>1. /\ \/ shdr[t].offset + shdr[t].size <= shdr[d].offset
           \/ shdr[d].offset + shdr[d].size <= shdr[t].offset
        /\ shdr[t].offset = shdr[d].offset => shdr[d].size = 0
    BY <1>1, <1>5 DEF DispositionTable
  <2>2. /\ shdr[t].offset \in Nat /\ shdr[t].size \in Nat
        /\ shdr[d].offset \in Nat /\ shdr[d].size \in Nat
    BY <1>1, <1>5, Entete
  <2>3. t # d
    BY <1>1, <1>5
  <2>4. CASE shdr[t].offset < shdr[d].offset
    <3>1. e = t /\ a = d
      BY <1>2, <1>5, <2>3, <2>4
    <3>2. shdr[t].offset + shdr[t].size <= shdr[d].offset + shdr[d].size
      BY <2>1, <2>2, <2>4
    <3> QED
      BY <1>1, <1>3, <1>5, <2>4, <2>2, <3>1, <3>2
  <2>5. CASE ~(shdr[t].offset < shdr[d].offset)
    <3>1. e = d /\ a = t
      BY <1>2, <1>5, <2>3, <2>5
    <3>2. /\ shdr[d].offset + shdr[d].size <= shdr[t].offset + shdr[t].size
          /\ shdr[d].offset <= shdr[t].offset
      BY <2>1, <2>2, <2>5
    <3> QED
      BY <1>1, <1>3, <1>5, <3>1, <3>2
  <2> QED
    BY <2>4, <2>5
<1> QED
  BY <1>4, <1>5

(***************************************************************************)
(* The sections as Decale moves them.                                      *)
(***************************************************************************)
LEMMA Deplacee ==
  ASSUME IInv, NEW i \in DOMAIN shdr
  PROVE  /\ Decale(shdr)[i].name = shdr[i].name /\ Decale(shdr)[i].body = shdr[i].body
         /\ Decale(shdr)[i].addr = shdr[i].addr /\ Decale(shdr)[i].size = shdr[i].size
         /\ i # 0 => Decale(shdr)[i].offset = shdr[i].offset + offset_decal(shdr)
         /\ i = 0 => Decale(shdr)[i].offset = shdr[i].offset
<1> PICK m : m = offset_decal(shdr)
  OBVIOUS
<1>1. shdr[i] \in EnTete
  BY DEF IInv, TypeOK, TypeTables
<1>2. Decale(shdr)[i] = IF i = 0 THEN shdr[i] ELSE [shdr[i] EXCEPT !.offset = @ + m]
  BY DEF Decale
<1> QED
  BY <1>1, <1>2 DEF EnTete

(***************************************************************************)
(* What is written in front of the contents: one or two program headers.   *)
(***************************************************************************)
LEMMA PlaceDesEntetes ==
  ASSUME Ecrit, exe # NoExe
  PROVE  TaillePhdr * Len(exe.segments) = offset_decal(shdr)
<1>1. CASE UnSeulSegment(shdr)
  <2>1. exe.segments = <<Segment(shdr)>>
    BY <1>1 DEF Ecrit
  <2>2. Len(exe.segments) = 1
    BY <2>1
  <2> QED
    BY <1>1, <2>2 DEF offset_decal, NbSegments, TaillePhdr
<1>2. CASE ~UnSeulSegment(shdr)
  <2>1. exe.segments \in SegResidus \X SegResidus
    BY <1>2 DEF Ecrit
  <2>2. Len(exe.segments) = 2
    BY <2>1
  <2> QED
    BY <1>2, <2>2 DEF offset_decal, NbSegments, TaillePhdr
<1> QED
  BY <1>1, <1>2

(***************************************************************************)
(* Whatever the object file, the command line and the order of sections:   *)
(* if no name to remove is borne by two sections, the executable has every *)
(* section but the ones to remove, in the old order, with the size it had, *)
(* and every one but the null section as much further on as the program    *)
(* headers take; the section table itself, too (the loop of main over      *)
(* supprimer_une_section and corrige_ndx, Phase2.c:126, and the loop of    *)
(* produ_executable over the sections, Etap11.c:130-135).                  *)
(***************************************************************************)
THEOREM SectionsToujoursExactes == Spec => [](NomsUniques => SectionsExactes)
<1>1. ASSUME IInv, OteInv, NomsUniques, exe # NoExe
      PROVE  /\ {exe.shdr[i].body : i \in DOMAIN exe.shdr} =
                  {image.shdr[o].body : o \in {p \in DOMAIN image.shdr : ~AOter(image.shdr[p])}}
             /\ \A i, j \in DOMAIN exe.shdr, o, p \in DOMAIN image.shdr :
                  /\ exe.shdr[i].body = image.shdr[o].body
                  /\ exe.shdr[j].body = image.shdr[p].body
                  /\ i < j
                  => o < p
  <2>1. TypeTables /\ CorpsOK /\ Faits = 0 .. MAXSIZE - 1 /\ exe.shdr = Decale(shdr)
    BY <1>1 DEF IInv, TypeOK, OteInv, DansExe, Faits
  <2>2. DOMAIN exe.shdr = DOMAIN shdr /\ \A i \in DOMAIN shdr : exe.shdr[i].body = shdr[i].body
    <3>1. ASSUME NEW i \in DOMAIN shdr PROVE Decale(shdr)[i].body = shdr[i].body
      <4>1. shdr[i] \in EnTete
        BY <2>1, <3>1 DEF TypeTables
      <4> QED
        BY <3>1, <4>1 DEF Decale, EnTete
    <3>2. DOMAIN Decale(shdr) = DOMAIN shdr
      BY DEF Decale
    <3> QED
      BY <2>1, <3>1, <3>2
  <2>3. ASSUME NEW i \in DOMAIN shdr
        PROVE  \E o \in DOMAIN image.shdr : /\ ~AOter(image.shdr[o])
                                            /\ shdr[i].body = image.shdr[o].body
    <3>1. PICK o \in DOMAIN image.shdr : MemeSection(i, o)
      BY <2>1 DEF CorpsOK
    <3>2. ~AOter(image.shdr[o])
      BY <1>1, <2>1, <3>1 DEF OteInv, RienDeMoins, AOter, MemeSection
    <3> QED
      BY <3>1, <3>2 DEF MemeSection
  <2>4. ASSUME NEW o \in DOMAIN image.shdr, ~AOter(image.shdr[o])
        PROVE  \E i \in DOMAIN shdr : shdr[i].body = image.shdr[o].body
    BY <1>1, <2>4 DEF OteInv, RienDePlus, Presents
  <2>5. \A c : c \in {exe.shdr[i].body : i \in DOMAIN exe.shdr} <=>
               c \in {image.shdr[o].body : o \in {p \in DOMAIN image.shdr : ~AOter(image.shdr[p])}}
    BY <2>2, <2>3, <2>4
  <2>6. \A i, j \in DOMAIN exe.shdr, o, p \in DOMAIN image.shdr :
                  /\ exe.shdr[i].body = image.shdr[o].body
                  /\ exe.shdr[j].body = image.shdr[p].body
                  /\ i < j
                  => o < p
    BY <1>1, <2>2 DEF OteInv, Ordonne
  <2> QED
    BY <2>5, <2>6
<1>2. ASSUME IInv, OteInv, Etendues, SortieInv, exe # NoExe
      PROVE  /\ \A i \in DOMAIN exe.shdr, o \in DOMAIN image.shdr :
                  exe.shdr[i].body = image.shdr[o].body =>
                    /\ exe.shdr[i].size = image.shdr[o].size
                    /\ exe.shdr[i].offset = image.shdr[o].offset
                                            + IF o = 0 THEN 0 ELSE TaillePhdr * Len(exe.segments)
             /\ exe.ehdr.e_shoff = image.ehdr.e_shoff + TaillePhdr * Len(exe.segments)
  <2>1. /\ exe.shdr = Decale(shdr) /\ DOMAIN exe.shdr = DOMAIN shdr
        /\ CorpsOK /\ ImageOK(image) /\ TypeTables
    BY <1>2 DEF OteInv, DansExe, Decale, IInv, TypeOK, TypeOptions
  <2>2. TaillePhdr * Len(exe.segments) = offset_decal(shdr)
    BY <1>2, PlaceDesEntetes DEF SortieInv
  <2> PICK m : m = offset_decal(shdr)
    OBVIOUS
  <2>3. ASSUME NEW i \in DOMAIN shdr, NEW o \in DOMAIN image.shdr,
               shdr[i].body = image.shdr[o].body
        PROVE  i = 0 <=> o = 0
    <3>1. 0 \in DOMAIN image.shdr /\ 0 \in DOMAIN shdr
      <4>1. ehdr.e_shnum \in 1 .. 255 /\ image.ehdr.e_shnum \in 1 .. 255
        BY <2>1, SectionTrouvee DEF ImageOK
      <4>2. DOMAIN image.shdr = 0 .. image.ehdr.e_shnum - 1
        BY <2>1 DEF ImageOK
      <4>3. DOMAIN shdr = 0 .. ehdr.e_shnum - 1
        BY <2>1 DEF TypeTables
      <4>4. \A n \in 1 .. 255 : 0 \in 0 .. n - 1
        OBVIOUS
      <4>5. 0 \in 0 .. image.ehdr.e_shnum - 1 /\ 0 \in 0 .. ehdr.e_shnum - 1
        BY <4>1, <4>4, Zenon
      <4> QED
        BY <4>2, <4>3, <4>5, Zenon
    <3>2. shdr[0].body = image.shdr[0].body
      <4>1. shdr[0].body = CorpsNul
        BY <2>1 DEF CorpsOK
      <4> QED
        BY <4>1 DEF CorpsNul
    <3>3. i = 0 => o = 0
      BY <2>1, <2>3, <3>1, <3>2, CorpsDImage
    <3>4. o = 0 => i = 0
      BY <2>1, <2>3, <3>1, <3>2 DEF CorpsOK
    <3> QED
      BY <3>3, <3>4
  <2>4. ASSUME NEW i \in DOMAIN exe.shdr, NEW o \in DOMAIN image.shdr,
               exe.shdr[i].body = image.shdr[o].body
        PROVE  /\ exe.shdr[i].size = image.shdr[o].size
               /\ exe.shdr[i].offset = image.shdr[o].offset + IF o = 0 THEN 0 ELSE m
    <3>1. /\ i \in DOMAIN shdr /\ exe.shdr[i].body = shdr[i].body
          /\ exe.shdr[i].size = shdr[i].size
          /\ i # 0 => exe.shdr[i].offset = shdr[i].offset + m
          /\ i = 0 => exe.shdr[i].offset = shdr[i].offset
      BY <1>2, <2>1, <2>4, Deplacee
    <3>2. /\ shdr[i].size = image.shdr[o].size /\ shdr[i].offset = image.shdr[o].offset
          /\ shdr[i].offset \in Nat
      BY <1>2, <2>1, <2>4, <3>1 DEF Etendues, TypeTables, EnTete
    <3>3. i = 0 <=> o = 0
      BY <2>3, <2>4, <3>1
    <3> QED
      BY <3>1, <3>2, <3>3
  <2>5. exe.ehdr.e_shoff = image.ehdr.e_shoff + m
    <3>1. ehdr \in [e_type : Nat, e_entry : Adresse, e_shoff : Nat, e_shnum : Nat,
                    e_shstrndx : Nat]
      BY <2>1 DEF TypeTables
    <3>2. /\ exe.ehdr = [ehdr EXCEPT !.e_type = 2, !.e_entry = PointEntree(sym, @),
                                     !.e_shoff = @ + m]
          /\ ehdr.e_shoff = image.ehdr.e_shoff
      BY <1>2 DEF SortieInv, Ecrit, Etendues
    <3> QED
      BY <3>1, <3>2
  <2> QED
    BY <2>2, <2>4, <2>5
<1>3. IInv /\ OteInv /\ Etendues /\ SortieInv => (NomsUniques => SectionsExactes)
  BY <1>1, <1>2 DEF SectionsExactes
<1> QED
  BY <1>3, IInvToujours, OteToujours, EtenduesToujours, SortieToujours, PTL

LEMMA SegmentContient ==
  ASSUME IInv, DispositionTable, ~SansSegment(shdr), UnSeulSegment(shdr),
         AlignementsTrouves(shdr),
         NEW g, g = Segment(shdr)
  PROVE  /\ g.vaddr % g.align = g.offset % g.align
         /\ \A i \in DOMAIN shdr : shdr[i].name \in {Text, Data} =>
              /\ g.offset <= Decale(shdr)[i].offset
              /\ Decale(shdr)[i].offset + Decale(shdr)[i].size <= g.offset + g.filesz
<1> PICK e : e = index_sec_entry(shdr)
  OBVIOUS
<1> PICK a : a = index_sec_autre(shdr)
  OBVIOUS
<1>1. /\ e \in DOMAIN shdr /\ shdr[e].name \in {Text, Data}
      /\ \/ /\ a = -1
            /\ \A i \in DOMAIN shdr : shdr[i].name \in {Text, Data} => i = e
         \/ /\ a # -1 /\ a \in DOMAIN shdr
            /\ \A i \in DOMAIN shdr : shdr[i].name \in {Text, Data} => i = e \/ i = a
            /\ shdr[e].offset <= shdr[a].offset
            /\ shdr[e].offset + shdr[e].size <= shdr[a].offset + shdr[a].size
  BY EntreeEtAutre
<1>2. /\ g.offset = shdr[e].offset + 32 /\ g.vaddr = shdr[e].addr
      /\ g.filesz = IF a = -1 THEN shdr[e].size
                    ELSE shdr[a].offset - shdr[e].offset + shdr[a].size
      /\ g.align = PGCD(shdr[e].addr, shdr[e].offset + 32)
  BY DEF Segment, SegmentOffset, SegmentVaddr, TaillePhdr
<1>3. shdr[e].offset \in Nat /\ shdr[e].size \in Nat /\ shdr[e].addr \in Nat
  BY <1>1, Entete DEF Adresse
<1>4. g.vaddr % g.align = g.offset % g.align
  <2>1. shdr[e].addr # 0
    <3>1. (shdr[e].addr = 0) <=> (shdr[e].offset + 32 = 0)
      <4>1. e \in Debuts(shdr) /\ offset_decal(shdr) = 32
        BY DEF Debuts, offset_decal, NbSegments, TaillePhdr
      <4>2. PgcdTermine(shdr[e].addr, shdr[e].offset + 32)
        BY <4>1 DEF AlignementsTrouves
      <4> QED
        BY <4>2 DEF PgcdTermine
    <3>2. shdr[e].offset + 32 # 0
      BY <1>3
    <3> QED
      BY <3>1, <3>2
  <2>2. shdr[e].addr \in Nat \ {0} /\ shdr[e].offset + 32 \in Nat
    BY <1>3, <2>1
  <2>3. \A u \in Nat \ {0}, v \in Nat : u % PGCD(u, v) = 0 /\ v % PGCD(u, v) = 0
    BY PgcdDivise
  <2> PICK u : u = shdr[e].addr
    OBVIOUS
  <2> PICK v : v = shdr[e].offset + 32
    OBVIOUS
  <2>4. u % PGCD(u, v) = 0 /\ v % PGCD(u, v) = 0
    BY <2>2, <2>3, Zenon
  <2>5. g.vaddr = u /\ g.offset = v /\ g.align = PGCD(u, v)
    BY <1>2, Zenon
  <2> QED
    BY <2>4, <2>5
<1>5. ASSUME NEW i \in DOMAIN shdr, shdr[i].name \in {Text, Data}
      PROVE  /\ g.offset <= Decale(shdr)[i].offset
             /\ Decale(shdr)[i].offset + Decale(shdr)[i].size <= g.offset + g.filesz
  <2>1. i # 0 /\ shdr[i].offset \in Nat /\ shdr[i].size \in Nat
    <3>1. Text # <<>> /\ Data # <<>>
      BY DEF Text, Data
    <3>2. (i = 0 => shdr[i].name = <<>>) /\ shdr[i].offset \in Nat /\ shdr[i].size \in Nat
      BY <1>5, Entete
    <3> QED
      BY <1>5, <3>1, <3>2
  <2>2. offset_decal(shdr) = 32
    BY DEF offset_decal, NbSegments, TaillePhdr
  <2>3. Decale(shdr)[i].offset = shdr[i].offset + 32 /\ Decale(shdr)[i].size = shdr[i].size
    BY <1>5, <2>1, <2>2, Deplacee
  <2>4. CASE i = e
    <3>1. CASE a = -1
      BY <1>2, <1>3, <2>3, <2>4, <3>1
    <3>2. CASE a # -1
      <4>1. shdr[a].offset \in Nat /\ shdr[a].size \in Nat
        BY <1>1, <3>2, Entete
      <4>2. g.filesz = shdr[a].offset - shdr[e].offset + shdr[a].size
        BY <1>2, <3>2
      <4>3. shdr[e].offset + shdr[e].size <= shdr[a].offset + shdr[a].size
        BY <1>1, <3>2
      <4> QED
        BY <1>2, <1>3, <2>3, <2>4, <4>1, <4>2, <4>3
    <3> QED
      BY <3>1, <3>2
  <2>5. CASE i # e
    <3>1. i = a /\ a # -1 /\ shdr[e].offset <= shdr[a].offset
      BY <1>1, <1>5, <2>5
    <3>2. g.filesz = shdr[a].offset - shdr[e].offset + shdr[a].size
      BY <1>2, <3>1
    <3> QED
      BY <1>2, <1>3, <2>1, <2>3, <3>1, <3>2
  <2> QED
    BY <2>4, <2>5
<1> QED
  BY <1>4, <1>5

(***************************************************************************)
(* e_entry is the value main has been given, which followed its section.   *)
(***************************************************************************)
LEMMA PointDEntree ==
  ASSUME IInv, SymbolesDImage, Regulier, Disposition, ValeursSuivent,
         NEW k \in DOMAIN image.sym, image.sym[k].name = Main,
         NEW i \in DOMAIN shdr, shdr[i].body = image.shdr[image.sym[k].shndx].body,
         NEW ancien
  PROVE  PointEntree(sym, ancien) = (image.sym[k].value + shdr[i].addr) % Espace
<1>1. DOMAIN sym = DOMAIN image.sym /\ DOMAIN sym \subseteq Nat
  <2>1. ImageOK(image) /\ TypeTables
    BY DEF IInv, TypeOK, TypeOptions
  <2>2. image.sym \in Seq(Symbole(image.ehdr.e_shnum))
    BY <2>1 DEF ImageOK
  <2>3. DOMAIN image.sym \subseteq Nat
    BY <2>2
  <2> QED
    BY <2>1, <2>3 DEF TypeTables
<1>2. \A m \in DOMAIN sym : sym[m].name = Main <=> m = k
  BY <1>1 DEF SymbolesDImage, Disposition
<1>3. {m \in DOMAIN sym : sym[m].name = Main} = {k}
  BY <1>1, <1>2
<1>4. PointEntree(sym, ancien) = sym[k].value
  <2>1. k <= k
    BY <1>1
  <2>2. (CHOOSE m \in {k} : \A q \in {k} : q <= m) = k
    BY <2>1
  <2> QED
    BY <1>3, <2>2 DEF PointEntree
<1>5. ~(image.sym[k].shndx >= SHN_ABS)
  <2>1. image.sym[k].shndx < SHN_ABS /\ image.sym[k].shndx \in Nat
    BY SectionDImage DEF Disposition, IInv, TypeOK, TypeOptions
  <2> QED
    BY <2>1, Indices
<1>6. sym[k].value = (image.sym[k].value + shdr[i].addr) % Espace
  BY <1>5 DEF ValeursSuivent
<1> QED
  BY <1>4, <1>6

(***************************************************************************)
(* For every file of that kind, command line that names two sections and   *)
(* order of sections: the executable starts at the address main has been   *)
(* given, the segment of the one-header branch holds all of .text and .data*)
(* and its address and offset agree modulo p_align.                        *)
(***************************************************************************)
THEOREM ExecutableToujoursCorrect ==
  Spec => [](Regulier /\ NomsDistincts /\ Disposition => ExecutableCorrect)
<1>1. ASSUME IInv, OteInv, Etendues, SortieInv, Regulier, Disposition, ValeursSuivent,
             exe # NoExe
      PROVE  ExecutableCorrect
  <2>1. exe.shdr = Decale(shdr) /\ DOMAIN exe.shdr = DOMAIN shdr
    BY <1>1 DEF OteInv, DansExe, Decale
  <2>2. /\ exe.ehdr = [ehdr EXCEPT !.e_type = 2, !.e_entry = PointEntree(sym, @),
                                   !.e_shoff = @ + offset_decal(shdr)]
        /\ IF UnSeulSegment(shdr) THEN exe.segments = <<Segment(shdr)>>
                                  ELSE exe.segments \in SegResidus \X SegResidus
        /\ ~SansSegment(shdr) /\ AlignementsTrouves(shdr)
    BY <1>1 DEF SortieInv, Ecrit
  <2>3. exe.ehdr.e_type = 2 /\ exe.ehdr.e_entry = PointEntree(sym, ehdr.e_entry)
    <3>1. ehdr \in [e_type : Nat, e_entry : Adresse, e_shoff : Nat, e_shnum : Nat,
                    e_shstrndx : Nat]
      BY <1>1 DEF IInv, TypeOK, TypeTables
    <3> QED
      BY <2>2, <3>1
  <2>4. ASSUME NEW k \in DOMAIN image.sym, image.sym[k].name = Main,
               NEW i \in DOMAIN exe.shdr,
               exe.shdr[i].body = image.shdr[image.sym[k].shndx].body
        PROVE  exe.ehdr.e_entry = (image.sym[k].value + exe.shdr[i].addr) % Espace
    <3>1. i \in DOMAIN shdr /\ exe.shdr[i].body = shdr[i].body /\ exe.shdr[i].addr = shdr[i].addr
      BY <1>1, <2>1, <2>4, Deplacee
    <3> PICK ancien : ancien = ehdr.e_entry
      OBVIOUS
    <3>2. SymbolesDImage
      BY <1>1 DEF SortieInv
    <3>3. shdr[i].body = image.shdr[image.sym[k].shndx].body
      BY <2>4, <3>1
    <3>4. PointEntree(sym, ancien) = (image.sym[k].value + shdr[i].addr) % Espace
      BY <1>1, <2>4, <3>1, <3>2, <3>3, PointDEntree, Zenon
    <3>5. exe.ehdr.e_entry = PointEntree(sym, ancien)
      BY <2>3, Zenon
    <3> QED
      BY <3>1, <3>4, <3>5, Zenon
  <2>5. ASSUME Len(exe.segments) = 1
        PROVE  LET g == exe.segments[1] IN
               /\ g.vaddr % g.align = g.offset % g.align
               /\ \A i \in DOMAIN exe.shdr : exe.shdr[i].name \in {Text, Data} =>
                    /\ g.offset <= exe.shdr[i].offset
                    /\ exe.shdr[i].offset + exe.shdr[i].size <= g.offset + g.filesz
    <3>1. UnSeulSegment(shdr)
      <4> SUFFICES ASSUME ~UnSeulSegment(shdr) PROVE FALSE
        OBVIOUS
      <4>1. exe.segments \in SegResidus \X SegResidus
        BY <2>2
      <4>2. Len(exe.segments) = 2
        BY <4>1
      <4> QED
        BY <2>5, <4>2
    <3>2. exe.segments[1] = Segment(shdr)
      BY <2>2, <3>1
    <3>3. DispositionTable
      BY <1>1, DispositionSuit
    <3> PICK g : g = Segment(shdr)
      OBVIOUS
    <3>4. /\ g.vaddr % g.align = g.offset % g.align
          /\ \A i \in DOMAIN shdr : shdr[i].name \in {Text, Data} =>
               /\ g.offset <= Decale(shdr)[i].offset
               /\ Decale(shdr)[i].offset + Decale(shdr)[i].size <= g.offset + g.filesz
      BY <1>1, <2>2, <3>1, <3>3, SegmentContient
    <3>5. \A i \in DOMAIN shdr : exe.shdr[i].name = shdr[i].name
      BY <1>1, <2>1, Deplacee
    <3> QED
      BY <2>1, <3>2, <3>4, <3>5
  <2> QED
    BY <2>3, <2>4, <2>5 DEF ExecutableCorrect
<1>2. IInv /\ OteInv /\ Etendues /\ SortieInv /\ (Regulier /\ NomsDistincts => ValeursSuivent) =>
        (Regulier /\ NomsDistincts /\ Disposition => ExecutableCorrect)
  BY <1>1 DEF ExecutableCorrect
<1> QED
  BY <1>2, IInvToujours, OteToujours, EtenduesToujours, SortieToujours,
     ValeursSuiventToujours, PTL

-----------------------------------------------------------------------------

(***************************************************************************)
(* The entries of relocation section r of the object file, and the section *)
(* they patch.                                                             *)
(***************************************************************************)
EntreesDe(r) == image.rel[image.shdr[r].body]

Visent(nom) == {r \in DOMAIN image.shdr :
                  /\ AReimplanter(image.shdr[r])
                  /\ nom_section_correspondant(image.shdr[r].name) = nom}

(***************************************************************************)
(* The files theorem ReimplanteToujours is about: one section of each name *)
(* that proc_reimplants looks at, one entry for a place, and the types     *)
(* R_ARM_ABS32, R_ARM_CALL and R_ARM_JUMP24 with a symbol that is no       *)
(* STT_FUNC.                                                               *)
(***************************************************************************)
TypesSimples == {2} \union R_ARM_JUMP

EntreesSimples ==
  /\ \A o, p \in DOMAIN image.shdr :
       /\ image.shdr[o].name = image.shdr[p].name
       /\ image.shdr[o].name \in {Text, Data, get_nom_rel_corre(Text), get_nom_rel_corre(Data)}
       => o = p
  /\ \A r \in DOMAIN image.shdr : AReimplanter(image.shdr[r]) =>
       /\ \A j, l \in DOMAIN EntreesDe(r) :
            EntreesDe(r)[j].offset = EntreesDe(r)[l].offset => j = l
       /\ \A j \in DOMAIN EntreesDe(r) :
            /\ EntreesDe(r)[j].type \in TypesSimples
            /\ ~image.sym[EntreesDe(r)[j].sym].func
  /\ \A b \in DOMAIN image.contenu :
       \A d \in DOMAIN image.contenu[b] : image.contenu[b][d] \in Mot

(***************************************************************************)
(* The addresses a relocation can express: a branch over a whole number of *)
(* instructions, an absolute value that fits into the low three bytes.     *)
(***************************************************************************)
Exprimable(mot, type, S, P) ==
  IF type = 2 THEN mot.bas + S < Bas24 ELSE P \in Adresse /\ (S - P) % 4 = 0

AdressesSures ==
  \A i \in DOMAIN shdr : shdr[i].body \in DOMAIN image.contenu =>
    \A r \in Visent(shdr[i].name) :
      \A j \in DOMAIN EntreesDe(r) :
        LET e == EntreesDe(r)[j] IN
        e.offset \in DOMAIN image.contenu[shdr[i].body] =>
          Exprimable(image.contenu[shdr[i].body][e.offset], e.type,
                     sym[e.sym].value, shdr[i].addr + e.offset)

(***************************************************************************)
(* Entry j of section r has been applied.                                  *)
(***************************************************************************)
Passee(r, j) ==
  \/ etape \in {"supprime", "corrige", "executable", "fini"}
  \/ etape = "reimplants" /\ (r < ri \/ (r = ri /\ j < rj))

MotEcrit(i, e) ==
  MotReimplante(image.contenu[shdr[i].body][e.offset],
                NouvelleAdresse(e.type, FALSE, sym[e.sym].value, shdr[i].addr + e.offset, 0))

(***************************************************************************)
(* A word without an applied entry is the object file's; a word with one   *)
(* is what the entry makes of the object file's word and of the addresses  *)
(* as they are now.                                                        *)
(***************************************************************************)
Intact(i, d) ==
  (\A r \in Visent(shdr[i].name) : \A j \in DOMAIN EntreesDe(r) :
     Passee(r, j) => EntreesDe(r)[j].offset # d)
  => contenu[shdr[i].body][d] = image.contenu[shdr[i].body][d]

Applique(i, d) ==
  \A r \in Visent(shdr[i].name) : \A j \in DOMAIN EntreesDe(r) :
    Passee(r, j) /\ EntreesDe(r)[j].offset = d =>
      contenu[shdr[i].body][d] = MotEcrit(i, EntreesDe(r)[j])

MemesPlaces ==
  /\ DOMAIN contenu = DOMAIN image.contenu
  /\ \A b \in DOMAIN contenu : DOMAIN contenu[b] = DOMAIN image.contenu[b]

MotsInv ==
  Regulier /\ EntreesSimples /\ etape \in Etapes \union {"fini"} =>
    /\ MemesPlaces
    /\ \A i \in DOMAIN shdr : shdr[i].body \in DOMAIN contenu =>
         \A d \in DOMAIN contenu[shdr[i].body] : Intact(i, d) /\ Applique(i, d)

BoucleInv ==
  /\ etape \in {"options", "charge"} => ri = 0 /\ rj = 1
  /\ etape = "reimplants" => rj = 1 \/ (ri \in DOMAIN shdr /\ AReimplanter(shdr[ri]))

-----------------------------------------------------------------------------
(***************************************************************************)
(* strtok drops what get_nom_rel_corre has put in front.                   *)
(***************************************************************************)
LEMMA QueueDeNom ==
  ASSUME NEW S, NEW a \in S, NEW s \in S
  PROVE  Tail(<<a>> \o <<s>>) = <<s>>
<1> DEFINE r == <<a>>
           u == <<s>>
           n == r \o u
<1>1. r \in Seq(S) /\ Len(r) = 1
  OBVIOUS
<1>2. u \in Seq(S) /\ Len(u) = 1 /\ u[1] = s
  OBVIOUS
<1> HIDE DEF r, u
<1>3. n \in Seq(S) /\ Len(n) = 2 /\ n[2] = s
  <2>1. /\ n \in Seq(S) /\ Len(n) = Len(r) + Len(u)
        /\ \A i \in 1 .. Len(r) + Len(u) : n[i] = IF i <= Len(r) THEN r[i] ELSE u[i - Len(r)]
    BY <1>1, <1>2, ConcatProperties
  <2> HIDE DEF n
  <2> QED
    BY <1>1, <1>2, <2>1
<1> HIDE DEF n
<1>4. n # <<>>
  <2>1. Len(<<>>) = 0
    OBVIOUS
  <2> QED
    BY <1>3, <2>1, 2 # 0, Zenon
<1> PICK t : t = Tail(n)
  OBVIOUS
<1>5. t \in Seq(S) /\ Len(t) = 1 /\ t[1] = s
  BY <1>3, <1>4, HeadTailProperties
<1>6. t = u
  <2>1. Len(t) = Len(u) /\ \A i \in 1 .. Len(t) : t[i] = u[i]
    BY <1>2, <1>5
  <2> QED
    BY <1>2, <1>5, <2>1, SeqEqual, Zenon
<1> QED
  BY <1>6 DEF n, r, u

LEMMA NomsRelies ==
  /\ nom_section_correspondant(get_nom_rel_corre(Text)) = Text
  /\ nom_section_correspondant(get_nom_rel_corre(Data)) = Data
  /\ Text # Data
<1> PICK S : S = {".rel", ".text", ".data"}
  OBVIOUS
<1>1. ".rel" \in S /\ ".text" \in S /\ ".data" \in S
  OBVIOUS
<1>2. /\ Tail(<<".rel">> \o <<".text">>) = <<".text">>
      /\ Tail(<<".rel">> \o <<".data">>) = <<".data">>
  BY <1>1, QueueDeNom, Zenon
<1>3. <<".text">> # <<".data">>
  <2>1. <<".text">>[1] # <<".data">>[1]
    OBVIOUS
  <2> QED
    BY <2>1
<1> QED
  BY <1>2, <1>3, Zenon DEF nom_section_correspondant, get_nom_rel_corre, Text, Data

(***************************************************************************)
(* A name is patched by one relocation section at most.                    *)
(***************************************************************************)
LEMMA UneSeuleVise ==
  ASSUME EntreesSimples, NEW nom, NEW r \in Visent(nom)
  PROVE  /\ nom \in {Text, Data}
         /\ \A q \in Visent(nom) : q = r
<1>1. ASSUME NEW q \in Visent(nom)
      PROVE  /\ q \in DOMAIN image.shdr
             /\ \/ nom = Text /\ image.shdr[q].name = get_nom_rel_corre(Text)
                \/ nom = Data /\ image.shdr[q].name = get_nom_rel_corre(Data)
  BY <1>1, NomsRelies DEF Visent, AReimplanter
<1>2. nom \in {Text, Data}
  BY <1>1
<1>3. ASSUME NEW q \in Visent(nom) PROVE q = r
  <2>1. image.shdr[q].name = image.shdr[r].name
    BY <1>1, NomsRelies
  <2> QED
    BY <1>1, <2>1 DEF EntreesSimples
<1> QED
  BY <1>2, <1>3

(***************************************************************************)
(* The entries of a section that is relocated.                             *)
(***************************************************************************)
LEMMA EntreesTypees ==
  ASSUME ImageOK(image), NEW nom, NEW r \in Visent(nom)
  PROVE  /\ r \in Nat /\ r \in DOMAIN image.shdr
         /\ Len(EntreesDe(r)) \in Nat /\ DOMAIN EntreesDe(r) = 1 .. Len(EntreesDe(r))
         /\ \A j \in DOMAIN EntreesDe(r) :
              EntreesDe(r)[j] \in [offset : Nat, type : Nat, sym : DOMAIN image.sym]
<1>1. DOMAIN image.shdr = 0 .. image.ehdr.e_shnum - 1 /\ image.ehdr.e_shnum \in 1 .. 255
  BY DEF ImageOK
<1>2. r \in 0 .. image.ehdr.e_shnum - 1 /\ image.shdr[r].type = SHT_REL
  BY <1>1 DEF Visent, AReimplanter
<1>3. EntreesDe(r) \in Seq([offset : Nat, type : Nat, sym : DOMAIN image.sym])
  BY <1>2 DEF ImageOK, EntreesDe
<1>4. /\ Len(EntreesDe(r)) \in Nat /\ DOMAIN EntreesDe(r) = 1 .. Len(EntreesDe(r))
      /\ \A j \in DOMAIN EntreesDe(r) :
              EntreesDe(r)[j] \in [offset : Nat, type : Nat, sym : DOMAIN image.sym]
  <2> PICK R : R = [offset : Nat, type : Nat, sym : DOMAIN image.sym]
    OBVIOUS
  <2>1. \A s \in Seq(R) : Len(s) \in Nat /\ DOMAIN s = 1 .. Len(s)
    OBVIOUS
  <2>2. \A s \in Seq(R) : \A j \in DOMAIN s : s[j] \in R
    BY TermeDeSuite, Zenon
  <2> QED
    BY <1>3, <2>1, <2>2, Zenon
<1> QED
  BY <1>1, <1>2, <1>4

(***************************************************************************)
(* What the theorem asks of the object file is not changed by any step.    *)
(***************************************************************************)
LEMMA HypothesesFixes ==
  ASSUME image' = image
  PROVE  Regulier' = Regulier /\ EntreesSimples' = EntreesSimples
<1>1. Regulier' = Regulier
  BY DEF Regulier
<1>2. \A r : EntreesDe(r)' = EntreesDe(r)
  BY DEF EntreesDe
<1>3. EntreesSimples' = EntreesSimples
  BY <1>2 DEF EntreesSimples, AReimplanter
<1> QED
  BY <1>1, <1>3

LEMMA InitMots == Init => BoucleInv /\ MotsInv
<1> SUFFICES ASSUME Init PROVE BoucleInv /\ MotsInv
  OBVIOUS
<1>1. /\ etape = "options" /\ ri = 0 /\ rj = 1
      /\ contenu = image.contenu
  BY DEF Init
<1>2. \A r, j : ~Passee(r, j)
  BY <1>1 DEF Passee
<1> QED
  BY <1>1, <1>2 DEF BoucleInv, MotsInv, MemesPlaces, Intact, Applique

(***************************************************************************)
(* The two loops of proc_reimplants.                                       *)
(***************************************************************************)
LEMMA GardeBoucle == IInv /\ BoucleInv /\ [Next]_vars => BoucleInv'
<1> SUFFICES ASSUME IInv, BoucleInv, [Next]_vars PROVE BoucleInv'
  OBVIOUS
<1>1. CASE OptionSection \/ OptionSortie \/ ErreurOptions \/ FinOptions
  <2>1. etape = "options" /\ etape' \in {"options", "charge"} \union Arrets /\ UNCHANGED <<ri, rj>>
    BY <1>1 DEF OptionSection, OptionSortie, ErreurOptions, FinOptions, Arret, boucle, Arrets
  <2> QED
    BY <2>1 DEF BoucleInv, Arrets
<1>2. CASE AddrCharge
  <2>1. etape = "charge" /\ UNCHANGED <<ri, rj>>
    BY <1>2 DEF AddrCharge, Arret, boucle
  <2> QED
    BY <2>1 DEF BoucleInv
<1>3. CASE PasseSection
  <2>1. etape = "reimplants" /\ etape' = etape /\ rj' = rj /\ ~AReimplanter(shdr[ri])
    BY <1>3 DEF PasseSection
  <2> QED
    BY <2>1 DEF BoucleInv
<1>4. CASE ReimplantEchoue
  <2>1. etape' = "abandon"
    BY <1>4 DEF ReimplantEchoue, Arret
  <2> QED
    BY <2>1 DEF BoucleInv
<1>5. CASE ReimplanteEntree
  <2>1. /\ etape = "reimplants" /\ etape' = etape /\ UNCHANGED <<ri, shdr>>
        /\ ri < ehdr.e_shnum /\ AReimplanter(shdr[ri])
    BY <1>5 DEF ReimplanteEntree
  <2>2. ri \in DOMAIN shdr
    BY <2>1 DEF IInv, TypeOK, TypeTables, TypeLocaux
  <2> QED
    BY <2>1, <2>2 DEF BoucleInv, AReimplanter
<1>6. CASE SectionReimplantee
  <2>1. etape = "reimplants" /\ etape' = etape /\ rj' = 1
    BY <1>6 DEF SectionReimplantee
  <2> QED
    BY <2>1 DEF BoucleInv
<1>7. CASE FinReimplants \/ SupprimerUneSection \/ CorrigeNdx \/ ProduExecutable
  <2>1. etape' \notin {"options", "charge", "reimplants"}
    BY <1>7 DEF FinReimplants, SupprimerUneSection, CorrigeNdx, ProduExecutable, Suivante, Arret
  <2> QED
    BY <2>1 DEF BoucleInv
<1>8. CASE UNCHANGED vars
  BY <1>8 DEF vars, boucle, tables, BoucleInv, AReimplanter
<1> QED
  BY <1>1, <1>2, <1>3, <1>4, <1>5, <1>6, <1>7, <1>8 DEF Next

(***************************************************************************)
(* A step that writes no word: every section of the new table is one of    *)
(* the old one, no further entry counts as applied, and where one does,    *)
(* the addresses have not moved.                                           *)
(***************************************************************************)
LEMMA MotsCadre ==
  ASSUME MotsInv, ImageOK(image), image' = image, contenu' = contenu,
         etape \in Etapes \union {"fini"},
         DOMAIN sym = DOMAIN image.sym,
         \A nom : \A r \in Visent(nom) : \A j \in DOMAIN EntreesDe(r) :
           Passee(r, j)' <=> Passee(r, j),
         \A i \in DOMAIN shdr' : \E o \in DOMAIN shdr :
            /\ shdr'[i].body = shdr[o].body /\ shdr'[i].name = shdr[o].name
            /\ (\E r, j : Passee(r, j)') => shdr'[i].addr = shdr[o].addr,
         (\E r, j : Passee(r, j)') => \A k \in DOMAIN sym : sym'[k].value = sym[k].value
  PROVE  MotsInv'
<1> SUFFICES ASSUME Regulier, EntreesSimples
             PROVE  /\ MemesPlaces'
                    /\ \A i \in DOMAIN shdr' : shdr'[i].body \in DOMAIN contenu =>
                         \A d \in DOMAIN contenu[shdr'[i].body] : Intact(i, d)' /\ Applique(i, d)'
  BY HypothesesFixes DEF MotsInv
<1>1. MemesPlaces'
  BY DEF MotsInv, MemesPlaces
<1>2. ASSUME NEW i \in DOMAIN shdr', shdr'[i].body \in DOMAIN contenu,
             NEW d \in DOMAIN contenu[shdr'[i].body]
      PROVE  Intact(i, d)' /\ Applique(i, d)'
  <2>1. PICK o \in DOMAIN shdr :
            /\ shdr'[i].body = shdr[o].body /\ shdr'[i].name = shdr[o].name
            /\ (\E r, j : Passee(r, j)') => shdr'[i].addr = shdr[o].addr
    OBVIOUS
  <2>2. Intact(o, d) /\ Applique(o, d)
    BY <1>2, <2>1 DEF MotsInv
  <2> PICK nom : nom = shdr[o].name
    OBVIOUS
  <2>3. Visent(shdr[i].name)' = Visent(nom) /\ \A r : EntreesDe(r)' = EntreesDe(r)
    <3>1. shdr'[i].name = nom
      BY <2>1
    <3>2. Visent(shdr[i].name)' = Visent(nom)
      BY <3>1 DEF Visent, AReimplanter
    <3> QED
      BY <3>2 DEF EntreesDe
  <2>4. Intact(i, d)'
    BY <2>1, <2>2, <2>3 DEF Intact
  <2>5. ASSUME NEW r \in Visent(nom), NEW j \in DOMAIN EntreesDe(r), Passee(r, j)',
               EntreesDe(r)[j].offset = d
        PROVE  contenu'[shdr'[i].body][d] = MotEcrit(i, EntreesDe(r)[j])'
    <3>1. contenu[shdr[o].body][d] = MotEcrit(o, EntreesDe(r)[j])
      BY <2>2, <2>5 DEF Applique
    <3>2. EntreesDe(r)[j].sym \in DOMAIN sym
      <4>1. EntreesDe(r)[j] \in [offset : Nat, type : Nat, sym : DOMAIN image.sym]
        BY EntreesTypees, Zenon
      <4> QED
        BY <4>1
    <3>3. sym'[EntreesDe(r)[j].sym].value = sym[EntreesDe(r)[j].sym].value
      BY <2>5, <3>2
    <3>4. shdr'[i].addr = shdr[o].addr
      BY <2>1, <2>5
    <3> QED
      BY <2>1, <2>3, <3>1, <3>3, <3>4 DEF MotEcrit
  <2>6. Applique(i, d)'
    BY <2>3, <2>5 DEF Applique
  <2> QED
    BY <2>4, <2>6
<1> QED
  BY <1>1, <1>2
(***************************************************************************)
(* One turn of the inner loop: the word of entry rj has not been touched   *)
(* before, and no other section is patched by section ri.                  *)
(***************************************************************************)
LEMMA MotsEntree ==
  ASSUME IInv, TableDImage, SymbolesDImage, MotsInv, ReimplanteEntree
  PROVE  MotsInv'
<1>1. /\ image' = image /\ UNCHANGED <<shdr, sym, etape, ri>>
      /\ etape = "reimplants" /\ ri < ehdr.e_shnum /\ rj' = rj + 1
      /\ AReimplanter(shdr[ri]) /\ Cible # -1 /\ rj <= Len(Entrees)
  BY DEF ReimplanteEntree, Reimplantable, entree
<1> SUFFICES ASSUME Regulier, EntreesSimples
             PROVE  /\ MemesPlaces'
                    /\ \A i \in DOMAIN shdr : shdr[i].body \in DOMAIN contenu' =>
                         \A d \in DOMAIN contenu'[shdr[i].body] : Intact(i, d)' /\ Applique(i, d)'
  BY <1>1, HypothesesFixes DEF MotsInv
<1>2. /\ ImageOK(image) /\ TypeTables /\ CorpsOK
      /\ ri \in Nat /\ rj \in Nat \ {0} /\ ri \in DOMAIN shdr
  BY <1>1 DEF IInv, TypeOK, TypeOptions, TypeTables, TypeLocaux
<1>3. /\ MemesPlaces
      /\ \A i \in DOMAIN shdr : shdr[i].body \in DOMAIN contenu =>
           \A d \in DOMAIN contenu[shdr[i].body] : Intact(i, d) /\ Applique(i, d)
  BY <1>1 DEF MotsInv, Etapes
<1>4. /\ DOMAIN shdr = DOMAIN image.shdr
      /\ \A i \in DOMAIN shdr : MemeSection(i, i)
  BY <1>1 DEF TableDImage
<1> PICK u : u = ri
  OBVIOUS
<1> PICK v : v = rj
  OBVIOUS
<1> PICK c : c = Cible
  OBVIOUS
<1> PICK nom : nom = shdr[c].name
  OBVIOUS
<1> PICK b : b = shdr[c].body
  OBVIOUS
<1> PICK e : e = EntreesDe(ri)[rj]
  OBVIOUS
<1>5. c \in DOMAIN shdr /\ nom = nom_section_correspondant(shdr[ri].name)
  BY <1>1, <1>2, SectionTrouvee DEF Cible, TypeTables
<1>6. ri \in Visent(nom) /\ Entrees = EntreesDe(ri)
  BY <1>1, <1>2, <1>4, <1>5 DEF Visent, AReimplanter, MemeSection, Entrees, EntreesDe
<1>7. /\ rj \in DOMAIN EntreesDe(ri) /\ DOMAIN EntreesDe(ri) \subseteq Nat
      /\ e \in [offset : Nat, type : Nat, sym : DOMAIN image.sym]
  <2> PICK s : s = EntreesDe(ri)
    OBVIOUS
  <2>1. /\ Len(s) \in Nat /\ DOMAIN s = 1 .. Len(s)
        /\ \A j \in DOMAIN s : s[j] \in [offset : Nat, type : Nat, sym : DOMAIN image.sym]
    BY <1>2, <1>6, EntreesTypees
  <2>2. rj <= Len(s)
    BY <1>1, <1>6
  <2>3. rj \in DOMAIN s /\ DOMAIN s \subseteq Nat
    BY <1>2, <2>1, <2>2
  <2> QED
    BY <2>1, <2>3
<1>8. nom \in {Text, Data} /\ \A q \in Visent(nom) : q = ri
  BY <1>6, UneSeuleVise
<1>9. ASSUME NEW i \in DOMAIN shdr, shdr[i].name = nom
      PROVE  i = c
  <2>1. image.shdr[i].name = nom /\ image.shdr[c].name = nom
    BY <1>4, <1>5, <1>9 DEF MemeSection
  <2> QED
    BY <1>4, <1>5, <1>8, <1>9, <2>1 DEF EntreesSimples
<1>10. /\ \A j \in DOMAIN EntreesDe(ri) : EntreesDe(ri)[j].offset = e.offset => j = rj
       /\ e.type \in TypesSimples
       /\ ~sym[e.sym].func
  <2>1. AReimplanter(image.shdr[ri])
    BY <1>6 DEF Visent
  <2>2. /\ \A j, l \in DOMAIN EntreesDe(ri) :
             EntreesDe(ri)[j].offset = EntreesDe(ri)[l].offset => j = l
        /\ \A j \in DOMAIN EntreesDe(ri) :
             /\ EntreesDe(ri)[j].type \in TypesSimples
             /\ ~image.sym[EntreesDe(ri)[j].sym].func
    BY <1>2, <1>4, <2>1, Zenon DEF EntreesSimples
  <2>3. e.sym \in DOMAIN image.sym /\ DOMAIN sym = DOMAIN image.sym
    BY <1>2, <1>7 DEF TypeTables
  <2>4. sym[e.sym].func = image.sym[e.sym].func
    BY <2>3 DEF SymbolesDImage
  <2> QED
    BY <1>7, <2>2, <2>4
<1> PICK a : a = NouvelleAdresse(e.type, sym[e.sym].func, sym[e.sym].value,
                                 shdr[c].addr + e.offset, new_addr)
  OBVIOUS
<1>11. contenu' = [contenu EXCEPT ![b][e.offset] = MotReimplante(@, a)]
  BY <1>6 DEF ReimplanteEntree
<1>12. a = NouvelleAdresse(e.type, FALSE, sym[e.sym].value, shdr[c].addr + e.offset, 0)
  <2>1. sym[e.sym].func = FALSE
    <3>1. e.sym \in DOMAIN sym /\ sym[e.sym] \in SymboleLibre
      BY <1>2, <1>7 DEF TypeTables
    <3>2. sym[e.sym].func \in BOOLEAN
      BY <3>1 DEF SymboleLibre
    <3> QED
      BY <1>10, <3>2
  <2>2. e.type \in R_ARM_ABS \union R_ARM_JUMP
    BY <1>10 DEF R_ARM_ABS, TypesSimples
  <2> QED
    BY <2>1, <2>2 DEF NouvelleAdresse
<1>13. MemesPlaces'
  BY <1>1, <1>3, <1>11 DEF MemesPlaces
<1>14. \A r, j : r # u => (Passee(r, j)' <=> Passee(r, j))
  BY <1>1 DEF Passee
<1>15. \A j \in DOMAIN EntreesDe(u) : Passee(u, j)' <=> Passee(u, j) \/ j = v
  <2>1. \A j \in Nat : j < rj + 1 <=> j < rj \/ j = rj
    BY <1>2
  <2> QED
    BY <1>1, <1>7, <2>1 DEF Passee
<1>16. ~Passee(u, v) /\ Passee(u, v)'
  <2>1. ~(ri < ri) /\ ~(rj < rj) /\ rj < rj + 1
    BY <1>2
  <2> QED
    BY <1>1, <2>1 DEF Passee
<1>17. ASSUME NEW i \in DOMAIN shdr, shdr[i].body \in DOMAIN contenu',
              NEW d \in DOMAIN contenu'[shdr[i].body]
       PROVE  Intact(i, d)' /\ Applique(i, d)'
  <2>1. shdr[i].body \in DOMAIN contenu /\ d \in DOMAIN contenu[shdr[i].body]
    BY <1>11, <1>17
  <2>2. Intact(i, d) /\ Applique(i, d)
    BY <1>3, <2>1
  <2>3. Visent(shdr[i].name)' = Visent(shdr[i].name) /\ \A r : EntreesDe(r)' = EntreesDe(r)
    BY <1>1 DEF Visent, AReimplanter, EntreesDe
  <2>4. \A q : MotEcrit(i, q)' = MotEcrit(i, q)
    BY <1>1 DEF MotEcrit
  <2>5. CASE i = c /\ d = e.offset
    <3>1. \A r \in Visent(nom) : \A j \in DOMAIN EntreesDe(r) :
            Passee(r, j) => EntreesDe(r)[j].offset # d
      BY <1>8, <1>10, <1>16, <2>5
    <3>2. contenu[b][d] = image.contenu[b][d]
      BY <2>2, <2>5, <3>1 DEF Intact
    <3>3. contenu'[b][d] = MotReimplante(image.contenu[b][d], a)
      BY <1>11, <2>1, <2>5, <3>2
    <3>4. contenu'[b][d] = MotEcrit(c, e)
      BY <1>12, <2>5, <3>3 DEF MotEcrit
    <3>5. Intact(i, d)'
      <4>1. u \in Visent(shdr[i].name) /\ v \in DOMAIN EntreesDe(u) /\ EntreesDe(u)[v].offset = d
        BY <1>6, <1>7, <2>5
      <4> QED
        BY <1>1, <1>16, <2>3, <4>1 DEF Intact
    <3>6. ASSUME NEW r \in Visent(nom), NEW j \in DOMAIN EntreesDe(r), EntreesDe(r)[j].offset = d
          PROVE  EntreesDe(r)[j] = e
      BY <1>8, <1>10, <2>5, <3>6
    <3>7. Applique(i, d)'
      BY <1>1, <2>3, <2>4, <2>5, <3>4, <3>6 DEF Applique
    <3> QED
      BY <3>5, <3>7
  <2>6. CASE ~(i = c /\ d = e.offset)
    <3>1. contenu'[shdr[i].body][d] = contenu[shdr[i].body][d]
      <4>1. CASE i = c
        BY <1>11, <2>1, <2>6, <4>1
      <4>2. CASE i # c
        <5>1. shdr[i].body # b
          BY <1>2, <1>5, <4>2 DEF CorpsOK
        <5> QED
          BY <1>11, <2>1, <5>1
      <4> QED
        BY <4>1, <4>2
    <3>2. ASSUME NEW r \in Visent(shdr[i].name), NEW j \in DOMAIN EntreesDe(r),
                 EntreesDe(r)[j].offset = d
          PROVE  Passee(r, j)' <=> Passee(r, j)
      <4>1. CASE r = u
        <5>1. shdr[i].name = nom
          BY <1>4, <1>5, <3>2, <4>1 DEF Visent, MemeSection
        <5>2. i = c
          BY <1>9, <5>1
        <5>3. j # v
          BY <2>6, <3>2, <4>1, <5>2
        <5> QED
          BY <1>15, <3>2, <4>1, <5>3
      <4>2. CASE r # u
        BY <1>14, <4>2, Zenon
      <4> QED
        BY <4>1, <4>2
    <3>3. Intact(i, d)'
      BY <1>1, <2>2, <2>3, <3>1, <3>2 DEF Intact
    <3>4. Applique(i, d)'
      BY <1>1, <2>2, <2>3, <2>4, <3>1, <3>2 DEF Applique
    <3> QED
      BY <3>3, <3>4
  <2> QED
    BY <2>5, <2>6
<1> QED
  BY <1>13, <1>17

LEMMA MotsOptions ==
  ASSUME IInv, MotsInv, OptionSection \/ OptionSortie \/ ErreurOptions \/ FinOptions,
         etape' \in Etapes \union {"fini"}
  PROVE  MotsInv'
<1>1. /\ etape = "options" /\ etape' \in {"options", "charge"} \union Arrets
      /\ UNCHANGED <<image, shdr, sym, contenu>>
  BY DEF OptionSection, OptionSortie, ErreurOptions, FinOptions, Arret, entree, tables, Arrets
<1>2. etape' \in {"options", "charge"}
  BY <1>1 DEF OptionSection, OptionSortie, ErreurOptions, FinOptions, Arret, Etapes
<1>3. \A r, j : ~Passee(r, j) /\ ~Passee(r, j)'
  BY <1>1, <1>2 DEF Passee
<1>4. ImageOK(image) /\ DOMAIN sym = DOMAIN image.sym
  BY DEF IInv, TypeOK, TypeOptions, TypeTables
<1> QED
  BY <1>1, <1>3, <1>4, MotsCadre DEF Etapes

LEMMA MotsCharge ==
  ASSUME IInv, BoucleInv, MotsInv, AddrCharge
  PROVE  MotsInv'
<1>1. /\ etape = "charge" /\ image' = image /\ contenu' = contenu /\ ri' = 0 /\ rj' = 1
  BY DEF AddrCharge, Arret, entree, tables, boucle, BoucleInv
<1>2. etape' \notin {"supprime", "corrige", "executable", "fini"}
  BY <1>1 DEF AddrCharge, Arret, Suivante
<1>3. ImageOK(image) /\ DOMAIN sym = DOMAIN image.sym
  BY DEF IInv, TypeOK, TypeOptions, TypeTables
<1>4. \A nom : \A r \in Visent(nom) : \A j \in DOMAIN EntreesDe(r) : ~Passee(r, j) /\ ~Passee(r, j)'
  <2> SUFFICES ASSUME NEW nom, NEW r \in Visent(nom), NEW j \in DOMAIN EntreesDe(r)
               PROVE  ~Passee(r, j) /\ ~Passee(r, j)'
    OBVIOUS
  <2>1. r \in Nat /\ j \in Nat \ {0}
    <3> PICK l : l = Len(EntreesDe(r))
      OBVIOUS
    <3>1. r \in Nat /\ l \in Nat /\ j \in 1 .. l
      BY <1>3, EntreesTypees
    <3> QED
      BY <3>1
  <2>2. ~(r < 0) /\ ~(j < 1)
    BY <2>1
  <2> QED
    BY <1>1, <1>2, <2>2 DEF Passee
<1>5. \A i \in DOMAIN shdr' : i \in DOMAIN shdr /\ shdr'[i].body = shdr[i].body /\ shdr'[i].name = shdr[i].name
  BY AddrChargeNoms
<1> SUFFICES ASSUME Regulier, EntreesSimples
             PROVE  /\ MemesPlaces'
                    /\ \A i \in DOMAIN shdr' : shdr'[i].body \in DOMAIN contenu =>
                         \A d \in DOMAIN contenu[shdr'[i].body] : Intact(i, d)' /\ Applique(i, d)'
  BY <1>1, HypothesesFixes DEF MotsInv
<1>6. /\ MemesPlaces
      /\ \A i \in DOMAIN shdr : shdr[i].body \in DOMAIN contenu =>
           \A d \in DOMAIN contenu[shdr[i].body] : Intact(i, d) /\ Applique(i, d)
  BY <1>1 DEF MotsInv, Etapes
<1>7. ASSUME NEW i \in DOMAIN shdr', shdr'[i].body \in DOMAIN contenu,
             NEW d \in DOMAIN contenu[shdr'[i].body]
      PROVE  Intact(i, d)' /\ Applique(i, d)'
  <2>1. Intact(i, d)
    BY <1>5, <1>6, <1>7
  <2>2. Visent(shdr[i].name)' = Visent(shdr[i].name) /\ \A r : EntreesDe(r)' = EntreesDe(r)
    BY <1>1, <1>5 DEF Visent, AReimplanter, EntreesDe
  <2>3. contenu[shdr[i].body][d] = image.contenu[shdr[i].body][d]
    BY <1>4, <2>1 DEF Intact
  <2>4. Intact(i, d)'
    BY <1>1, <1>5, <2>3 DEF Intact
  <2>5. Applique(i, d)'
    BY <1>4, <2>2 DEF Applique
  <2> QED
    BY <2>4, <2>5
<1>8. MemesPlaces'
  BY <1>1, <1>6 DEF MemesPlaces
<1> QED
  BY <1>7, <1>8

(***************************************************************************)
(* The outer loop of proc_reimplants: when it leaves a section, all of its *)
(* entries have been applied.                                              *)
(***************************************************************************)
LEMMA MotsSectionSuivante ==
  ASSUME IInv, TableDImage, BoucleInv, MotsInv,
         PasseSection \/ SectionReimplantee \/ FinReimplants
  PROVE  MotsInv'
<1>1. /\ etape = "reimplants" /\ UNCHANGED <<image, shdr, sym, contenu>>
  BY DEF PasseSection, SectionReimplantee, FinReimplants, entree, tables
<1>2. /\ ImageOK(image) /\ DOMAIN sym = DOMAIN image.sym /\ ri \in Nat /\ rj \in Nat \ {0}
      /\ DOMAIN shdr = DOMAIN image.shdr /\ DOMAIN shdr = 0 .. ehdr.e_shnum - 1
      /\ ehdr.e_shnum \in Nat /\ \A i \in DOMAIN shdr : MemeSection(i, i)
  BY <1>1 DEF IInv, TypeOK, TypeOptions, TypeTables, TypeLocaux, TableDImage
<1>3. ASSUME NEW nom, NEW r \in Visent(nom), NEW j \in DOMAIN EntreesDe(r)
      PROVE  Passee(r, j)' <=> Passee(r, j)
  <2> PICK l : l = Len(EntreesDe(r))
    OBVIOUS
  <2>1. r \in Nat /\ r \in DOMAIN image.shdr /\ l \in Nat /\ j \in 1 .. l
    BY <1>2, <1>3, EntreesTypees
  <2>2. AReimplanter(shdr[r]) /\ EntreesDe(r) = image.rel[shdr[r].body]
    BY <1>2, <1>3, <2>1 DEF Visent, AReimplanter, MemeSection, EntreesDe
  <2>3. CASE PasseSection
    <3>1. etape' = "reimplants" /\ ri' = ri + 1 /\ rj' = rj /\ ~AReimplanter(shdr[ri])
      BY <1>1, <2>3 DEF PasseSection
    <3>2. rj = 1 /\ r # ri
      BY <1>1, <2>2, <3>1 DEF BoucleInv
    <3>3. (r < ri + 1 \/ (r = ri + 1 /\ j < rj)) <=> (r < ri \/ (r = ri /\ j < rj))
      BY <1>2, <2>1, <3>2
    <3> QED
      BY <1>1, <3>1, <3>3 DEF Passee
  <2>4. CASE SectionReimplantee
    <3>1. etape' = "reimplants" /\ ri' = ri + 1 /\ rj' = 1 /\ rj > Len(Entrees)
      BY <1>1, <2>4 DEF SectionReimplantee
    <3>2. r = ri => l = Len(Entrees)
      BY <2>2 DEF Entrees
    <3>3. (r < ri + 1 \/ (r = ri + 1 /\ j < 1)) <=> (r < ri \/ (r = ri /\ j < rj))
      BY <1>2, <2>1, <3>1, <3>2
    <3> QED
      BY <1>1, <3>1, <3>3 DEF Passee
  <2>5. CASE FinReimplants
    <3>1. etape' = "supprime" /\ ri >= ehdr.e_shnum
      BY <2>5 DEF FinReimplants
    <3>2. r < ri
      BY <1>2, <2>1, <3>1
    <3> QED
      BY <1>1, <3>1, <3>2 DEF Passee
  <2> QED
    BY <2>3, <2>4, <2>5
<1> QED
  BY <1>1, <1>2, <1>3, MotsCadre DEF Etapes

(***************************************************************************)
(* A removal takes a header out of the table and leaves the others.        *)
(***************************************************************************)
LEMMA MotsSupprime ==
  ASSUME IInv, MotsInv, SupprimerUneSection, etape' # "abandon"
  PROVE  MotsInv'
<1>1. /\ etape = "supprime" /\ etape' \in {"supprime", "executable", "corrige"}
      /\ UNCHANGED <<image, sym, contenu>>
  BY DEF SupprimerUneSection, Suivante, Arret, entree, tables
<1>2. /\ ImageOK(image) /\ DOMAIN sym = DOMAIN image.sym /\ TypeTables /\ TypeLocaux
  BY DEF IInv, TypeOK, TypeOptions, TypeTables
<1>3. \A r, j : Passee(r, j) /\ Passee(r, j)'
  BY <1>1 DEF Passee
<1> PICK x : x = Section(get_nom_rel_corre(str_section[tour]))
  OBVIOUS
<1>4. ASSUME NEW i \in DOMAIN shdr'
      PROVE  \E o \in DOMAIN shdr : /\ shdr'[i].body = shdr[o].body
                                    /\ shdr'[i].name = shdr[o].name
                                    /\ shdr'[i].addr = shdr[o].addr
  <2>1. CASE x = -1
    <3>1. UNCHANGED shdr
      BY <2>1 DEF SupprimerUneSection, Arret, tables
    <3> QED
      BY <1>4, <3>1
  <2>2. CASE x # -1
    <3> PICK n : n = ehdr.e_shnum
      OBVIOUS
    <3>1. shdr' = TableAfter(shdr, n, x)
      BY <2>2 DEF SupprimerUneSection, Arret
    <3>2. x \in 1 .. n - 1
      BY <1>1, <1>2, <2>2, RetireNonNulle
    <3>3. n \in 2 .. 255 /\ DOMAIN shdr' = 0 .. n - 2
      BY <1>2, <3>1, <3>2, Retrait
    <3>4. Ancien(i, x) \in 0 .. n - 1
      BY <1>4, <3>2, <3>3, AncienOrdre, Zenon
    <3>5. Ancien(i, x) \in DOMAIN shdr
      BY <1>2, <3>4 DEF TypeTables
    <3>6. LET h == shdr[Ancien(i, x)] IN
          shdr'[i].body = h.body /\ shdr'[i].name = h.name /\ shdr'[i].addr = h.addr
      BY <1>2, <1>4, <3>1, <3>2, <3>3, Retrait
    <3> QED
      BY <3>5, <3>6
  <2> QED
    BY <2>1, <2>2
<1> QED
  BY <1>1, <1>2, <1>3, <1>4, MotsCadre DEF Etapes

LEMMA MotsFin ==
  ASSUME IInv, SuiviInv, Regulier, MotsInv, [Next]_vars,
         CorrigeNdx \/ ProduExecutable \/ UNCHANGED vars,
         etape' \in Etapes \union {"fini"}
  PROVE  MotsInv'
<1>1. /\ ImageOK(image) /\ DOMAIN sym = DOMAIN image.sym
  BY DEF IInv, TypeOK, TypeOptions, TypeTables
<1>2. CASE UNCHANGED vars
  <2>1. UNCHANGED <<image, shdr, sym, contenu, etape, ri, rj>>
    BY <1>2 DEF vars, entree, tables, boucle
  <2>2. \A r, j : Passee(r, j)' <=> Passee(r, j)
    BY <2>1 DEF Passee
  <2> QED
    BY <1>1, <2>1, <2>2, MotsCadre
<1>3. CASE CorrigeNdx \/ ProduExecutable
  <2>1. /\ etape \in {"corrige", "executable"} /\ UNCHANGED <<image, shdr, contenu>>
        /\ etape' \in {"supprime", "executable", "fini"}
    BY <1>3 DEF CorrigeNdx, ProduExecutable, Arret, entree, tables, Etapes
  <2>2. \A r, j : Passee(r, j) /\ Passee(r, j)'
    BY <2>1 DEF Passee
  <2>3. \A k \in DOMAIN sym : sym'[k].value = sym[k].value
    BY <2>1, PasFige DEF FigeSymboles
  <2> QED
    BY <1>1, <2>1, <2>2, <2>3, MotsCadre DEF Etapes
<1> QED
  BY <1>2, <1>3

LEMMA GardeMots ==
  IInv /\ SuiviInv /\ TableDImage /\ SymbolesDImage /\ BoucleInv /\ MotsInv /\ [Next]_vars => MotsInv'
<1> SUFFICES ASSUME IInv, SuiviInv, TableDImage, SymbolesDImage, BoucleInv, MotsInv, [Next]_vars,
                    Regulier', etape' \in Etapes \union {"fini"}
             PROVE  MotsInv'
  BY DEF MotsInv
<1>1. Regulier
  BY EntreeFixe DEF Regulier
<1>2. CASE OptionSection \/ OptionSortie \/ ErreurOptions \/ FinOptions
  BY <1>2, MotsOptions
<1>3. CASE AddrCharge
  BY <1>3, MotsCharge
<1>4. CASE PasseSection \/ SectionReimplantee \/ FinReimplants
  BY <1>4, MotsSectionSuivante
<1>5. CASE ReimplanteEntree
  BY <1>5, MotsEntree
<1>6. CASE ReimplantEchoue
  BY <1>6 DEF ReimplantEchoue, Arret, Etapes
<1>7. CASE SupprimerUneSection
  <2>1. etape' # "abandon"
    BY DEF Etapes
  <2> QED
    BY <1>7, <2>1, MotsSupprime
<1>8. CASE CorrigeNdx \/ ProduExecutable \/ UNCHANGED vars
  BY <1>1, <1>8, MotsFin
<1> QED
  BY <1>2, <1>3, <1>4, <1>5, <1>6, <1>7, <1>8 DEF Next

(***************************************************************************)
(* The two theorems on single words, for the types of EntreesSimples.      *)
(***************************************************************************)
LEMMA MotJuste ==
  ASSUME NEW mot \in Mot, NEW type \in TypesSimples, NEW S \in Adresse, NEW P,
         Exprimable(mot, type, S, P)
  PROVE  MotReimplante(mot, NouvelleAdresse(type, FALSE, S, P, 0)) = Attendu(mot, type, S, P)
<1>1. CASE type = 2
  BY <1>1, AbsolueExacte DEF Exprimable
<1>2. CASE type # 2
  BY <1>2, BrancheExacte DEF Exprimable, TypesSimples
<1> QED
  BY <1>1, <1>2

Juste(mot, type, S, P) ==
  MotReimplante(mot, NouvelleAdresse(type, FALSE, S, P, 0)) = Attendu(mot, type, S, P)

LEMMA MotsJustes ==
  \A mot \in Mot, type \in TypesSimples, S \in Adresse : \A P :
    Exprimable(mot, type, S, P) => Juste(mot, type, S, P)
BY MotJuste DEF Juste

(***************************************************************************)
(* For every object file with one section of each name, one entry for a    *)
(* place and symbols that are no STT_FUNC, in every order of its sections, *)
(* every order of its entries and through every removal: the words of the  *)
(* sections that are left are those the ARM ELF rules ask for at the       *)
(* addresses they have, provided the format can express these.             *)
(***************************************************************************)
THEOREM ReimplanteToujours ==
  Spec => [](Regulier /\ EntreesSimples /\ AdressesSures => Reimplante)
<1>1. ASSUME IInv, MotsInv, Regulier, EntreesSimples, AdressesSures,
             etape \in {"supprime", "corrige", "executable", "fini"},
             NEW i \in DOMAIN shdr, shdr[i].body \in DOMAIN contenu,
             NEW d \in DOMAIN image.contenu[shdr[i].body]
      PROVE  /\ (\A r \in Visent(shdr[i].name) : \A j \in DOMAIN EntreesDe(r) :
                   EntreesDe(r)[j].offset # d)
                => contenu[shdr[i].body][d] = image.contenu[shdr[i].body][d]
             /\ \A r \in Visent(shdr[i].name) : \A j \in DOMAIN EntreesDe(r) :
                  LET e == EntreesDe(r)[j] IN
                  e.offset = d =>
                    contenu[shdr[i].body][d] = Attendu(image.contenu[shdr[i].body][d], e.type,
                                                       sym[e.sym].value, shdr[i].addr + d)
  <2>1. \A r, j : Passee(r, j)
    BY <1>1 DEF Passee
  <2>2. /\ d \in DOMAIN contenu[shdr[i].body] /\ shdr[i].body \in DOMAIN image.contenu
        /\ Intact(i, d) /\ Applique(i, d)
    BY <1>1 DEF MotsInv, MemesPlaces, Etapes
  <2>3. ASSUME NEW r \in Visent(shdr[i].name), NEW j \in DOMAIN EntreesDe(r),
               EntreesDe(r)[j].offset = d
        PROVE  contenu[shdr[i].body][d] = Attendu(image.contenu[shdr[i].body][d],
                 EntreesDe(r)[j].type, sym[EntreesDe(r)[j].sym].value, shdr[i].addr + d)
    <3> PICK e : e = EntreesDe(r)[j]
      OBVIOUS
    <3> PICK mot : mot = image.contenu[shdr[i].body][d]
      OBVIOUS
    <3> PICK S : S = sym[e.sym].value
      OBVIOUS
    <3> PICK P : P = shdr[i].addr + d
      OBVIOUS
    <3>1. contenu[shdr[i].body][d] = MotReimplante(mot, NouvelleAdresse(e.type, FALSE, S, P, 0))
      BY <2>1, <2>2, <2>3 DEF Applique, MotEcrit
    <3>2. mot \in Mot
      BY <1>1, <2>2 DEF EntreesSimples
    <3>3. S \in Adresse
      <4>1. ImageOK(image) /\ TypeTables
        BY <1>1 DEF IInv, TypeOK, TypeOptions
      <4>2. e \in [offset : Nat, type : Nat, sym : DOMAIN image.sym]
        BY <2>3, <4>1, EntreesTypees
      <4>3. sym[e.sym] \in SymboleLibre
        BY <4>1, <4>2 DEF TypeTables
      <4> QED
        BY <4>3 DEF SymboleLibre
    <3>4. e.type \in TypesSimples
      BY <1>1, <2>3 DEF EntreesSimples, Visent
    <3>5. Exprimable(mot, e.type, S, P)
      BY <1>1, <2>2, <2>3 DEF AdressesSures
    <3>6. Juste(mot, e.type, S, P)
      BY <3>2, <3>3, <3>4, <3>5, MotsJustes
    <3> QED
      BY <3>1, <3>6 DEF Juste
  <2> QED
    BY <2>1, <2>2, <2>3 DEF Intact
<1>2. ASSUME IInv, MotsInv, Regulier, EntreesSimples, AdressesSures
      PROVE  Reimplante
  <2> SUFFICES ASSUME etape \in {"supprime", "corrige", "executable", "fini"},
                      NEW i \in {j \in DOMAIN shdr : shdr[j].body \in DOMAIN contenu},
                      NEW d \in DOMAIN image.contenu[shdr[i].body]
               PROVE  LET rels == {r \in DOMAIN image.shdr :
                             /\ AReimplanter(image.shdr[r])
                             /\ nom_section_correspondant(image.shdr[r].name) = shdr[i].name}
                          b   == shdr[i].body
                          ici == {e \in UNION {ToSet(image.rel[image.shdr[r].body]) : r \in rels} :
                                    e.offset = d}
                      IN  IF ici = {} THEN contenu[b][d] = image.contenu[b][d]
                          ELSE \A e \in ici :
                                 contenu[b][d] = Attendu(image.contenu[b][d], e.type,
                                                         sym[e.sym].value, shdr[i].addr + d)
    BY DEF Reimplante
  <2> DEFINE b   == shdr[i].body
             ici == {e \in UNION {ToSet(EntreesDe(r)) : r \in Visent(shdr[i].name)} : e.offset = d}
  <2>1. \A e : e \in ici <=> \E r \in Visent(shdr[i].name) : \E j \in DOMAIN EntreesDe(r) :
                                 e = EntreesDe(r)[j] /\ e.offset = d
    BY DEF ToSet
  <2>2. CASE ici = {}
    <3>1. contenu[b][d] = image.contenu[b][d]
      BY <1>1, <1>2, <2>1, <2>2
    <3> QED
      BY <2>2, <3>1 DEF Visent, EntreesDe
  <2>3. CASE ici # {}
    <3>1. \A e \in ici : contenu[b][d] = Attendu(image.contenu[b][d], e.type,
                                                 sym[e.sym].value, shdr[i].addr + d)
      <4> SUFFICES ASSUME NEW e \in ici
                   PROVE  contenu[b][d] = Attendu(image.contenu[b][d], e.type,
                                                  sym[e.sym].value, shdr[i].addr + d)
        OBVIOUS
      <4>1. PICK r \in Visent(shdr[i].name) : \E j \in DOMAIN EntreesDe(r) :
                   e = EntreesDe(r)[j] /\ e.offset = d
        BY <2>1
      <4> QED
        BY <1>1, <1>2, <4>1
    <3> QED
      BY <2>3, <3>1 DEF Visent, EntreesDe
  <2> QED
    BY <2>2, <2>3
<1>3. Init => BoucleInv /\ MotsInv
  BY InitMots
<1>4. /\ IInv /\ SuiviInv /\ TableDImage /\ SymbolesDImage /\ BoucleInv /\ MotsInv /\ [Next]_vars
      => BoucleInv' /\ MotsInv'
  BY GardeBoucle, GardeMots
<1>5. ReuInv => TableDImage
  BY DEF ReuInv
<1>6. SortieInv => SymbolesDImage
  BY DEF SortieInv
<1> QED
  BY <1>2, <1>3, <1>4, <1>5, <1>6, IInvToujours, SuiviToujours, ReuToujours, SortieToujours, PTL DEF Spec
============================================================================
