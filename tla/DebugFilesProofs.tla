-------------------------- MODULE DebugFilesProofs --------------------------
(***************************************************************************)
(* For every size of the table, every set of names and every sequence of   *)
(* calls: the table stays sorted, a search reads filled places only and    *)
(* finds exactly the names in the table, and no name is lost before the    *)
(* table is full.                                                          *)
(***************************************************************************)
EXTENDS DebugFiles, TLAPS

Triee ==
  \A i, j \in Occupes : i < j => debugged_files[i] <= debugged_files[j]

(***************************************************************************)
(* A search has not passed over the name it looks for.                     *)
(***************************************************************************)
Entoure ==
  etape = "recherche" =>
    \A k \in Occupes : debugged_files[k] = name => from <= k /\ k <= to

IInv == TypeOK /\ Triee /\ Entoure /\ TableComplete /\ RechercheExacte

-----------------------------------------------------------------------------
(***************************************************************************)
(* The first test of the binary search: the middle of two places is one of *)
(* the places, and strictly before the second if they differ.              *)
(***************************************************************************)
LEMMA MilieuEntre ==
  ASSUME NEW a \in Nat, NEW b \in Int, a < b
  PROVE  /\ (a + b) \div 2 \in Int
         /\ a <= (a + b) \div 2 /\ (a + b) \div 2 < b
OBVIOUS

(***************************************************************************)
(* add_debug_to keeps the table sorted and adds the name to it.            *)
(***************************************************************************)
LEMMA InsertionOrdonnee ==
  ASSUME TypeOK, Triee, NEW n \in Noms, NEW i \in 0 .. nb_debugged_files,
         EstRang(i, n), nb_debugged_files < MAX_FILES_NUMBER,
         debugged_files' = Insere(i, n),
         nb_debugged_files' = nb_debugged_files + 1
  PROVE  /\ debugged_files' \in [Rangs -> Noms \union {NULL}]
         /\ nb_debugged_files' \in 0 .. MAX_FILES_NUMBER
         /\ \A k \in Occupes' : debugged_files'[k] \in Noms
         /\ Triee'
         /\ Contenu' = Contenu \union {n}
<1> USE NomsAssumption DEF TypeOK, Rangs, Occupes
<1> DEFINE t == debugged_files
<1> DEFINE nb == nb_debugged_files
<1>1. /\ nb \in Nat /\ nb < MAX_FILES_NUMBER /\ i \in Nat /\ i <= nb
      /\ \A k \in 0 .. nb - 1 : t[k] \in Noms /\ t[k] \in Nat
      /\ n \in Nat
  <2>1. nb \in Nat /\ nb < MAX_FILES_NUMBER /\ i \in Nat /\ i <= nb /\ n \in Nat
    OBVIOUS
  <2>2. \A k \in 0 .. nb - 1 : t[k] \in Noms
    OBVIOUS
  <2> QED  BY <2>1, <2>2
<1>2. ASSUME NEW k \in 0 .. nb
      PROVE  /\ k < i => debugged_files'[k] = t[k] /\ k \in 0 .. nb - 1
             /\ k = i => debugged_files'[k] = n
             /\ k > i => debugged_files'[k] = t[k - 1] /\ k - 1 \in 0 .. nb - 1
  BY <1>1 DEF Insere
<1>3. debugged_files' \in [Rangs -> Noms \union {NULL}]
  <2>1. ASSUME NEW k \in Rangs
        PROVE  Insere(i, n)[k] \in Noms \union {NULL}
    BY <1>1, <2>1 DEF Insere
  <2>2. Insere(i, n) = [k \in Rangs |-> Insere(i, n)[k]]
    BY DEF Insere
  <2> QED  BY <2>1, <2>2
<1>4. \A k \in Occupes' : debugged_files'[k] \in Noms
  BY <1>1, <1>2
<1>5. Triee'
  <2> SUFFICES ASSUME NEW a \in 0 .. nb, NEW b \in 0 .. nb, a < b
               PROVE  debugged_files'[a] <= debugged_files'[b]
    BY <1>1 DEF Triee
  <2>1. CASE b < i
    BY <1>1, <1>2, <2>1 DEF Triee
  <2>2. CASE b = i
    BY <1>1, <1>2, <2>2 DEF EstRang
  <2>3. CASE b > i /\ a < i
    <3>1. debugged_files'[a] = t[a] /\ t[a] < n /\ t[a] \in Nat
      BY <1>1, <1>2, <2>3 DEF EstRang
    <3>2. debugged_files'[b] = t[b - 1] /\ b - 1 >= i /\ b - 1 < nb
      BY <1>1, <1>2, <2>3
    <3>3. n <= t[i] /\ t[i] \in Nat
      BY <1>1, <3>2 DEF EstRang
    <3>4. t[i] <= t[b - 1] /\ t[b - 1] \in Nat
      BY <1>1, <3>2 DEF Triee
    <3> QED  BY <1>1, <3>1, <3>2, <3>3, <3>4
  <2>4. CASE b > i /\ a = i
    <3>1. debugged_files'[a] = n
      BY <1>1, <1>2, <2>4
    <3>2. debugged_files'[b] = t[b - 1] /\ b - 1 >= i /\ b - 1 < nb
      BY <1>1, <1>2, <2>4
    <3>3. n <= t[i] /\ t[i] \in Nat
      BY <1>1, <3>2 DEF EstRang
    <3>4. t[i] <= t[b - 1] /\ t[b - 1] \in Nat
      BY <1>1, <3>2 DEF Triee
    <3> QED  BY <1>1, <3>1, <3>2, <3>3, <3>4
  <2>5. CASE b > i /\ a > i
    BY <1>1, <1>2, <2>5 DEF Triee
  <2> QED  BY <1>1, <2>1, <2>2, <2>3, <2>4, <2>5
<1>6. Contenu' = Contenu \union {n}
  <2>1. ASSUME NEW x \in Contenu' PROVE x \in Contenu \union {n}
    <3>1. PICK k \in 0 .. nb : x = debugged_files'[k]
      BY <1>1, <2>1 DEF Contenu
    <3>2. CASE k < i
      BY <1>2, <3>1, <3>2 DEF Contenu
    <3>3. CASE k = i
      BY <1>2, <3>1, <3>3
    <3>4. CASE k > i
      BY <1>2, <3>1, <3>4 DEF Contenu
    <3> QED  BY <1>1, <3>2, <3>3, <3>4
  <2>2. n \in Contenu'
    BY <1>1, <1>2 DEF Contenu
  <2>3. ASSUME NEW x \in Contenu PROVE x \in Contenu'
    <3>1. PICK k \in 0 .. nb - 1 : x = t[k]
      BY <1>1, <2>3 DEF Contenu
    <3>2. CASE k < i
      BY <1>1, <1>2, <3>1, <3>2 DEF Contenu
    <3>3. CASE k >= i
      <4>1. k + 1 \in 0 .. nb /\ k + 1 > i /\ (k + 1) - 1 = k
        BY <1>1, <3>3
      <4>2. debugged_files'[k + 1] = t[k]
        BY <1>2, <4>1
      <4> QED  BY <1>1, <3>1, <4>1, <4>2 DEF Contenu
    <3> QED  BY <1>1, <3>2, <3>3
  <2> QED  BY <2>1, <2>2, <2>3
<1> QED  BY <1>1, <1>3, <1>4, <1>5, <1>6

-----------------------------------------------------------------------------
(***************************************************************************)
(* The invariant holds at the start, and every step keeps it.              *)
(***************************************************************************)
LEMMA Initialement == Init => IInv
<1> SUFFICES ASSUME Init PROVE IInv
  OBVIOUS
<1>1. Occupes = {} /\ Contenu = {}
  BY DEF Init, Occupes, Contenu
<1>2. TypeOK
  <2>1. debugged_files \in [Rangs -> Noms \union {NULL}]
    BY DEF Init
  <2>2. nb_debugged_files \in 0 .. MAX_FILES_NUMBER /\ appels \in 0 .. MaxAppels
    BY NomsAssumption DEF Init
  <2> QED  BY <1>1, <2>1, <2>2 DEF Init, TypeOK
<1>3. Triee /\ Entoure /\ RechercheExacte
  BY <1>1 DEF Init, Triee, Entoure, RechercheExacte
<1>4. TableComplete
  BY <1>1 DEF Init, TableComplete
<1> QED  BY <1>2, <1>3, <1>4 DEF IInv

LEMMA AjoutConserve ==
  ASSUME IInv, NEW n \in Noms, add_debug_to(n)
  PROVE  IInv'
<1> USE NomsAssumption
<1>1. PICK i \in 0 .. nb_debugged_files : EstRang(i, n) /\ AjouterEn(i, n)
  BY DEF add_debug_to
<1>2. /\ etape = "libre" /\ demandes' = demandes \union {n}
      /\ appels' = appels + 1 /\ appels < MaxAppels
      /\ name' = name /\ from' = from /\ to' = to /\ resultat' = resultat
  BY DEF add_debug_to, recherche
<1>3. CASE i >= MAX_FILES_NUMBER
  BY <1>1, <1>2, <1>3 DEF AjouterEn, table, IInv, TypeOK, Triee, Entoure,
    TableComplete, RechercheExacte, Contenu, Occupes
<1>4. CASE i < MAX_FILES_NUMBER /\ nb_debugged_files >= MAX_FILES_NUMBER
  BY <1>1, <1>2, <1>4 DEF AjouterEn, table, IInv, TypeOK, Triee, Entoure,
    TableComplete, RechercheExacte, Contenu, Occupes
<1>5. CASE nb_debugged_files < MAX_FILES_NUMBER
  <2>1. /\ debugged_files' = Insere(i, n)
        /\ nb_debugged_files' = nb_debugged_files + 1 /\ etape' = etape
    BY <1>1, <1>5 DEF AjouterEn, IInv, TypeOK
  <2>2. /\ debugged_files' \in [Rangs -> Noms \union {NULL}]
        /\ nb_debugged_files' \in 0 .. MAX_FILES_NUMBER
        /\ \A k \in Occupes' : debugged_files'[k] \in Noms
        /\ Triee'
        /\ Contenu' = Contenu \union {n}
    BY <1>1, <1>5, <2>1, InsertionOrdonnee DEF IInv
  <2>3. TypeOK'
    BY <1>2, <2>1, <2>2 DEF IInv, TypeOK
  <2>4. TableComplete'
    BY <1>2, <2>1, <2>2 DEF IInv, TypeOK, TableComplete
  <2>5. Entoure' /\ RechercheExacte'
    BY <1>2, <2>1 DEF Entoure, RechercheExacte
  <2> QED  BY <2>2, <2>3, <2>4, <2>5 DEF IInv
<1> QED  BY <1>1, <1>3, <1>4, <1>5 DEF IInv, TypeOK

LEMMA ChercheConserve ==
  ASSUME IInv, NEW n \in Noms, Chercher(n)
  PROVE  IInv'
<1>1. /\ etape' = "recherche" /\ name' = n /\ from' = 0 /\ resultat' = FALSE
      /\ to' = nb_debugged_files - 1
      /\ UNCHANGED <<debugged_files, nb_debugged_files, demandes, appels>>
  BY DEF Chercher, Dernier, table
<1>2. TypeOK'
  <2>1. nb_debugged_files \in Nat
    BY NomsAssumption DEF IInv, TypeOK
  <2>2. Occupes' = Occupes
    BY <1>1 DEF Occupes
  <2>3. from' \in Nat /\ to' \in Int /\ from' - 1 <= to' /\ to' < nb_debugged_files'
    BY <1>1, <2>1
  <2> QED  BY <1>1, <2>2, <2>3 DEF IInv, TypeOK
<1>3. Triee' /\ Occupes' = Occupes /\ Contenu' = Contenu
  BY <1>1 DEF IInv, Triee, Occupes, Contenu
<1>4. Entoure'
  <2>1. nb_debugged_files \in Nat
    BY DEF IInv, TypeOK
  <2> QED  BY <1>1, <2>1 DEF Entoure, Occupes
<1>5. TableComplete'
  BY <1>1, <1>3 DEF IInv, TableComplete, Chercher
<1>6. RechercheExacte'
  BY <1>1 DEF RechercheExacte
<1> QED  BY <1>2, <1>3, <1>4, <1>5, <1>6 DEF IInv

LEMMA TourConserve ==
  ASSUME IInv, Tour
  PROVE  IInv'
<1> USE NomsAssumption
<1>1. /\ etape = "recherche" /\ from < to
      /\ debugged_files' = debugged_files /\ nb_debugged_files' = nb_debugged_files
      /\ name' = name /\ demandes' = demandes /\ appels' = appels
  BY DEF Tour, table
<1>2. /\ from \in Nat /\ to \in Int /\ to < nb_debugged_files
      /\ name \in Noms /\ nb_debugged_files \in Nat
  BY <1>1 DEF IInv, TypeOK
<1>3. PICK m : m = Milieu
  OBVIOUS
<1>4. m \in Int /\ from <= m /\ m < to
  BY <1>1, <1>2, <1>3, MilieuEntre DEF Milieu
<1>5. m \in Occupes /\ \A k \in Occupes : k \in Int /\ debugged_files[k] \in Nat
  <2>1. m \in Occupes
    BY <1>2, <1>4 DEF Occupes
  <2>2. \A k \in Occupes : k \in Int /\ debugged_files[k] \in Noms
    BY DEF IInv, TypeOK, Occupes
  <2> QED  BY <2>1, <2>2
<1>6. Triee' /\ TableComplete'
  BY <1>1 DEF IInv, Triee, TableComplete, Occupes, Contenu, Tour
<1>7. CASE debugged_files[m] < name /\ from' = Apres /\ UNCHANGED <<to, etape, resultat>>
  <2>1. from' = m + 1
    BY <1>3, <1>7 DEF Apres
  <2>2. TypeOK'
    BY <1>1, <1>2, <1>4, <1>7, <2>1 DEF IInv, TypeOK, Occupes
  <2>3. Entoure'
    <3> SUFFICES ASSUME NEW k \in Occupes, debugged_files[k] = name
                 PROVE  m + 1 <= k /\ k <= to
      BY <1>1, <1>7, <2>1 DEF Entoure, Occupes
    <3>1. k <= to /\ k \in Int /\ k # m
      BY <1>1, <1>2, <1>5, <1>7 DEF IInv, Entoure
    <3>2. ~ (k < m)
      BY <1>2, <1>5, <1>7 DEF IInv, Triee
    <3> QED  BY <1>4, <3>1, <3>2
  <2>4. RechercheExacte'
    BY <1>1, <1>7 DEF RechercheExacte
  <2> QED  BY <1>6, <2>2, <2>3, <2>4 DEF IInv
<1>8. CASE debugged_files[m] > name /\ to' = Avant /\ UNCHANGED <<from, etape, resultat>>
  <2>1. to' = m - 1
    BY <1>3, <1>8 DEF Avant
  <2>2. TypeOK'
    BY <1>1, <1>2, <1>4, <1>8, <2>1 DEF IInv, TypeOK, Occupes
  <2>3. Entoure'
    <3> SUFFICES ASSUME NEW k \in Occupes, debugged_files[k] = name
                 PROVE  from <= k /\ k <= m - 1
      BY <1>1, <1>8, <2>1 DEF Entoure, Occupes
    <3>1. from <= k /\ k \in Int /\ k # m
      BY <1>1, <1>2, <1>5, <1>8 DEF IInv, Entoure
    <3>2. ~ (m < k)
      BY <1>2, <1>5, <1>8 DEF IInv, Triee
    <3> QED  BY <1>4, <3>1, <3>2
  <2>4. RechercheExacte'
    BY <1>1, <1>8 DEF RechercheExacte
  <2> QED  BY <1>6, <2>2, <2>3, <2>4 DEF IInv
<1>9. CASE /\ debugged_files[m] = name /\ resultat' = TRUE
           /\ etape' = "reponse" /\ UNCHANGED <<from, to>>
  <2>1. TypeOK'
    BY <1>1, <1>2, <1>9 DEF IInv, TypeOK, Occupes
  <2>2. RechercheExacte'
    BY <1>1, <1>5, <1>9 DEF RechercheExacte, Contenu, Occupes
  <2>3. Entoure'
    BY <1>9 DEF Entoure
  <2> QED  BY <1>6, <2>1, <2>2, <2>3 DEF IInv
<1> QED  BY <1>3, <1>7, <1>8, <1>9 DEF Tour

LEMMA ResteConserve ==
  ASSUME IInv, Reste
  PROVE  IInv'
<1> USE NomsAssumption
<1>1. /\ etape = "recherche" /\ from >= to /\ etape' = "reponse"
      /\ resultat' = (from = to /\ debugged_files[from] = name)
      /\ UNCHANGED <<debugged_files, nb_debugged_files, name, from, to, demandes, appels>>
  BY DEF Reste, table
<1>2. /\ from \in Nat /\ to \in Int /\ from - 1 <= to /\ to < nb_debugged_files
      /\ nb_debugged_files \in Nat
  BY <1>1 DEF IInv, TypeOK
<1>3. resultat' <=> name \in Contenu
  <2>1. ASSUME from = to, debugged_files[from] = name
        PROVE  name \in Contenu
    <3>1. from \in Occupes
      BY <1>2, <2>1 DEF Occupes
    <3> QED  BY <2>1, <3>1 DEF Contenu
  <2>2. ASSUME name \in Contenu
        PROVE  from = to /\ debugged_files[from] = name
    <3>1. PICK k \in Occupes : debugged_files[k] = name
      BY <2>2 DEF Contenu
    <3>2. from <= k /\ k <= to /\ k \in Int
      BY <1>1, <1>2, <3>1 DEF IInv, Entoure, Occupes
    <3>3. k = from /\ from = to
      BY <1>1, <1>2, <3>2
    <3> QED  BY <3>1, <3>3
  <2> QED  BY <1>1, <2>1, <2>2, Zenon
<1>4. TypeOK'
  <2>1. resultat' \in BOOLEAN
    BY <1>1, Zenon
  <2> QED  BY <1>1, <2>1 DEF IInv, TypeOK, Occupes
<1>5. Triee' /\ TableComplete' /\ Contenu' = Contenu
  BY <1>1 DEF IInv, Triee, TableComplete, Occupes, Contenu
<1>6. RechercheExacte'
  BY <1>1, <1>3, <1>5, Zenon DEF RechercheExacte
<1>7. Entoure'
  BY <1>1 DEF Entoure
<1> QED  BY <1>4, <1>5, <1>6, <1>7 DEF IInv

LEMMA PasConserve == IInv /\ [Next]_vars => IInv'
<1> SUFFICES ASSUME IInv, [Next]_vars PROVE IInv'
  OBVIOUS
<1>1. CASE \E n \in Noms : add_debug_to(n)
  BY <1>1, AjoutConserve
<1>2. CASE \E n \in Noms : Chercher(n)
  BY <1>2, ChercheConserve
<1>3. CASE Tour
  BY <1>3, TourConserve
<1>4. CASE Reste
  BY <1>4, ResteConserve
<1>5. CASE Retour
  BY <1>5 DEF Retour, table, recherche, IInv, TypeOK, Triee, Entoure,
    TableComplete, RechercheExacte, Contenu, Occupes
<1>6. CASE UNCHANGED vars
  BY <1>6 DEF vars, table, recherche, IInv, TypeOK, Triee, Entoure,
    TableComplete, RechercheExacte, Contenu, Occupes
<1> QED  BY <1>1, <1>2, <1>3, <1>4, <1>5, <1>6 DEF Next

LEMMA Invariant == Spec => []IInv
BY Initialement, PasConserve, PTL DEF Spec

-----------------------------------------------------------------------------
(***************************************************************************)
(* __is_debugged (debug.c:47-65) says yes exactly to the names that are in *)
(* the table, however large it is and whatever was added before.           *)
(***************************************************************************)
THEOREM RechercheToujoursExacte == Spec => []RechercheExacte
<1>1. IInv => RechercheExacte
  BY DEF IInv
<1> QED  BY <1>1, Invariant, PTL

(***************************************************************************)
(* add_debug_to (debug.c:32-45) keeps every name of up to MAX_FILES_NUMBER *)
(* calls and does not write behind the table.                              *)
(***************************************************************************)
THEOREM TableToujoursComplete == Spec => []TableComplete
<1>1. IInv => TableComplete
  BY DEF IInv
<1> QED  BY <1>1, Invariant, PTL

(***************************************************************************)
(* The searches read filled places only (the bounds in TypeOK).            *)
(***************************************************************************)
THEOREM TypesCorrects == Spec => []TypeOK
<1>1. IInv => TypeOK
  BY DEF IInv
<1> QED  BY <1>1, Invariant, PTL
=============================================================================
