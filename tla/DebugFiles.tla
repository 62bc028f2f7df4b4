----------------------------- MODULE DebugFiles -----------------------------
(***************************************************************************)
(* debug.c: the table of the source files whose debug messages are shown.  *)
(* add_debug_to keeps it sorted, __is_debugged searches it by halves, one  *)
(* turn of its loop per step.  main (ARM_runner_example.c) fills it from   *)
(* its --debug options, and every debug() of the program searches it;      *)
(* debug.h allows searches while there are options left.                   *)
(*                                                                         *)
(* A name is a number: strcmp orders names as numbers are ordered.         *)
(***************************************************************************)
EXTENDS Integers

CONSTANTS
  Noms,               \* the names of files
  MAX_FILES_NUMBER,   \* size of the table (64)
  MaxAppels           \* bound: calls of add_debug_to

ASSUME NomsAssumption ==
  /\ Noms \subseteq Nat
  /\ MAX_FILES_NUMBER \in Nat \ {0} /\ MaxAppels \in Nat

VARIABLES
  debugged_files, nb_debugged_files,
  etape,               \* "libre", "recherche", "reponse", or "deborde"
  name, from, to,      \* of the search
  resultat,            \* what it returned
  demandes, appels     \* the names add_debug_to was called with, and how often

table     == <<debugged_files, nb_debugged_files>>
recherche == <<name, from, to, resultat>>
vars      == <<table, etape, recherche, demandes, appels>>

NULL == -1

Rangs == 0 .. MAX_FILES_NUMBER - 1

-----------------------------------------------------------------------------
Init ==
  /\ debugged_files = [i \in Rangs |-> NULL] /\ nb_debugged_files = 0
  /\ etape = "libre"
  /\ name = NULL /\ from = 0 /\ to = -1 /\ resultat = FALSE
  /\ demandes = {} /\ appels = 0

(***************************************************************************)
(* The place of a new name: in front of the first one that is not smaller, *)
(* or behind the last.                                                     *)
(***************************************************************************)
EstRang(i, n) ==
  /\ i \in 0 .. nb_debugged_files
  /\ \A k \in 0 .. i - 1 : debugged_files[k] < n
  /\ i < nb_debugged_files => debugged_files[i] >= n

InsereFautif(i, n) ==   \* a shift from the front copies the same name all along
  [k \in Rangs |-> IF k < i THEN debugged_files[k]
                   ELSE IF k = i \/ nb_debugged_files = i THEN n
                   ELSE IF k <= nb_debugged_files THEN debugged_files[i]
                   ELSE debugged_files[k]]

Insere(i, n) ==
  [k \in Rangs |-> IF k < i THEN debugged_files[k]
                   ELSE IF k = i THEN n
                   ELSE IF k <= nb_debugged_files THEN debugged_files[k - 1]
                   ELSE debugged_files[k]]

(***************************************************************************)
(* A name behind all of a full table is dropped.  In front of one, the     *)
(* shift writes behind the table; what comes then is undefined.            *)
(***************************************************************************)
AjouterEn(i, n) ==
  IF i >= MAX_FILES_NUMBER THEN UNCHANGED <<table, etape>>
  ELSE IF nb_debugged_files >= MAX_FILES_NUMBER
    THEN etape' = "deborde" /\ UNCHANGED table
  ELSE /\ debugged_files' = Insere(i, n)
       /\ nb_debugged_files' = nb_debugged_files + 1
       /\ etape' = etape

add_debug_to(n) ==
  /\ etape = "libre" /\ appels < MaxAppels
  /\ demandes' = demandes \union {n} /\ appels' = appels + 1
  /\ \E i \in 0 .. nb_debugged_files : EstRang(i, n) /\ AjouterEn(i, n)
  /\ UNCHANGED recherche

-----------------------------------------------------------------------------
(***************************************************************************)
(* __is_debugged(n).                                                       *)
(***************************************************************************)
DernierFautif == nb_debugged_files - 2

Dernier == nb_debugged_files - 1

Chercher(n) ==
  /\ etape = "libre"
  /\ etape' = "recherche" /\ name' = n /\ from' = 0 /\ to' = Dernier
  /\ resultat' = FALSE
  /\ UNCHANGED <<table, demandes, appels>>

Milieu == (from + to) \div 2

ApresFautif == Milieu   \* from = middle

Apres == Milieu + 1

AvantFautif == Milieu - 2

Avant == Milieu - 1

Tour ==
  /\ etape = "recherche" /\ from < to
  /\ \/ /\ debugged_files[Milieu] < name
        /\ from' = Apres /\ UNCHANGED <<to, etape, resultat>>
     \/ /\ debugged_files[Milieu] > name
        /\ to' = Avant /\ UNCHANGED <<from, etape, resultat>>
     \/ /\ debugged_files[Milieu] = name
        /\ resultat' = TRUE /\ etape' = "reponse" /\ UNCHANGED <<from, to>>
  /\ UNCHANGED <<table, name, demandes, appels>>

Reste ==
  /\ etape = "recherche" /\ from >= to
  /\ resultat' = (from = to /\ debugged_files[from] = name)
  /\ etape' = "reponse"
  /\ UNCHANGED <<table, name, from, to, demandes, appels>>

Retour ==   \* the caller has the answer
  /\ etape = "reponse" /\ etape' = "libre"
  /\ UNCHANGED <<table, recherche, demandes, appels>>

Next ==
  \/ \E n \in Noms : add_debug_to(n) \/ Chercher(n)
  \/ Tour \/ Reste \/ Retour

Spec == Init /\ [][Next]_vars

(***************************************************************************)
(* A search is a loop of a sequential program: it runs on.                 *)
(***************************************************************************)
FairSpec == Spec /\ WF_vars(Tour \/ Reste)

-----------------------------------------------------------------------------
Occupes == 0 .. nb_debugged_files - 1

Contenu == {debugged_files[i] : i \in Occupes}

(***************************************************************************)
(* Types, and no search reads a place nobody filled: the places it reads,  *)
(* Milieu and in the end from, are between from and to.                    *)
(***************************************************************************)
TypeOK ==
  /\ nb_debugged_files \in 0 .. MAX_FILES_NUMBER
  /\ debugged_files \in [Rangs -> Noms \union {NULL}]
  /\ \A i \in Occupes : debugged_files[i] \in Noms
  /\ etape \in {"libre", "recherche", "reponse", "deborde"}
  /\ name \in Noms \union {NULL} /\ resultat \in BOOLEAN
  /\ etape = "recherche" => /\ name \in Noms /\ from \in Nat
                            /\ to \in Int /\ from - 1 <= to /\ to < nb_debugged_files
  /\ demandes \subseteq Noms /\ appels \in 0 .. MaxAppels

(***************************************************************************)
(* Up to MAX_FILES_NUMBER names are all kept, the same name twice too, and *)
(* the table does not overflow.                                            *)
(***************************************************************************)
TableComplete ==
  appels <= MAX_FILES_NUMBER =>
    etape # "deborde" /\ nb_debugged_files = appels /\ Contenu = demandes

(***************************************************************************)
(* A search finds the names that are in the table, and no other.           *)
(***************************************************************************)
RechercheExacte == etape = "reponse" => (resultat <=> name \in Contenu)

(***************************************************************************)
(* Every search answers.                                                   *)
(***************************************************************************)
RechercheFinit == etape = "recherche" ~> etape = "reponse"
=============================================================================
