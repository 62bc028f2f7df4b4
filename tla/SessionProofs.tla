--------------------------- MODULE SessionProofs ---------------------------
(***************************************************************************)
(* Sessions of the gdb client with the simulator, for programs, numbers of *)
(* addresses, error buffers and amounts of damage of any size.             *)
(***************************************************************************)
EXTENDS SessionGdb, TLAPS, FiniteSetTheorems

(***************************************************************************)
(* What the actions do to a sequence of tokens keeps it one.               *)
(***************************************************************************)
LEMMA FileQueue ==
  ASSUME NEW S, NEW s \in Seq(S), s # <<>>
  PROVE  Head(s) \in S /\ Tail(s) \in Seq(S) /\ Head(s) = s[1]
OBVIOUS

LEMMA FileSuite ==
  ASSUME NEW S, NEW s \in Seq(S), NEW t \in Seq(S)
  PROVE  s \o t \in Seq(S)
OBVIOUS

LEMMA FileUn ==
  ASSUME NEW S, NEW x \in S
  PROVE  <<x>> \in Seq(S)
OBVIOUS

LEMMA FileVide == ASSUME NEW S PROVE <<>> \in Seq(S)
OBVIOUS

LEMMA FileChange ==
  ASSUME NEW S, NEW s \in Seq(S), NEW i \in DOMAIN s, NEW x \in S
  PROVE  [s EXCEPT ![i] = x] \in Seq(S)
OBVIOUS

LEMMA FileDebut ==
  ASSUME NEW S, NEW s \in Seq(S), NEW k \in 0 .. Len(s)
  PROVE  SubSeq(s, 1, k) \in Seq(S)
OBVIOUS

LEMMA FileFonction ==
  ASSUME NEW S, NEW s \in Seq(S)
  PROVE  s = [i \in 1 .. Len(s) |-> s[i]]
OBVIOUS

LEMMA FileElement ==
  ASSUME NEW S, NEW s \in Seq(S), NEW i \in DOMAIN s
  PROVE  s[i] \in S
OBVIOUS

LEMMA SigneJeton == Signe("+") \in Jetons /\ Signe("-") \in Jetons
BY DEF Jetons

LEMMA PaquetJeton ==
  ASSUME NEW n \in 1 .. Len(Programme)
  PROVE  Paquet(n) \in Jetons
BY DEF Jetons, Paquet

LEMMA BruitJeton ==
  ASSUME NEW n \in 1 .. Trame + 1
  PROVE  Bruit(n) \in Jetons
BY DEF Jetons

LEMMA PaquetLu ==
  ASSUME NEW j \in Jetons, j.sorte = "paquet"
  PROVE  j.n \in 1 .. Len(Programme) /\ [j EXCEPT !.juste = FALSE] \in Jetons
<1>1. j \in [sorte : {"paquet"}, n : 1 .. Len(Programme), juste : BOOLEAN]
  BY DEF Jetons, Signe, Bruit
<1> QED
  BY <1>1 DEF Jetons

LEMMA BruitLu ==
  ASSUME NEW j \in Jetons, j.sorte = "bruit"
  PROVE  j.n \in 1 .. Trame + 1 /\ (j.n > 1 => Bruit(j.n - 1) \in Jetons)
<1>1. PICK k \in 1 .. Trame + 1 : j = Bruit(k)
  BY DEF Jetons, Signe
<1>2. j.n = k
  BY <1>1 DEF Bruit
<1>3. k > 1 => k - 1 \in 1 .. Trame + 1
  BY LigneAssumption
<1> QED
  BY <1>2, <1>3, BruitJeton

-----------------------------------------------------------------------------
(***************************************************************************)
(* The types, in the parts an action touches together.                     *)
(***************************************************************************)
TClient ==
  /\ phase \in Phases /\ rp \in 1 .. Adresses
  /\ commande \in 1 .. Len(Programme) /\ packet \in 0 .. Len(Programme)
  /\ len \in 0 .. MAX_ERROR_SIZE - 1
  /\ phase = "attente" => packet = commande
  /\ phase = "connexion" => commande = 1 /\ packet = 0

TLien == versSim \in Seq(Jetons) /\ versClient \in Seq(Jetons)

TSim ==
  /\ ecoute \in 0 .. Adresses /\ ouvert \in BOOLEAN
  /\ journal \in Seq(1 .. Len(Programme)) /\ reponse \in 0 .. Len(Programme)
  /\ texte \in BOOLEAN /\ marche \in BOOLEAN

TAlteres == alteres \in [Degats -> 0 .. MaxAlterations]

TInv == TClient /\ TLien /\ TSim /\ TAlteres

LEMMA TInvType == TInv => TypeOK
BY DEF TInv, TClient, TLien, TSim, TAlteres, TypeOK

LEMMA TInit == Init => TInv
<1> SUFFICES ASSUME Init PROVE TInv
  OBVIOUS
<1>1. Len(Programme) \in Nat /\ Len(Programme) >= 1
  BY ProgrammeAssumption
<1>2. TClient
  BY <1>1, ProgrammeAssumption DEF Init, TClient, Phases
<1>3. TLien /\ TSim
  <2>1. TLien
    BY FileVide DEF Init, TLien
  <2>2. journal \in Seq(1 .. Len(Programme))
    BY FileVide DEF Init
  <2>3. Adresses \in Nat
    BY ProgrammeAssumption
  <2>4. 0 \in 0 .. Adresses /\ 0 \in 0 .. Len(Programme)
    BY <1>1, <2>3
  <2> QED
    BY <2>1, <2>2, <2>4, Zenon DEF Init, TSim
<1>4. TAlteres
  BY LigneAssumption DEF Init, TAlteres
<1> QED
  BY <1>2, <1>3, <1>4 DEF TInv

(***************************************************************************)
(* What Rio_writen leaves on the line.                                     *)
(***************************************************************************)
LEMMA EcrireType ==
  ASSUME NEW jetons \in Seq(Jetons), NEW suite, TLien, Ecrire(jetons, suite)
  PROVE  versSim' \in Seq(Jetons) /\ phase' \in {suite, "rompu"}
BY FileSuite DEF Ecrire, TLien

LEMMA PlainteType == Plainte \in Seq(Jetons)
BY SigneJeton, FileUn, FileVide DEF Plainte

LEMMA RecuType ==
  ASSUME NEW s, TInv, Recu(s)
  PROVE  /\ versClient' \in Seq(Jetons) /\ Head(versClient) \in Jetons
         /\ phase = "attente" /\ packet = commande
         /\ UNCHANGED <<rp, ecoute, ouvert>>
BY FileQueue DEF Recu, TInv, TClient, TLien

LEMMA TypesClient ==
  ASSUME TInv, NextClient, UNCHANGED <<simulateur, alteres>>
  PROVE  TInv'
<1>0. TSim' /\ TAlteres' <=> ecoute' \in 0 .. Adresses /\ ouvert' \in BOOLEAN
  BY DEF TInv, TSim, TAlteres, simulateur
<1>1. CASE Connecter
  <2>1. Len(Programme) \in Nat /\ Adresses \in Nat
    BY ProgrammeAssumption
  <2>2. TClient'
    BY <1>1, <2>1 DEF Connecter, TInv, TClient, Phases
  <2> QED
    BY <1>0, <1>1, <2>2 DEF Connecter, TInv, TLien, TSim, lien
<1>2. CASE Envoyer
  <2>1. <<Paquet(commande)>> \in Seq(Jetons)
    BY PaquetJeton, FileUn DEF TInv, TClient
  <2>2. versSim' \in Seq(Jetons) /\ phase' \in {"attente", "rompu"}
    BY <1>2, <2>1, EcrireType DEF Envoyer, TInv, SuiteEnvoi
  <2>3. TClient'
    BY <1>2, <2>2 DEF Envoyer, TInv, TClient, Phases
  <2> QED
    BY <1>0, <1>2, <2>2, <2>3 DEF Envoyer, TInv, TLien, TSim
<1>3. ASSUME NEW s, Recu(s), len' = 0, versSim' \in Seq(Jetons), phase' \in Phases,
             packet' = packet, commande' \in 1 .. Len(Programme),
             phase' = "attente" => commande' = commande,
             phase' # "connexion"
      PROVE  TInv'
  <2>1. TClient'
    BY <1>3, RecuType, ProgrammeAssumption DEF TInv, TClient
  <2> QED
    BY <1>0, <1>3, <2>1, RecuType DEF TInv, TLien, TSim
<1>4. CASE LireAccuse
  <2>1. versSim' \in Seq(Jetons) /\ phase' \in {"attente", "rompu"}
    BY <1>4, PlainteType, EcrireType DEF LireAccuse, TInv
  <2> QED
    BY <1>3, <1>4, <2>1 DEF LireAccuse, TInv, TClient, Phases
<1>5. CASE LireDemande
  <2>1. packet \in 1 .. Len(Programme)
    BY <1>5, RecuType DEF LireDemande, TInv, TClient
  <2>2. Plainte \o Retransmet(packet) \in Seq(Jetons)
    BY <2>1, PaquetJeton, FileUn, FileSuite, PlainteType DEF Retransmet
  <2>3. versSim' \in Seq(Jetons) /\ phase' \in {"attente", "rompu"}
    BY <1>5, <2>2, EcrireType DEF LireDemande, TInv
  <2> QED
    BY <1>3, <1>5, <2>3 DEF LireDemande, TInv, TClient, Phases
<1>6. CASE LireReponse
  <2>1. \A c \in {"+", "-"} : Plainte \o <<Signe(c)>> \in Seq(Jetons)
    BY SigneJeton, FileUn, FileSuite, PlainteType
  <2>2. CASE Accepte(Head(versClient))
    <3>1. Ecrire(Plainte \o <<Signe("+")>>, PhaseApres(FALSE)) /\ commande' = CommandeApres(FALSE)
      BY <1>6, <2>2 DEF LireReponse
    <3>2. versSim' \in Seq(Jetons) /\ phase' \in {PhaseApres(FALSE), "rompu"}
      BY <2>1, <3>1, EcrireType DEF TInv
    <3>3. commande' \in 1 .. Len(Programme)
      BY <3>1, ProgrammeAssumption DEF CommandeApres, Derniere, TInv, TClient
    <3> QED
      BY <1>3, <1>6, <3>2, <3>3 DEF LireReponse, PhaseApres, Phases
  <2>3. CASE ~Accepte(Head(versClient))
    <3>1. Ecrire(Plainte \o <<Signe("-")>>, "attente") /\ commande' = commande
      BY <1>6, <2>3 DEF LireReponse
    <3>2. versSim' \in Seq(Jetons) /\ phase' \in {"attente", "rompu"}
      BY <2>1, <3>1, EcrireType DEF TInv
    <3> QED
      BY <1>3, <1>6, <3>1, <3>2 DEF LireReponse, Phases, TInv, TClient
  <2> QED
    BY <2>2, <2>3
<1>7. CASE LireBruit
  <2>1. versClient \in Seq(Jetons) /\ versClient # <<>> /\ Head(versClient).sorte = "bruit"
    BY <1>7 DEF LireBruit, TInv, TLien
  <2>2. Head(versClient) \in Jetons /\ Tail(versClient) \in Seq(Jetons)
    BY <2>1, FileQueue
  <2>3. versClient' \in Seq(Jetons)
    <3>1. CASE Head(versClient).n > 1
      BY <1>7, <2>1, <2>2, <3>1, BruitLu, FileUn, FileSuite DEF LireBruit
    <3>2. CASE ~(Head(versClient).n > 1)
      BY <1>7, <2>2, <3>2 DEF LireBruit
    <3> QED
      BY <3>1, <3>2
  <2>4. versSim' \in Seq(Jetons) /\ phase' \in {"attente", "rompu"} /\ len' \in 0 .. MAX_ERROR_SIZE - 1
    <3>1. CASE TamponPlein
      BY <1>7, <3>1, PlainteType, EcrireType, ProgrammeAssumption DEF LireBruit, TInv
    <3>2. CASE ~TamponPlein
      BY <1>7, <3>2, ProgrammeAssumption DEF LireBruit, TamponPlein, TInv, TClient, TLien
    <3> QED
      BY <3>1, <3>2
  <2>5. TClient'
    BY <1>7, <2>4 DEF LireBruit, TInv, TClient, Phases
  <2> QED
    BY <1>0, <1>7, <2>3, <2>4, <2>5 DEF LireBruit, TInv, TLien, TSim
<1>8. CASE LireFin
  <2>1. versSim' \in Seq(Jetons) /\ phase' \in {PhaseApres(TRUE), "rompu"}
    BY <1>8, PlainteType, EcrireType DEF LireFin, TInv
  <2>2. commande' \in 1 .. Len(Programme)
    BY <1>8, ProgrammeAssumption DEF LireFin, CommandeApres, Derniere, TInv, TClient
  <2>3. phase' \in {"fini", "envoi", "rompu"}
    BY <2>1 DEF PhaseApres
  <2>4. UNCHANGED <<rp, packet>> /\ len' = 0
    BY <1>8 DEF LireFin
  <2>5. TClient'
    BY <2>2, <2>3, <2>4, ProgrammeAssumption DEF TInv, TClient, Phases
  <2> QED
    BY <1>0, <1>8, <2>1, <2>5 DEF LireFin, TInv, TLien, TSim
<1>9. CASE LireRompu
  <2>1. TClient'
    BY <1>9 DEF LireRompu, TInv, TClient, Phases
  <2> QED
    BY <1>0, <1>9, <2>1 DEF LireRompu, TInv, TLien, TSim, lien
<1> QED
  BY <1>1, <1>2, <1>4, <1>5, <1>6, <1>7, <1>8, <1>9 DEF NextClient, Lire

LEMMA TypesSimulateur ==
  ASSUME TInv, Simulateur \/ SimEcoute \/ SimPanne
  PROVE  TInv'
<1>1. TClient' <=> TClient
  <2>1. UNCHANGED client
    BY DEF Simulateur, SimCommande, SimRefuse, SimAccuse, SimDemande, SimBruit, SimFin, SimLit,
           SimEcoute, SimPanne
  <2> QED
    BY <2>1 DEF client, TClient
<1>2. UNCHANGED alteres
  BY DEF Simulateur, SimCommande, SimRefuse, SimAccuse, SimDemande, SimBruit, SimFin, SimLit,
         SimEcoute, SimPanne
<1>3. ASSUME NEW s, SimLit(s)
      PROVE  /\ Head(versSim) \in Jetons /\ Head(versSim).sorte = s
             /\ versSim' \in Seq(Jetons) /\ UNCHANGED <<ecoute, ouvert>>
  BY <1>3, FileQueue DEF SimLit, TInv, TLien
<1>4. SimPlainte \in Seq(Jetons)
  BY SigneJeton, FileUn, FileVide DEF SimPlainte
<1>5. CASE SimCommande
  <2> DEFINE n == Head(versSim).n
  <2>1. n \in 1 .. Len(Programme)
    BY <1>3, <1>5, PaquetLu DEF SimCommande
  <2>2. journal' = Append(journal, n) /\ marche' \in BOOLEAN
        /\ (reponse' = reponse \/ reponse' = n) /\ texte' = FALSE
    BY <1>5 DEF SimCommande
  <2>3. journal' \in Seq(1 .. Len(Programme))
    BY <2>1, <2>2 DEF TInv, TSim
  <2>4. versClient' \in Seq(Jetons)
    <3> DEFINE fin == IF marche' THEN <<>> ELSE <<Paquet(n)>>
    <3>1. fin \in Seq(Jetons)
      BY <2>1, PaquetJeton, FileUn, FileVide
    <3>2. <<Signe("+")>> \in Seq(Jetons)
      BY SigneJeton, FileUn
    <3>3. versClient' = versClient \o SimPlainte \o <<Signe("+")>> \o fin
      BY <1>5 DEF SimCommande
    <3> HIDE DEF fin
    <3> QED
      BY <1>4, <3>1, <3>2, <3>3, FileSuite DEF TInv, TLien
  <2>5. versSim' \in Seq(Jetons) /\ UNCHANGED <<ecoute, ouvert>>
    BY <1>3, <1>5 DEF SimCommande
  <2>6. reponse' \in 0 .. Len(Programme)
    BY <2>1, <2>2, ProgrammeAssumption DEF TInv, TSim
  <2> HIDE DEF n
  <2> QED
    BY <1>1, <1>2, <2>2, <2>3, <2>4, <2>5, <2>6 DEF TInv, TLien, TSim, TAlteres
<1>6. ASSUME NEW s, SimLit(s), UNCHANGED <<journal, reponse, marche>>, texte' \in BOOLEAN,
             versClient' \in Seq(Jetons)
      PROVE  TInv'
  BY <1>1, <1>2, <1>3, <1>6 DEF TInv, TLien, TSim, TAlteres
<1>7. CASE SimRefuse
  <2>1. versClient' \in Seq(Jetons)
    <3>1. <<Signe("-")>> \in Seq(Jetons)
      BY SigneJeton, FileUn
    <3> QED
      BY <1>4, <1>7, <3>1, FileSuite DEF SimRefuse, TInv, TLien
  <2> QED
    BY <1>6, <1>7, <2>1 DEF SimRefuse
<1>8. CASE SimAccuse
  <2>1. versClient' \in Seq(Jetons)
    BY <1>4, <1>8, FileSuite DEF SimAccuse, TInv, TLien
  <2> QED
    BY <1>6, <1>8, <2>1 DEF SimAccuse
<1>9. CASE SimDemande
  <2>1. versClient' \in Seq(Jetons)
    <3> DEFINE fin == IF reponse = 0 THEN <<>> ELSE <<Paquet(reponse)>>
    <3>1. fin \in Seq(Jetons)
      BY PaquetJeton, FileUn, FileVide, ProgrammeAssumption DEF TInv, TSim
    <3>2. versClient' = versClient \o SimPlainte \o fin
      BY <1>9 DEF SimDemande
    <3> HIDE DEF fin
    <3> QED
      BY <1>4, <3>1, <3>2, FileSuite DEF TInv, TLien
  <2> QED
    BY <1>6, <1>9, <2>1 DEF SimDemande
<1>10. CASE SimBruit
  BY <1>6, <1>10 DEF SimBruit, TInv, TLien
<1>11. CASE SimFin
  BY <1>1, <1>11 DEF SimFin, lien, TInv, TLien, TSim, TAlteres
<1>12. CASE SimEcoute
  BY <1>1, <1>12, ProgrammeAssumption DEF SimEcoute, lien, simulateur, TInv, TLien, TSim, TAlteres
<1>13. CASE SimPanne
  <2>1. versClient' \in Seq(Jetons) /\ versSim' \in Seq(Jetons)
    BY <1>13, FileDebut DEF SimPanne, TInv, TLien
  <2>2. 0 \in 0 .. Adresses
    BY ProgrammeAssumption
  <2>3. UNCHANGED <<journal, reponse, texte>> /\ ecoute' = 0 /\ ouvert' = FALSE /\ marche' = FALSE
    BY <1>13 DEF SimPanne
  <2>4. TSim'
    BY <2>2, <2>3, Zenon DEF TInv, TSim
  <2> QED
    BY <1>1, <1>2, <2>1, <2>4 DEF TInv, TLien, TAlteres
<1> QED
  BY <1>5, <1>7, <1>8, <1>9, <1>10, <1>11, <1>12, <1>13 DEF Simulateur

-----------------------------------------------------------------------------
(***************************************************************************)
(* Damage to one token: which one, what becomes of it, and which counter.  *)
(***************************************************************************)
Degat(canal, suivant, i, d, jeton) ==
  /\ i \in DOMAIN canal /\ jeton \in Jetons /\ d \in Degats
  /\ suivant = [canal EXCEPT ![i] = jeton]
  /\ alteres' = [alteres EXCEPT ![d] = @ + 1]
  /\ alteres[d] < MaxAlterations

LEMMA Total ==
  ASSUME TAlteres, Alterations < MaxAlterations, NEW d \in Degats
  PROVE  alteres[d] < MaxAlterations
BY LigneAssumption DEF TAlteres, Alterations, Degats

(***************************************************************************)
(* The kinds of damage, one by one.                                        *)
(***************************************************************************)
LEMMA CasDegats ==
  ASSUME TInv, AltererCommande \/ AltererReponse \/ AltererSigne
  PROVE  /\ UNCHANGED <<client, ecoute, ouvert, simulateur>>
         /\ \/ /\ UNCHANGED versClient
               /\ \E i \in DOMAIN versSim :
                    \/ /\ versSim[i].sorte = "paquet" /\ versSim[i].juste
                       /\ \/ Degat(versSim, versSim', i, "commande",
                                   [versSim[i] EXCEPT !.juste = FALSE])
                          \/ Trame > 0 /\ Degat(versSim, versSim', i, "debut", Bruit(Trame))
                    \/ /\ versSim[i].sorte \in {"+", "-"}
                       /\ Degat(versSim, versSim', i, "signeSim", Bruit(1))
            \/ /\ UNCHANGED versSim
               /\ \E i \in DOMAIN versClient :
                    \/ /\ versClient[i].sorte = "paquet" /\ versClient[i].juste
                       /\ \/ Degat(versClient, versClient', i, "reponse",
                                   [versClient[i] EXCEPT !.juste = FALSE])
                          \/ Trame > 0 /\ Degat(versClient, versClient', i, "debut", Bruit(Trame))
                    \/ /\ versClient[i].sorte \in {"+", "-"}
                       /\ Degat(versClient, versClient', i, "signeClient", Bruit(1))
<1>1. \A d \in Degats : Alterations < MaxAlterations => alteres[d] < MaxAlterations
  BY Total DEF TInv
<1>2. {"commande", "reponse", "debut", "signeSim", "signeClient"} \subseteq Degats
  BY DEF Degats
<1>3. (Trame > 0 => Bruit(Trame) \in Jetons) /\ Bruit(1) \in Jetons
  BY BruitJeton, LigneAssumption
<1>4. ASSUME NEW s \in Seq(Jetons), NEW i \in DOMAIN s, s[i].sorte = "paquet"
      PROVE  [s[i] EXCEPT !.juste = FALSE] \in Jetons
  BY <1>4, FileElement, PaquetLu
<1>5. CASE AltererCommande
  <2>1. PICK i \in DOMAIN versSim :
          /\ versSim[i].sorte = "paquet" /\ versSim[i].juste
          /\ \/ Endommage(versSim, i, "commande", [versSim[i] EXCEPT !.juste = FALSE])
             \/ Trame > 0 /\ Endommage(versSim, i, "debut", Bruit(Trame))
    BY <1>5 DEF AltererCommande
  <2>2. [versSim[i] EXCEPT !.juste = FALSE] \in Jetons
    BY <1>4, <2>1 DEF TInv, TLien
  <2>3. UNCHANGED <<client, ecoute, ouvert, versClient, simulateur>>
    BY <1>5 DEF AltererCommande
  <2>4. \/ Degat(versSim, versSim', i, "commande", [versSim[i] EXCEPT !.juste = FALSE])
        \/ Trame > 0 /\ Degat(versSim, versSim', i, "debut", Bruit(Trame))
    BY <1>1, <1>2, <1>3, <2>1, <2>2 DEF Endommage, Degat
  <2> QED
    BY <2>1, <2>3, <2>4
<1>6. CASE AltererReponse
  <2>1. PICK i \in DOMAIN versClient :
          /\ versClient[i].sorte = "paquet" /\ versClient[i].juste
          /\ \/ Endommage(versClient, i, "reponse", [versClient[i] EXCEPT !.juste = FALSE])
             \/ Trame > 0 /\ Endommage(versClient, i, "debut", Bruit(Trame))
    BY <1>6 DEF AltererReponse
  <2>2. [versClient[i] EXCEPT !.juste = FALSE] \in Jetons
    BY <1>4, <2>1 DEF TInv, TLien
  <2>3. UNCHANGED <<client, ecoute, ouvert, versSim, simulateur>>
    BY <1>6 DEF AltererReponse
  <2>4. \/ Degat(versClient, versClient', i, "reponse", [versClient[i] EXCEPT !.juste = FALSE])
        \/ Trame > 0 /\ Degat(versClient, versClient', i, "debut", Bruit(Trame))
    BY <1>1, <1>2, <1>3, <2>1, <2>2 DEF Endommage, Degat
  <2> QED
    BY <2>1, <2>3, <2>4
<1>7. CASE AltererSigne
  <2>1. UNCHANGED <<client, ecoute, ouvert, simulateur>>
    BY <1>7 DEF AltererSigne
  <2>2. CASE /\ UNCHANGED versClient
             /\ \E i \in DOMAIN versSim : /\ versSim[i].sorte \in {"+", "-"}
                                          /\ Endommage(versSim, i, "signeSim", Bruit(1))
    BY <1>1, <1>2, <1>3, <2>1, <2>2 DEF Endommage, Degat
  <2>3. CASE /\ UNCHANGED versSim
             /\ \E i \in DOMAIN versClient : /\ versClient[i].sorte \in {"+", "-"}
                                             /\ Endommage(versClient, i, "signeClient", Bruit(1))
    BY <1>1, <1>2, <1>3, <2>1, <2>3 DEF Endommage, Degat
  <2> QED
    BY <1>7, <2>2, <2>3 DEF AltererSigne
<1> QED
  BY <1>5, <1>6, <1>7

LEMMA TypesLigne ==
  ASSUME TInv, AltererCommande \/ AltererReponse \/ AltererSigne
  PROVE  TInv'
<1>1. UNCHANGED <<client, ecoute, ouvert, simulateur>>
  BY CasDegats
<1>2. ASSUME NEW s \in Seq(Jetons), NEW t, NEW i, NEW d, NEW j, Degat(s, t, i, d, j)
      PROVE  t \in Seq(Jetons) /\ TAlteres'
  <2>1. t \in Seq(Jetons)
    BY <1>2, FileChange DEF Degat
  <2>2. TAlteres'
    BY <1>2, LigneAssumption DEF Degat, TInv, TAlteres
  <2> QED
    BY <2>1, <2>2
<1>3. TLien' /\ TAlteres'
  BY <1>2, CasDegats DEF TInv, TLien
<1> QED
  BY <1>1, <1>3 DEF TInv, TClient, TSim, client, simulateur

LEMMA TInvSuite == TInv /\ [Next]_vars => TInv'
<1>1. TInv /\ UNCHANGED vars => TInv'
  BY DEF vars, client, lien, simulateur, TInv, TClient, TLien, TSim, TAlteres
<1> QED
  BY <1>1, TypesClient, TypesSimulateur, TypesLigne DEF Next, Client

(***************************************************************************)
(* TypeOK, for every session: what waits in the error buffer leaves room   *)
(* for the end of the string handle_error writes (add_character_to_error,  *)
(* scanner.l), and while yylex reads, gdb->packet holds the command it     *)
(* waits for, so that is what a "-" has sent again.                        *)
(***************************************************************************)
THEOREM TypesDeSession == Spec => []TypeOK
BY TInit, TInvSuite, TInvType, PTL DEF Spec

-----------------------------------------------------------------------------
(***************************************************************************)
(* Whether a token of one of the kinds K is in a sequence.                 *)
(***************************************************************************)
Porte(s, K) == \E i \in DOMAIN s : s[i].sorte \in K

LEMMA PorteSuite ==
  ASSUME NEW S, NEW s \in Seq(S), NEW t \in Seq(S), NEW K
  PROVE  Porte(s \o t, K) <=> Porte(s, K) \/ Porte(t, K)
<1>1. ASSUME NEW i \in DOMAIN (s \o t), (s \o t)[i].sorte \in K
      PROVE  Porte(s, K) \/ Porte(t, K)
  <2>1. CASE i <= Len(s)
    <3>1. i \in DOMAIN s /\ (s \o t)[i] = s[i]
      BY <2>1
    <3> QED
      BY <1>1, <3>1 DEF Porte
  <2>2. CASE i > Len(s)
    <3>1. i - Len(s) \in DOMAIN t /\ (s \o t)[i] = t[i - Len(s)]
      BY <2>2
    <3> QED
      BY <1>1, <3>1 DEF Porte
  <2> QED
    BY <2>1, <2>2
<1>2. ASSUME NEW i \in DOMAIN s, s[i].sorte \in K
      PROVE  Porte(s \o t, K)
  <2>1. i \in DOMAIN (s \o t) /\ (s \o t)[i] = s[i]
    OBVIOUS
  <2> QED
    BY <1>2, <2>1 DEF Porte
<1>3. ASSUME NEW i \in DOMAIN t, t[i].sorte \in K
      PROVE  Porte(s \o t, K)
  <2>1. Len(s) + i \in DOMAIN (s \o t) /\ (s \o t)[Len(s) + i] = t[i]
    OBVIOUS
  <2> QED
    BY <1>3, <2>1 DEF Porte
<1> QED
  BY <1>1, <1>2, <1>3 DEF Porte

LEMMA PorteUn ==
  ASSUME NEW x, NEW K
  PROVE  (Porte(<<x>>, K) <=> x.sorte \in K) /\ ~Porte(<<>>, K)
BY DEF Porte

LEMMA PorteQueue ==
  ASSUME NEW S, NEW s \in Seq(S), s # <<>>, NEW K
  PROVE  Porte(s, K) <=> Head(s).sorte \in K \/ Porte(Tail(s), K)
<1>1. ASSUME NEW i \in DOMAIN s, s[i].sorte \in K
      PROVE  Head(s).sorte \in K \/ Porte(Tail(s), K)
  <2>1. CASE i = 1
    BY <1>1, <2>1
  <2>2. CASE i # 1
    <3>1. i - 1 \in DOMAIN Tail(s) /\ Tail(s)[i - 1] = s[i]
      BY <2>2
    <3> QED
      BY <1>1, <3>1 DEF Porte
  <2> QED
    BY <2>1, <2>2
<1>2. ASSUME NEW i \in DOMAIN Tail(s), Tail(s)[i].sorte \in K
      PROVE  Porte(s, K)
  <2>1. i + 1 \in DOMAIN s /\ Tail(s)[i] = s[i + 1]
    OBVIOUS
  <2> QED
    BY <1>2, <2>1 DEF Porte
<1>3. 1 \in DOMAIN s /\ Head(s) = s[1]
  OBVIOUS
<1> QED
  BY <1>1, <1>2, <1>3 DEF Porte

LEMMA PorteChange ==
  ASSUME NEW S, NEW s \in Seq(S), NEW i \in DOMAIN s, NEW x, NEW K
  PROVE  /\ Porte([s EXCEPT ![i] = x], K) => x.sorte \in K \/ Porte(s, K)
         /\ Porte(s, K) => Porte([s EXCEPT ![i] = x], K) \/ s[i].sorte \in K
         /\ x.sorte \in K => Porte([s EXCEPT ![i] = x], K)
<1> DEFINE t == [s EXCEPT ![i] = x]
<1>1. DOMAIN t = DOMAIN s /\ t[i] = x /\ \A j \in DOMAIN s : j # i => t[j] = s[j]
  OBVIOUS
<1> HIDE DEF t
<1>2. Porte(t, K) => x.sorte \in K \/ Porte(s, K)
  BY <1>1, Zenon DEF Porte
<1>3. Porte(s, K) => Porte(t, K) \/ s[i].sorte \in K
  BY <1>1, Zenon DEF Porte
<1>4. x.sorte \in K => Porte(t, K)
  BY <1>1, Zenon DEF Porte
<1> QED
  BY <1>2, <1>3, <1>4 DEF t

LEMMA Sortes ==
  /\ Signe("+").sorte = "+" /\ Signe("-").sorte = "-"
  /\ \A n : Paquet(n).sorte = "paquet" /\ Bruit(n).sorte = "bruit"
BY DEF Signe, Paquet, Bruit

LEMMA PorteDevant ==
  ASSUME NEW s \in Seq(Jetons), NEW t \in Seq(Jetons), NEW K, Porte(s, K) \/ Porte(t, K)
  PROVE  Porte(s \o t, K)
BY PorteSuite

-----------------------------------------------------------------------------
(***************************************************************************)
(* The simulator answers a packet, text, and a "-" once it has an answer   *)
(* to send again; the client answers a packet, text and a "-".             *)
(***************************************************************************)
Repondra ==
  \/ Porte(versSim, {"paquet", "bruit"})
  \/ Porte(versSim, {"-"}) /\ reponse # 0
  \/ Porte(versClient, {"paquet", "bruit", "-"})

(***************************************************************************)
(* While the client waits and no text is kept anywhere, something on the   *)
(* line will be answered.  What a "-" of the client needs for that is an   *)
(* answer to send again: an acknowledgement only comes with one.           *)
(***************************************************************************)
EnVie ==
  /\ phase = "attente" /\ ouvert /\ ~marche /\ len = 0 /\ ~texte => Repondra
  /\ ouvert /\ ~marche /\ reponse = 0 => ~Porte(versClient, {"paquet", "+"})

LEMMA EcrireOuvert ==
  ASSUME ouvert, NEW jetons, NEW suite, Ecrire(jetons, suite)
  PROVE  versSim' = versSim \o jetons /\ phase' = suite
BY DEF Ecrire, Perdu

LEMMA EnVieInit == Init => EnVie
BY PorteUn DEF Init, EnVie

LEMMA EnVieClient ==
  ASSUME TInv, EnVie, NextClient, UNCHANGED <<simulateur, alteres>>, ouvert
  PROVE  EnVie'
<1>1. UNCHANGED <<ouvert, reponse, texte, marche>>
  BY DEF simulateur, NextClient, Connecter, Envoyer, Lire, LireAccuse, LireDemande,
         LireReponse, LireBruit, LireFin, LireRompu, Recu
<1>2. versSim \in Seq(Jetons) /\ versClient \in Seq(Jetons) /\ len \in Nat
  BY DEF TInv, TLien, TClient
<1>3. ASSUME NEW s, Recu(s)
      PROVE  /\ versClient' \in Seq(Jetons)
             /\ \A K : Porte(versClient, K) <=> s \in K \/ Porte(versClient', K)
  <2>1. versClient # <<>> /\ Head(versClient).sorte = s /\ versClient' = Tail(versClient)
    BY <1>3 DEF Recu
  <2> QED
    BY <1>2, <2>1, FileQueue, PorteQueue
<1>4. Plainte \in Seq(Jetons) /\ (len > 0 => Porte(Plainte, {"-"})) /\ (len = 0 => Plainte = <<>>)
  BY <1>2, PlainteType, PorteUn, Sortes DEF Plainte
<1>5. CASE Connecter
  BY <1>1, <1>5 DEF Connecter, EnVie, lien
<1>6. CASE Envoyer
  <2>1. versSim' = versSim \o <<Paquet(commande)>>
    BY <1>6, EcrireOuvert DEF Envoyer
  <2>2. <<Paquet(commande)>> \in Seq(Jetons)
    BY PaquetJeton, FileUn DEF TInv, TClient
  <2>3. Porte(<<Paquet(commande)>>, {"paquet", "bruit"})
    BY PorteUn, Sortes
  <2>4. Porte(versSim', {"paquet", "bruit"})
    BY <1>2, <2>1, <2>2, <2>3, PorteDevant
  <2>5. UNCHANGED versClient
    BY <1>6 DEF Envoyer
  <2> QED
    BY <1>1, <2>4, <2>5 DEF EnVie, Repondra
<1>7. CASE LireAccuse
  <2>1. versSim' = versSim \o Plainte /\ Recu("+")
    BY <1>7, EcrireOuvert DEF LireAccuse
  <2>2. marche \/ reponse # 0
    BY <1>3, <2>1 DEF EnVie
  <2>3. CASE len > 0
    <3>1. Porte(versSim', {"-"})
      BY <1>2, <1>4, <2>1, <2>3, PorteDevant
    <3> QED
      BY <1>1, <2>2, <3>1 DEF EnVie, Repondra
  <2>4. CASE len = 0
    <3>1. versSim' = versSim
      BY <1>2, <1>4, <2>1, <2>4
    <3>2. Porte(versClient, {"paquet", "bruit", "-"}) <=> Porte(versClient', {"paquet", "bruit", "-"})
      <4>1. \A K : Porte(versClient, K) <=> "+" \in K \/ Porte(versClient', K)
        BY <1>3, <2>1
      <4>2. "+" \notin {"paquet", "bruit", "-"}
        OBVIOUS
      <4> QED
        BY <4>1, <4>2, Zenon
    <3>3. phase = "attente"
      BY <2>1 DEF Recu
    <3> QED
      BY <1>1, <2>2, <2>4, <3>1, <3>2, <3>3 DEF EnVie, Repondra
  <2> QED
    BY <1>2, <2>3, <2>4
<1>8. CASE LireDemande
  <2>1. versSim' = versSim \o (Plainte \o <<Paquet(packet)>>) /\ Recu("-")
    BY <1>8, EcrireOuvert DEF LireDemande, Retransmet
  <2>2. <<Paquet(packet)>> \in Seq(Jetons)
    BY <2>1, RecuType, PaquetJeton, FileUn DEF TInv, TClient
  <2>3. Porte(<<Paquet(packet)>>, {"paquet", "bruit"})
    BY PorteUn, Sortes
  <2>4. Porte(Plainte \o <<Paquet(packet)>>, {"paquet", "bruit"})
    BY <1>4, <2>2, <2>3, PorteDevant
  <2>5. Porte(versSim', {"paquet", "bruit"})
    BY <1>2, <1>4, <2>1, <2>2, <2>4, FileSuite, PorteDevant
  <2>6. Porte(versClient', {"paquet", "+"}) => Porte(versClient, {"paquet", "+"})
    BY <1>3, <2>1
  <2> QED
    BY <1>1, <2>5, <2>6 DEF EnVie, Repondra
<1>9. CASE LireReponse
  <2>1. Recu("paquet")
    BY <1>9 DEF LireReponse
  <2>2. marche \/ reponse # 0
    BY <1>3, <2>1 DEF EnVie
  <2>3. CASE Accepte(Head(versClient))
    <3>1. phase' # "attente"
      <4>1. phase' = PhaseApres(FALSE)
        BY <1>9, <2>3, EcrireOuvert DEF LireReponse
      <4> QED
        BY <4>1 DEF PhaseApres
    <3> QED
      BY <1>1, <2>2, <3>1 DEF EnVie
  <2>4. CASE ~Accepte(Head(versClient))
    <3>1. versSim' = versSim \o (Plainte \o <<Signe("-")>>)
      BY <1>9, <2>4, EcrireOuvert DEF LireReponse
    <3>2. <<Signe("-")>> \in Seq(Jetons) /\ Porte(<<Signe("-")>>, {"-"})
      BY SigneJeton, FileUn, PorteUn, Sortes
    <3>3. Porte(Plainte \o <<Signe("-")>>, {"-"})
      BY <1>4, <3>2, PorteDevant
    <3>4. Porte(versSim', {"-"})
      BY <1>2, <1>4, <3>1, <3>2, <3>3, FileSuite, PorteDevant
    <3> QED
      BY <1>1, <2>2, <3>4 DEF EnVie, Repondra
  <2> QED
    BY <2>3, <2>4
<1>10. CASE LireBruit
  <2>1. len' # 0
    BY <1>2, <1>10 DEF LireBruit
  <2>2. versClient # <<>> /\ Head(versClient).sorte = "bruit"
    BY <1>10 DEF LireBruit
  <2>3. Tail(versClient) \in Seq(Jetons) /\ Head(versClient) \in Jetons
    BY <1>2, <2>2, FileQueue
  <2>4. Porte(Tail(versClient), {"paquet", "+"}) => Porte(versClient, {"paquet", "+"})
    BY <1>2, <2>2, PorteQueue
  <2>5. Porte(versClient', {"paquet", "+"}) => Porte(Tail(versClient), {"paquet", "+"})
    <3> DEFINE b == Bruit(Head(versClient).n - 1)
    <3>1. CASE Head(versClient).n > 1
      <4>1. <<b>> \in Seq(Jetons) /\ ~Porte(<<b>>, {"paquet", "+"})
        BY <2>2, <2>3, <3>1, BruitLu, FileUn, PorteUn, Sortes
      <4>2. versClient' = <<b>> \o Tail(versClient)
        BY <1>10, <3>1 DEF LireBruit
      <4> HIDE DEF b
      <4> QED
        BY <2>3, <4>1, <4>2, PorteSuite
    <3>2. CASE ~(Head(versClient).n > 1)
      BY <1>10, <3>2 DEF LireBruit
    <3> QED
      BY <3>1, <3>2
  <2> QED
    BY <1>1, <2>1, <2>4, <2>5 DEF EnVie
<1>11. CASE LireFin \/ LireRompu
  BY <1>11 DEF LireFin, LireRompu, Perdu
<1> QED
  BY <1>5, <1>6, <1>7, <1>8, <1>9, <1>10, <1>11 DEF NextClient, Lire

LEMMA EnVieSimulateur ==
  ASSUME TInv, EnVie, Simulateur \/ SimEcoute \/ SimPanne, ouvert'
  PROVE  EnVie'
<1>1. UNCHANGED <<phase, len>> /\ ouvert
  BY DEF client, Simulateur, SimCommande, SimRefuse, SimAccuse, SimDemande, SimBruit, SimFin, SimLit,
         SimEcoute, SimPanne
<1>2. versSim \in Seq(Jetons) /\ versClient \in Seq(Jetons)
  BY DEF TInv, TLien
<1>3. ASSUME NEW s, SimLit(s)
      PROVE  /\ versSim' \in Seq(Jetons) /\ Head(versSim) \in Jetons /\ Head(versSim).sorte = s
             /\ \A K : Porte(versSim, K) <=> s \in K \/ Porte(versSim', K)
  <2>1. versSim # <<>> /\ Head(versSim).sorte = s /\ versSim' = Tail(versSim)
    BY <1>3 DEF SimLit
  <2> QED
    BY <1>2, <2>1, FileQueue, PorteQueue
<1>4. /\ SimPlainte \in Seq(Jetons)
      /\ texte => Porte(SimPlainte, {"paquet", "bruit", "-"})
      /\ ~texte => SimPlainte = <<>>
      /\ ~Porte(SimPlainte, {"paquet", "+"})
  BY SigneJeton, FileUn, FileVide, PorteUn, Sortes DEF SimPlainte
<1>5. /\ versClient \o SimPlainte \in Seq(Jetons)
      /\ texte => Porte(versClient \o SimPlainte, {"paquet", "bruit", "-"})
      /\ Porte(versClient, {"paquet", "bruit", "-"}) =>
           Porte(versClient \o SimPlainte, {"paquet", "bruit", "-"})
      /\ Porte(versClient \o SimPlainte, {"paquet", "+"}) => Porte(versClient, {"paquet", "+"})
  BY <1>2, <1>4, FileSuite, PorteSuite
<1>6. CASE SimCommande
  <2> DEFINE n == Head(versSim).n
  <2>1. n \in 1 .. Len(Programme)
    BY <1>3, <1>6, PaquetLu DEF SimCommande
  <2>2. CASE ~marche'
    <3>1. reponse' = n
      BY <1>6, <2>2 DEF SimCommande
    <3>2. versClient' = ((versClient \o SimPlainte) \o <<Signe("+")>>) \o <<Paquet(n)>>
      BY <1>6, <2>2 DEF SimCommande
    <3>3. <<Signe("+")>> \in Seq(Jetons) /\ <<Paquet(n)>> \in Seq(Jetons)
      BY <2>1, SigneJeton, PaquetJeton, FileUn
    <3>4. Porte(<<Paquet(n)>>, {"paquet", "bruit", "-"})
      BY PorteUn, Sortes
    <3> HIDE DEF n
    <3>5. Porte(versClient', {"paquet", "bruit", "-"})
      BY <1>5, <3>2, <3>3, <3>4, FileSuite, PorteDevant
    <3> QED
      BY <2>1, <3>1, <3>5 DEF EnVie, Repondra
  <2>3. CASE marche'
    BY <2>3 DEF EnVie
  <2> QED
    BY <2>2, <2>3
<1>7. CASE SimRefuse
  <2>1. versClient' = (versClient \o SimPlainte) \o <<Signe("-")>>
    BY <1>7 DEF SimRefuse
  <2>2. <<Signe("-")>> \in Seq(Jetons) /\ Porte(<<Signe("-")>>, {"paquet", "bruit", "-"})
        /\ ~Porte(<<Signe("-")>>, {"paquet", "+"})
    BY SigneJeton, FileUn, PorteUn, Sortes
  <2>3. /\ Porte(versClient', {"paquet", "bruit", "-"})
        /\ Porte(versClient', {"paquet", "+"}) => Porte(versClient, {"paquet", "+"})
    <3>1. \A K : Porte(versClient', K) <=> Porte(versClient \o SimPlainte, K) \/ Porte(<<Signe("-")>>, K)
      BY <1>5, <2>1, <2>2, PorteSuite
    <3> QED
      BY <1>5, <2>2, <3>1, Zenon
  <2>4. UNCHANGED <<reponse, marche>>
    BY <1>7 DEF SimRefuse
  <2> QED
    BY <1>1, <2>3, <2>4 DEF EnVie, Repondra
<1>8. CASE SimAccuse
  <2>1. versClient' = versClient \o SimPlainte /\ SimLit("+") /\ UNCHANGED <<reponse, marche>>
    BY <1>8 DEF SimAccuse
  <2>2. /\ Porte(versSim, {"paquet", "bruit"}) <=> Porte(versSim', {"paquet", "bruit"})
        /\ Porte(versSim, {"-"}) <=> Porte(versSim', {"-"})
    BY <1>3, <2>1
  <2> QED
    BY <1>1, <1>5, <2>1, <2>2 DEF EnVie, Repondra
<1>9. CASE SimDemande
  <2>1. SimLit("-") /\ UNCHANGED <<reponse, marche>>
    BY <1>9 DEF SimDemande
  <2>2. CASE reponse = 0
    <3>1. versClient' = versClient \o SimPlainte
      BY <1>2, <1>5, <1>9, <2>2 DEF SimDemande
    <3>2. Porte(versSim, {"paquet", "bruit"}) <=> Porte(versSim', {"paquet", "bruit"})
      BY <1>3, <2>1
    <3> QED
      BY <1>1, <1>5, <2>1, <2>2, <3>1, <3>2 DEF EnVie, Repondra
  <2>3. CASE reponse # 0
    <3>1. versClient' = (versClient \o SimPlainte) \o <<Paquet(reponse)>>
      BY <1>9, <2>3 DEF SimDemande
    <3>2. <<Paquet(reponse)>> \in Seq(Jetons)
      BY <2>3, PaquetJeton, FileUn, ProgrammeAssumption DEF TInv, TSim
    <3>3. Porte(<<Paquet(reponse)>>, {"paquet", "bruit", "-"})
      BY PorteUn, Sortes
    <3>4. Porte(versClient', {"paquet", "bruit", "-"})
      BY <1>5, <3>1, <3>2, <3>3, PorteDevant
    <3> QED
      BY <2>1, <2>3, <3>4 DEF EnVie, Repondra
  <2> QED
    BY <2>2, <2>3
<1>10. CASE SimBruit
  BY <1>1, <1>10 DEF SimBruit, EnVie
<1>11. CASE SimEcoute
  BY <1>1, <1>11 DEF SimEcoute, lien, simulateur, EnVie, Repondra
<1>12. CASE SimFin \/ SimPanne
  BY <1>12 DEF SimFin, SimPanne
<1> QED
  BY <1>6, <1>7, <1>8, <1>9, <1>10, <1>11, <1>12 DEF Simulateur

(***************************************************************************)
(* A damaged token keeps its kind or becomes text.                         *)
(***************************************************************************)
Atteint(s, t) ==
  \E i \in DOMAIN s, d \in Degats, j \in Jetons :
    Degat(s, t, i, d, j) /\ (j.sorte = "bruit" \/ j.sorte = s[i].sorte)

LEMMA CasAtteints ==
  ASSUME TInv, AltererCommande \/ AltererReponse \/ AltererSigne
  PROVE  \/ UNCHANGED versClient /\ Atteint(versSim, versSim')
         \/ UNCHANGED versSim /\ Atteint(versClient, versClient')
<1>1. ASSUME NEW s \in Seq(Jetons), NEW t, NEW i \in DOMAIN s, NEW d, NEW j,
             Degat(s, t, i, d, j),
             j = [s[i] EXCEPT !.juste = FALSE] \/ j = Bruit(Trame) \/ j = Bruit(1)
      PROVE  Atteint(s, t)
  <2>1. s[i] \in Jetons
    BY <1>1, FileElement
  <2>2. [s[i] EXCEPT !.juste = FALSE].sorte = s[i].sorte
    BY <2>1 DEF Jetons, Signe, Bruit
  <2>3. j.sorte = "bruit" \/ j.sorte = s[i].sorte
    BY <1>1, <2>2, Sortes
  <2>4. d \in Degats /\ j \in Jetons
    BY <1>1 DEF Degat
  <2> QED
    BY <1>1, <2>3, <2>4 DEF Atteint
<1>2. versSim \in Seq(Jetons) /\ versClient \in Seq(Jetons)
  BY DEF TInv, TLien
<1> QED
  BY <1>1, <1>2, CasDegats

LEMMA AtteintPorte ==
  ASSUME NEW s \in Seq(Jetons), NEW t, Atteint(s, t)
  PROVE  /\ Porte(s, {"paquet", "bruit"}) => Porte(t, {"paquet", "bruit"})
         /\ Porte(s, {"-"}) => Porte(t, {"-"}) \/ Porte(t, {"paquet", "bruit"})
         /\ Porte(s, {"paquet", "bruit", "-"}) => Porte(t, {"paquet", "bruit", "-"})
         /\ Porte(t, {"paquet", "+"}) => Porte(s, {"paquet", "+"})
<1>1. PICK i \in DOMAIN s, d \in Degats, j \in Jetons :
        Degat(s, t, i, d, j) /\ (j.sorte = "bruit" \/ j.sorte = s[i].sorte)
  BY DEF Atteint
<1>2. t = [s EXCEPT ![i] = j]
  BY <1>1 DEF Degat
<1>3. ASSUME NEW K
      PROVE  /\ Porte(t, K) => j.sorte \in K \/ Porte(s, K)
             /\ Porte(s, K) => Porte(t, K) \/ s[i].sorte \in K
             /\ j.sorte \in K => Porte(t, K)
  BY <1>2, PorteChange
<1>4. \A K : s[i].sorte \in K => Porte(s, K)
  BY DEF Porte
<1>5. Porte(s, {"paquet", "bruit"}) => Porte(t, {"paquet", "bruit"})
  BY <1>1, <1>3
<1>6. Porte(s, {"-"}) => Porte(t, {"-"}) \/ Porte(t, {"paquet", "bruit"})
  BY <1>1, <1>3
<1>7. Porte(s, {"paquet", "bruit", "-"}) => Porte(t, {"paquet", "bruit", "-"})
  BY <1>1, <1>3
<1>8. Porte(t, {"paquet", "+"}) => Porte(s, {"paquet", "+"})
  BY <1>1, <1>3, <1>4
<1> QED
  BY <1>5, <1>6, <1>7, <1>8

LEMMA EnVieLigne ==
  ASSUME TInv, EnVie, AltererCommande \/ AltererReponse \/ AltererSigne
  PROVE  EnVie'
<1>1. UNCHANGED <<phase, len, ouvert, reponse, texte, marche>>
  BY CasDegats DEF client, simulateur
<1>2. versSim \in Seq(Jetons) /\ versClient \in Seq(Jetons)
  BY DEF TInv, TLien
<1> QED
  BY <1>1, <1>2, CasAtteints, AtteintPorte DEF EnVie, Repondra

LEMMA EnVieSuite == TInv /\ EnVie /\ [Next]_vars => EnVie'
<1>1. EnVie /\ UNCHANGED vars => EnVie'
  BY DEF vars, client, lien, simulateur, EnVie, Repondra
<1>2. ~ouvert' => EnVie'
  BY DEF EnVie
<1>3. Client => UNCHANGED ouvert
  BY DEF Client, NextClient, Connecter, Envoyer, Lire, LireAccuse, LireDemande,
         LireReponse, LireBruit, LireFin, LireRompu, Recu
<1> QED
  BY <1>1, <1>2, <1>3, EnVieClient, EnVieSimulateur, EnVieLigne DEF Next, Client

(***************************************************************************)
(* AttenteExpliquee, whatever the program, the sizes and the damage: if    *)
(* client and simulator wait for each other, one of the scanners holds     *)
(* text it will only complain about before its next token (handle_error,   *)
(* scanner.l).                                                             *)
(***************************************************************************)
THEOREM AttenteToujoursExpliquee == Spec => []AttenteExpliquee
<1>1. EnVie /\ TInv => AttenteExpliquee
  <2> SUFFICES ASSUME EnVie, TInv, Muet, ~texte, ~(len > 0)
               PROVE  FALSE
    BY DEF AttenteExpliquee
  <2>1. len = 0
    BY DEF TInv, TClient
  <2>2. \A K : ~Porte(<<>>, K)
    BY PorteUn
  <2> QED
    BY <2>1, <2>2 DEF EnVie, Repondra, Muet
<1> QED
  BY <1>1, TInit, TInvSuite, EnVieInit, EnVieSuite, PTL DEF Spec

-----------------------------------------------------------------------------
(***************************************************************************)
(* The "+" and "-" arrive, and what is left of a damaged packet never      *)
(* fills the error buffer.                                                 *)
(***************************************************************************)
Sain ==
  /\ Seulement({"commande", "reponse", "debut"})
  /\ alteres["debut"] > 0 => Trame < MAX_ERROR_SIZE

(***************************************************************************)
(* The packet that carries n, as it may arrive.                            *)
(***************************************************************************)
Mauvais(n) == [Paquet(n) EXCEPT !.juste = FALSE]

Arrive(n) ==
  {Paquet(n), Mauvais(n)}
    \union {x \in {Bruit(Trame)} : Trame > 0 /\ alteres["debut"] > 0}

Derriere(s, X) == \E x \in X : s = <<x>> \/ s = <<Signe("+"), x>>

AuPlusUn(s) == s = <<>> \/ s = <<Signe("+")>>

Calme == len = 0 /\ ~texte /\ ~marche

Attendue == phase = "attente" /\ Len(journal) = commande - 1

Repondue == phase = "attente" /\ Len(journal) = commande /\ Programme[commande] # "c"

(***************************************************************************)
(* Where a session can be while the simulator is there: the command is on  *)
(* its way, has become text, or is asked for again; so is its answer.      *)
(***************************************************************************)
AvantEnvoi ==
  /\ phase \in {"connexion", "envoi"} /\ Len(journal) = commande - 1
  /\ AuPlusUn(versSim) /\ versClient = <<>> /\ Calme

CommandePartie ==
  Attendue /\ Calme /\ Derriere(versSim, Arrive(commande)) /\ versClient = <<>>

CommandePerdue ==
  Attendue /\ len = 0 /\ texte /\ ~marche /\ versSim = <<>> /\ versClient = <<>>

CommandeRedemandee ==
  Attendue /\ Calme /\ versSim = <<>> /\ versClient = <<Signe("-")>>

ReponsePartie ==
  Repondue /\ Calme /\ versSim = <<>> /\ Derriere(versClient, Arrive(commande))

ReponsePerdue ==
  /\ Repondue /\ len > 0 /\ ~texte /\ ~marche /\ versSim = <<>>
  /\ \/ versClient = <<>>
     \/ \E j \in 1 .. Trame : versClient = <<Bruit(j)>> /\ len + j < MAX_ERROR_SIZE

ReponseRedemandee ==
  Repondue /\ Calme /\ versSim = <<Signe("-")>> /\ versClient = <<>>

EnMarche ==
  /\ phase = "attente" /\ Len(journal) = commande /\ Programme[commande] = "c"
  /\ versSim = <<>> /\ AuPlusUn(versClient) /\ len = 0 /\ ~texte /\ marche

Finie ==
  /\ phase = "fini" /\ Len(journal) = commande
  /\ commande = Len(Programme) /\ Programme[commande] # "c"
  /\ AuPlusUn(versSim) /\ versClient = <<>> /\ Calme

Refusee ==
  phase = "rompu" /\ packet = 0 /\ AuPlusUn(versSim) /\ versClient = <<>> /\ Calme

EnPhase ==
  \/ AvantEnvoi \/ CommandePartie \/ CommandePerdue \/ CommandeRedemandee
  \/ ReponsePartie \/ ReponsePerdue \/ ReponseRedemandee
  \/ EnMarche \/ Finie \/ Refusee

(***************************************************************************)
(* After the simulator has exited by itself (SimPanne leaves ecoute at 0). *)
(***************************************************************************)
SortiEnMarche ==
  /\ phase = "attente" /\ Len(journal) = commande /\ Programme[commande] = "c"
  /\ versSim = <<>> /\ AuPlusUn(versClient) /\ len = 0

SortiFinie ==
  /\ phase = "fini" /\ Len(journal) = commande
  /\ Programme[commande] = "c" \/ commande = Len(Programme)

SortiRefusee == phase = "rompu" /\ packet = 0

Sorti == SortiEnMarche \/ SortiFinie \/ SortiRefusee

Journal == journal = [i \in 1 .. Len(journal) |-> i]

Rythme ==
  Sain =>
    /\ Journal
    /\ ouvert => EnPhase /\ (~marche => reponse = Len(journal))
    /\ ~ouvert /\ ecoute # 0 => Sorti

LEMMA Mots ==
  ASSUME NEW a, NEW b
  PROVE  /\ <<a>> # <<>> /\ Head(<<a>>) = a /\ Tail(<<a>>) = <<>>
         /\ <<a, b>> # <<>> /\ Head(<<a, b>>) = a /\ Tail(<<a, b>>) = <<b>>
         /\ <<>> \o <<a>> = <<a>> /\ <<>> \o <<a, b>> = <<a, b>> /\ <<a>> \o <<b>> = <<a, b>>
         /\ <<a>> \o <<>> = <<a>> /\ <<>> \o <<>> = <<>>
<1>1. <<a>> # <<>> /\ Head(<<a>>) = a /\ Tail(<<a>>) = <<>>
  OBVIOUS
<1>2. <<a, b>> # <<>> /\ Head(<<a, b>>) = a
  OBVIOUS
<1>3. Tail(<<a, b>>) = <<b>>
  OBVIOUS
<1>4. <<>> \o <<a>> = <<a>> /\ <<>> \o <<a, b>> = <<a, b>>
  OBVIOUS
<1>5. <<a>> \o <<b>> = <<a, b>>
  <2>1. /\ <<a>> \in Seq({a, b}) /\ <<b>> \in Seq({a, b})
        /\ Len(<<a>>) = 1 /\ Len(<<b>>) = 1 /\ <<a>>[1] = a /\ <<b>>[1] = b
    OBVIOUS
  <2>2. PICK s \in Seq({a, b}) : s = <<a>>
    BY <2>1
  <2>3. PICK t \in Seq({a, b}) : t = <<b>>
    BY <2>1
  <2>4. Len(s \o t) = 2 /\ s \o t \in Seq({a, b})
    BY <2>1, <2>2, <2>3
  <2>5. (s \o t)[1] = a /\ (s \o t)[2] = b
    BY <2>1, <2>2, <2>3
  <2>6. s \o t = <<a, b>>
    <3>1. PICK u \in Seq({a, b}) : u = s \o t
      BY <2>4
    <3>2. Len(u) = 2 /\ u[1] = a /\ u[2] = b
      BY <2>4, <2>5, <3>1
    <3>3. DOMAIN u = {1, 2}
      BY <3>2
    <3>4. u = [i \in {1, 2} |-> u[i]]
      BY <3>3
    <3>5. <<a, b>> = [i \in {1, 2} |-> <<a, b>>[i]]
      OBVIOUS
    <3>6. \A i \in {1, 2} : u[i] = <<a, b>>[i]
      BY <3>2
    <3>7. [i \in {1, 2} |-> u[i]] = [i \in {1, 2} |-> <<a, b>>[i]]
      BY <3>6, Zenon
    <3> QED
      BY <3>1, <3>4, <3>5, <3>7
  <2> QED
    BY <2>2, <2>3, <2>6
<1>6. <<a>> \o <<>> = <<a>> /\ <<>> \o <<>> = <<>>
  OBVIOUS
<1> QED
  BY <1>1, <1>2, <1>3, <1>4, <1>5, <1>6

LEMMA Formes ==
  /\ \A n : Paquet(n).sorte = "paquet" /\ Paquet(n).juste /\ Paquet(n).n = n
  /\ \A n : Mauvais(n).sorte = "paquet" /\ ~Mauvais(n).juste /\ Mauvais(n).n = n
  /\ \A n : Bruit(n).sorte = "bruit" /\ Bruit(n).n = n
  /\ Signe("+").sorte = "+" /\ Signe("-").sorte = "-"
BY DEF Paquet, Mauvais, Bruit, Signe

LEMMA ArriveCas ==
  ASSUME NEW n, NEW x \in Arrive(n)
  PROVE  /\ x.sorte \in {"paquet", "bruit"}
         /\ x.sorte = "paquet" => x.n = n /\ (x.juste => x = Paquet(n))
         /\ x.sorte = "bruit" => x.n = Trame /\ Trame > 0 /\ alteres["debut"] > 0
<1>1. x = Paquet(n) \/ x = Mauvais(n) \/ (x = Bruit(Trame) /\ Trame > 0 /\ alteres["debut"] > 0)
  BY DEF Arrive
<1> QED
  BY <1>1, Formes

LEMMA DerriereCas ==
  ASSUME NEW s, NEW n, Derriere(s, Arrive(n))
  PROVE  /\ s # <<>>
         /\ \/ Head(s) = Signe("+") /\ \E x \in Arrive(n) : s = <<Signe("+"), x>> /\ Tail(s) = <<x>>
            \/ \E x \in Arrive(n) : s = <<x>> /\ Head(s) = x /\ Tail(s) = <<>>
<1>1. PICK x \in Arrive(n) : s = <<x>> \/ s = <<Signe("+"), x>>
  BY DEF Derriere
<1>2. CASE s = <<x>>
  BY <1>2, Mots
<1>3. CASE s = <<Signe("+"), x>>
  <2>1. s # <<>> /\ Head(s) = Signe("+") /\ Tail(s) = <<x>>
    BY <1>3, Mots
  <2> QED
    BY <1>3, <2>1
<1> QED
  BY <1>1, <1>2, <1>3

LEMMA AuPlusUnCas ==
  ASSUME NEW s, AuPlusUn(s), s # <<>>
  PROVE  s = <<Signe("+")>> /\ Head(s) = Signe("+") /\ Tail(s) = <<>>
BY Mots DEF AuPlusUn

LEMMA SainCas ==
  Sain <=> /\ alteres["signeSim"] = 0 /\ alteres["signeClient"] = 0
           /\ alteres["debut"] > 0 => Trame < MAX_ERROR_SIZE
BY DEF Sain, Seulement, Degats

-----------------------------------------------------------------------------
LEMMA PasConnecter ==
  ASSUME TInv, EnPhase, Connecter, UNCHANGED <<simulateur, alteres>>
  PROVE  EnPhase'
<1>1. AvantEnvoi /\ phase = "connexion" /\ packet = 0
  BY DEF Connecter, EnPhase, AvantEnvoi, CommandePartie, CommandePerdue, CommandeRedemandee,
         ReponsePartie, ReponsePerdue, ReponseRedemandee, EnMarche, Finie, Refusee, Attendue,
         Repondue, TInv, TClient
<1>2. /\ UNCHANGED <<commande, packet, len, versSim, versClient, journal, texte, marche>>
      /\ phase' \in {"connexion", "envoi", "rompu"}
  BY DEF Connecter, lien, simulateur
<1>3. CASE phase' = "rompu"
  BY <1>1, <1>2, <1>3 DEF AvantEnvoi, EnPhase, Refusee, Calme, AuPlusUn
<1>4. CASE phase' # "rompu"
  BY <1>1, <1>2, <1>4 DEF AvantEnvoi, EnPhase, Calme, AuPlusUn
<1> QED
  BY <1>3, <1>4

LEMMA PasEnvoyer ==
  ASSUME TInv, EnPhase, ouvert, Envoyer, UNCHANGED <<simulateur, alteres>>
  PROVE  EnPhase'
<1>1. AvantEnvoi
  BY DEF Envoyer, EnPhase, AvantEnvoi, CommandePartie, CommandePerdue, CommandeRedemandee,
         ReponsePartie, ReponsePerdue, ReponseRedemandee, EnMarche, Finie, Refusee, Attendue,
         Repondue
<1>2. versSim' = versSim \o <<Paquet(commande)>> /\ phase' = "attente"
  BY EcrireOuvert DEF Envoyer, SuiteEnvoi
<1>3. UNCHANGED <<commande, len, versClient, journal, texte, marche, alteres>>
  BY DEF Envoyer, simulateur
<1>4. versSim' = <<Paquet(commande)>> \/ versSim' = <<Signe("+"), Paquet(commande)>>
  <2>1. CASE versSim = <<>>
    BY <1>2, <2>1, Mots
  <2>2. CASE versSim = <<Signe("+")>>
    BY <1>2, <2>2, Mots
  <2> QED
    BY <1>1, <2>1, <2>2 DEF AvantEnvoi, AuPlusUn
<1>5. Paquet(commande) \in Arrive(commande)'
  BY <1>3 DEF Arrive
<1>6. Derriere(versSim, Arrive(commande))'
  BY <1>4, <1>5 DEF Derriere
<1> QED
  BY <1>1, <1>2, <1>3, <1>6 DEF AvantEnvoi, EnPhase, CommandePartie, Attendue, Calme

(***************************************************************************)
(* What the client can find in front of it, by kind.                       *)
(***************************************************************************)
LEMMA TeteClient ==
  ASSUME EnPhase, phase = "attente", versClient # <<>>
  PROVE  \/ /\ Head(versClient) = Signe("+") /\ ReponsePartie
            /\ \E x \in Arrive(commande) : Tail(versClient) = <<x>>
         \/ /\ ReponsePartie
            /\ \E x \in Arrive(commande) : versClient = <<x>> /\ Head(versClient) = x /\ Tail(versClient) = <<>>
         \/ Head(versClient) = Signe("+") /\ EnMarche /\ Tail(versClient) = <<>>
         \/ Head(versClient) = Signe("-") /\ CommandeRedemandee /\ Tail(versClient) = <<>>
         \/ /\ ReponsePerdue
            /\ \E j \in 1 .. Trame : /\ Head(versClient) = Bruit(j) /\ Tail(versClient) = <<>>
                                     /\ len + j < MAX_ERROR_SIZE
<1>1. CASE ReponsePartie
  BY <1>1, DerriereCas DEF ReponsePartie
<1>2. CASE EnMarche
  BY <1>2, AuPlusUnCas DEF EnMarche
<1>3. CASE CommandeRedemandee
  BY <1>3, Mots DEF CommandeRedemandee
<1>4. CASE ReponsePerdue
  <2>1. PICK j \in 1 .. Trame : versClient = <<Bruit(j)>> /\ len + j < MAX_ERROR_SIZE
    BY <1>4 DEF ReponsePerdue
  <2>2. Head(versClient) = Bruit(j) /\ Tail(versClient) = <<>>
    BY <2>1, Mots
  <2> QED
    BY <1>4, <2>1, <2>2
<1> QED
  BY <1>1, <1>2, <1>3, <1>4 DEF EnPhase, AvantEnvoi, CommandePartie, CommandePerdue,
     ReponseRedemandee, Finie, Refusee

LEMMA PasLireAccuse ==
  ASSUME TInv, EnPhase, ouvert, LireAccuse, UNCHANGED <<simulateur, alteres>>
  PROVE  EnPhase'
<1>1. /\ phase = "attente" /\ versClient # <<>> /\ Head(versClient).sorte = "+"
      /\ versClient' = Tail(versClient) /\ len' = 0
      /\ UNCHANGED <<commande, journal, texte, marche, alteres>>
  BY DEF LireAccuse, Recu, simulateur
<1>2. versSim' = versSim \o Plainte /\ phase' = "attente"
  BY EcrireOuvert DEF LireAccuse
<1>3. \/ ReponsePartie /\ \E x \in Arrive(commande) : Tail(versClient) = <<x>>
      \/ EnMarche /\ Tail(versClient) = <<>>
  BY <1>1, TeteClient, Formes, ArriveCas
<1>4. versSim = <<>> /\ len = 0
  BY <1>3 DEF ReponsePartie, EnMarche, Calme
<1>5. versSim' = <<>>
  BY <1>2, <1>4, Mots DEF Plainte
<1>6. CASE ReponsePartie /\ \E x \in Arrive(commande) : Tail(versClient) = <<x>>
  <2>1. Derriere(versClient, Arrive(commande))'
    BY <1>1, <1>6 DEF Derriere, Arrive
  <2> QED
    BY <1>1, <1>2, <1>5, <1>6, <2>1 DEF EnPhase, ReponsePartie, Repondue, Calme
<1>7. CASE EnMarche /\ Tail(versClient) = <<>>
  BY <1>1, <1>2, <1>5, <1>7 DEF EnPhase, EnMarche, AuPlusUn
<1> QED
  BY <1>3, <1>6, <1>7

LEMMA PasLireDemande ==
  ASSUME TInv, EnPhase, ouvert, LireDemande, UNCHANGED <<simulateur, alteres>>
  PROVE  EnPhase'
<1>1. /\ phase = "attente" /\ versClient # <<>> /\ Head(versClient).sorte = "-"
      /\ versClient' = Tail(versClient) /\ len' = 0
      /\ UNCHANGED <<commande, journal, texte, marche, alteres>>
  BY DEF LireDemande, Recu, simulateur
<1>2. versSim' = versSim \o (Plainte \o <<Paquet(packet)>>) /\ phase' = "attente"
  BY EcrireOuvert DEF LireDemande, Retransmet
<1>3. CommandeRedemandee /\ Tail(versClient) = <<>>
  BY <1>1, TeteClient, Formes, ArriveCas
<1>4. packet = commande
  BY <1>1 DEF TInv, TClient
<1>5. versSim' = <<Paquet(commande)>>
  <2>1. versSim = <<>> /\ Plainte = <<>>
    BY <1>3 DEF CommandeRedemandee, Calme, Plainte
  <2> QED
    BY <1>2, <1>4, <2>1, Mots
<1>6. Derriere(versSim, Arrive(commande))'
  BY <1>1, <1>5 DEF Derriere, Arrive
<1> QED
  BY <1>1, <1>2, <1>3, <1>6 DEF EnPhase, CommandeRedemandee, CommandePartie, Attendue, Calme

LEMMA PasLireReponse ==
  ASSUME TInv, EnPhase, ouvert, LireReponse, UNCHANGED <<simulateur, alteres>>
  PROVE  EnPhase'
<1>1. /\ phase = "attente" /\ versClient # <<>> /\ Head(versClient).sorte = "paquet"
      /\ versClient' = Tail(versClient) /\ len' = 0
      /\ UNCHANGED <<journal, texte, marche, alteres>>
  BY DEF LireReponse, Recu, simulateur
<1>2. ReponsePartie /\ Tail(versClient) = <<>>
  BY <1>1, TeteClient, Formes, ArriveCas
<1>3. versSim = <<>> /\ Plainte = <<>>
  BY <1>2 DEF ReponsePartie, Calme, Plainte
<1>4. CASE Accepte(Head(versClient))
  <2>1. /\ versSim' = versSim \o (Plainte \o <<Signe("+")>>)
        /\ phase' = PhaseApres(FALSE) /\ commande' = CommandeApres(FALSE)
    BY <1>4, EcrireOuvert DEF LireReponse
  <2>2. versSim' = <<Signe("+")>>
    BY <1>3, <2>1, Mots
  <2>3. AuPlusUn(versSim)'
    BY <2>2 DEF AuPlusUn
  <2>4. Programme[commande] # "c" /\ Len(journal) = commande /\ commande \in Nat
    BY <1>2 DEF ReponsePartie, Repondue, TInv, TClient
  <2>5. CASE commande = Len(Programme)
    <3>1. phase' = "fini" /\ commande' = commande
      BY <2>1, <2>5 DEF PhaseApres, CommandeApres, Derniere
    <3>2. Finie'
      BY <1>1, <1>2, <2>3, <2>4, <2>5, <3>1 DEF Finie, ReponsePartie, Calme
    <3> QED
      BY <3>2 DEF EnPhase
  <2>6. CASE commande # Len(Programme)
    <3>1. phase' = "envoi" /\ commande' = commande + 1
      BY <2>1, <2>4, <2>6 DEF PhaseApres, CommandeApres, Derniere
    <3>2. Len(journal') = commande' - 1
      BY <1>1, <2>4, <3>1
    <3>3. AvantEnvoi'
      BY <1>1, <1>2, <2>3, <3>1, <3>2 DEF AvantEnvoi, ReponsePartie, Calme
    <3> QED
      BY <3>3 DEF EnPhase
  <2> QED
    BY <2>5, <2>6
<1>5. CASE ~Accepte(Head(versClient))
  <2>1. /\ versSim' = versSim \o (Plainte \o <<Signe("-")>>)
        /\ phase' = "attente" /\ commande' = commande
    BY <1>5, EcrireOuvert DEF LireReponse
  <2>2. versSim' = <<Signe("-")>>
    BY <1>3, <2>1, Mots
  <2>3. ReponseRedemandee'
    BY <1>1, <1>2, <2>1, <2>2 DEF ReponseRedemandee, ReponsePartie, Repondue, Calme
  <2> QED
    BY <2>3 DEF EnPhase
<1> QED
  BY <1>4, <1>5

LEMMA PasLireBruit ==
  ASSUME TInv, EnPhase, Sain, ouvert, LireBruit, UNCHANGED <<simulateur, alteres>>
  PROVE  EnPhase'
<1>1. /\ phase = "attente" /\ versClient # <<>> /\ Head(versClient).sorte = "bruit"
      /\ UNCHANGED <<commande, journal, texte, marche, alteres>>
  BY DEF LireBruit, simulateur
<1>2. len \in Nat /\ MAX_ERROR_SIZE \in Nat /\ MAX_ERROR_SIZE >= 2 /\ Trame \in Nat
  BY ProgrammeAssumption, LigneAssumption DEF TInv, TClient
<1>3. /\ Repondue /\ ~texte /\ ~marche /\ versSim = <<>> /\ Tail(versClient) = <<>>
      /\ \E j \in 1 .. Trame : Head(versClient) = Bruit(j) /\ len + j < MAX_ERROR_SIZE
  <2>1. CASE /\ ReponsePartie
             /\ \E x \in Arrive(commande) : versClient = <<x>> /\ Head(versClient) = x /\ Tail(versClient) = <<>>
    <3>1. Trame > 0 /\ alteres["debut"] > 0 /\ Head(versClient) = Bruit(Trame)
      BY <1>1, <2>1, ArriveCas, Formes DEF Arrive
    <3>2. Trame < MAX_ERROR_SIZE /\ len = 0
      BY <2>1, <3>1, SainCas DEF ReponsePartie, Calme
    <3>3. Trame \in 1 .. Trame /\ len + Trame < MAX_ERROR_SIZE
      BY <1>2, <3>1, <3>2
    <3> QED
      BY <2>1, <3>1, <3>3 DEF ReponsePartie, Calme
  <2>2. CASE /\ ReponsePerdue
             /\ \E j \in 1 .. Trame : /\ Head(versClient) = Bruit(j) /\ Tail(versClient) = <<>>
                                      /\ len + j < MAX_ERROR_SIZE
    BY <2>2 DEF ReponsePerdue
  <2> QED
    BY <1>1, <2>1, <2>2, TeteClient, Formes
<1>4. PICK j \in 1 .. Trame : Head(versClient) = Bruit(j) /\ len + j < MAX_ERROR_SIZE
  BY <1>3
<1>5. Head(versClient).n = j
  BY <1>4, Formes
<1>6. ~TamponPlein
  BY <1>2, <1>4 DEF TamponPlein
<1>7. len' = len + 1 /\ UNCHANGED <<phase, versSim>>
  BY <1>6 DEF LireBruit
<1>8. \/ versClient' = <<>>
      \/ \E k \in 1 .. Trame : versClient' = <<Bruit(k)>> /\ len' + k < MAX_ERROR_SIZE
  <2>1. CASE j > 1
    <3>1. versClient' = <<Bruit(j - 1)>> \o <<>>
      BY <1>3, <1>5, <2>1 DEF LireBruit
    <3>2. versClient' = <<Bruit(j - 1)>>
      BY <3>1, Mots
    <3>3. j - 1 \in 1 .. Trame /\ len' + (j - 1) < MAX_ERROR_SIZE
      BY <1>2, <1>4, <1>7, <2>1
    <3> QED
      BY <3>2, <3>3
  <2>2. CASE ~(j > 1)
    BY <1>3, <1>5, <2>2 DEF LireBruit
  <2> QED
    BY <2>1, <2>2
<1>9. len' > 0
  BY <1>2, <1>7
<1>10. ReponsePerdue'
  BY <1>1, <1>3, <1>7, <1>8, <1>9 DEF ReponsePerdue, Repondue
<1> QED
  BY <1>10 DEF EnPhase

LEMMA EnPhaseClient ==
  ASSUME TInv, EnPhase, Sain, ouvert, NextClient, UNCHANGED <<simulateur, alteres>>
  PROVE  EnPhase'
<1>1. ~LireFin /\ ~LireRompu
  BY DEF LireFin, LireRompu, Perdu
<1> QED
  BY <1>1, PasConnecter, PasEnvoyer, PasLireAccuse, PasLireDemande, PasLireReponse, PasLireBruit
     DEF NextClient, Lire

-----------------------------------------------------------------------------
(***************************************************************************)
(* What the simulator can find in front of it, by kind.                    *)
(***************************************************************************)
LEMMA TeteSim ==
  ASSUME EnPhase, versSim # <<>>
  PROVE  \/ /\ Head(versSim) = Signe("+") /\ CommandePartie
            /\ \E x \in Arrive(commande) : Tail(versSim) = <<x>>
         \/ /\ CommandePartie
            /\ \E x \in Arrive(commande) : Head(versSim) = x /\ Tail(versSim) = <<>>
         \/ /\ Head(versSim) = Signe("+") /\ (AvantEnvoi \/ Finie \/ Refusee)
            /\ Tail(versSim) = <<>>
         \/ Head(versSim) = Signe("-") /\ ReponseRedemandee /\ Tail(versSim) = <<>>
<1>1. CASE CommandePartie
  BY <1>1, DerriereCas DEF CommandePartie
<1>2. CASE AvantEnvoi \/ Finie \/ Refusee
  BY <1>2, AuPlusUnCas DEF AvantEnvoi, Finie, Refusee
<1>3. CASE ReponseRedemandee
  BY <1>3, Mots DEF ReponseRedemandee
<1> QED
  BY <1>1, <1>2, <1>3 DEF EnPhase, CommandePerdue, CommandeRedemandee, ReponsePartie,
     ReponsePerdue, EnMarche

LEMMA SimLu ==
  ASSUME NEW s, SimLit(s)
  PROVE  /\ ouvert /\ ~marche /\ versSim # <<>> /\ Head(versSim).sorte = s
         /\ versSim' = Tail(versSim)
         /\ UNCHANGED <<phase, commande, packet, len, ecoute, ouvert, alteres>>
BY DEF SimLit, client

(***************************************************************************)
(* The other half of Rythme while the simulator is there.                  *)
(***************************************************************************)
Suivi == Journal /\ (~marche => reponse = Len(journal))

LEMMA JournalSuite ==
  ASSUME Journal, NEW S, journal \in Seq(S), NEW x, x = Len(journal) + 1,
         journal' = Append(journal, x)
  PROVE  Journal' /\ Len(journal') = x
<1>1. Len(journal) \in Nat
  OBVIOUS
<1>2. Len(journal') = x /\ DOMAIN journal' = 1 .. x
  BY <1>1
<1>3. ASSUME NEW i \in 1 .. x
      PROVE  journal'[i] = i
  <2>1. CASE i = x
    BY <1>1, <2>1
  <2>2. CASE i # x
    <3>1. i \in 1 .. Len(journal)
      BY <1>1, <2>2
    <3>2. journal'[i] = journal[i]
      BY <3>1
    <3>3. journal[i] = i
      BY <3>1 DEF Journal
    <3> QED
      BY <3>2, <3>3
  <2> QED
    BY <2>1, <2>2
<1>4. journal' = [i \in 1 .. x |-> journal'[i]]
  <2>1. journal' \in Seq(S \union {x})
    OBVIOUS
  <2> QED
    BY <1>2, <2>1, FileFonction
<1>5. [i \in 1 .. x |-> journal'[i]] = [i \in 1 .. x |-> i]
  BY <1>3
<1> QED
  BY <1>2, <1>4, <1>5 DEF Journal

LEMMA PasSimCommande ==
  ASSUME TInv, EnPhase, Suivi, SimCommande
  PROVE  EnPhase' /\ Suivi'
<1>1. /\ ~marche /\ versSim # <<>> /\ Head(versSim).sorte = "paquet" /\ Head(versSim).juste
      /\ versSim' = Tail(versSim) /\ UNCHANGED <<phase, commande, packet, len, alteres>>
  BY SimLu DEF SimCommande
<1>2. CommandePartie /\ Tail(versSim) = <<>> /\ Head(versSim).n = commande
  BY <1>1, TeteSim, ArriveCas, Formes
<1>3. /\ journal' = Append(journal, commande)
      /\ marche' = (Programme[commande] = "c")
      /\ reponse' = IF marche' THEN reponse ELSE commande
      /\ versClient' = versClient \o SimPlainte \o <<Signe("+")>>
                         \o IF marche' THEN <<>> ELSE <<Paquet(commande)>>
      /\ texte' = FALSE
  BY <1>2 DEF SimCommande
<1>4. versClient = <<>> /\ SimPlainte = <<>> /\ len = 0 /\ phase = "attente"
      /\ Len(journal) = commande - 1
  BY <1>2 DEF CommandePartie, Attendue, Calme, SimPlainte
<1>5. commande \in Nat /\ journal \in Seq(1 .. Len(Programme))
  BY DEF TInv, TClient, TSim
<1>6. Len(journal') = commande
  BY <1>3, <1>4, <1>5
<1>7. Journal'
  BY <1>3, <1>4, <1>5, JournalSuite DEF Suivi
<1>8. Suivi'
  BY <1>3, <1>6, <1>7 DEF Suivi
<1>9. CASE marche'
  <2>1. versClient' = <<Signe("+")>>
    BY <1>3, <1>4, <1>9, Mots
  <2>2. EnMarche'
    BY <1>1, <1>2, <1>3, <1>4, <1>6, <1>9, <2>1 DEF EnMarche, AuPlusUn
  <2> QED
    BY <1>8, <2>2 DEF EnPhase
<1>10. CASE ~marche'
  <2>1. versClient' = <<Signe("+"), Paquet(commande)>>
    BY <1>3, <1>4, <1>10, Mots
  <2>2. Derriere(versClient, Arrive(commande))'
    BY <1>1, <2>1 DEF Derriere, Arrive
  <2>3. ReponsePartie'
    BY <1>1, <1>2, <1>3, <1>4, <1>6, <1>10, <2>2 DEF ReponsePartie, Repondue, Calme
  <2> QED
    BY <1>8, <2>3 DEF EnPhase
<1> QED
  BY <1>9, <1>10

LEMMA PasSimRefuse ==
  ASSUME TInv, EnPhase, Suivi, SimRefuse
  PROVE  EnPhase' /\ Suivi'
<1>1. /\ versSim # <<>> /\ Head(versSim).sorte = "paquet"
      /\ versSim' = Tail(versSim) /\ UNCHANGED <<phase, commande, packet, len, alteres>>
      /\ UNCHANGED <<journal, reponse, marche>> /\ texte' = FALSE
      /\ versClient' = versClient \o SimPlainte \o <<Signe("-")>>
  BY SimLu DEF SimRefuse
<1>2. CommandePartie /\ Tail(versSim) = <<>>
  BY <1>1, TeteSim, ArriveCas, Formes
<1>3. versClient = <<>> /\ SimPlainte = <<>>
  BY <1>2 DEF CommandePartie, Calme, SimPlainte
<1>4. versClient' = <<Signe("-")>>
  BY <1>1, <1>3, Mots
<1>5. CommandeRedemandee'
  BY <1>1, <1>2, <1>4 DEF CommandeRedemandee, CommandePartie, Attendue, Calme
<1> QED
  BY <1>1, <1>5 DEF EnPhase, Suivi, Journal

LEMMA PasSimAccuse ==
  ASSUME TInv, EnPhase, Suivi, SimAccuse
  PROVE  EnPhase' /\ Suivi'
<1>1. /\ versSim # <<>> /\ Head(versSim).sorte = "+"
      /\ versSim' = Tail(versSim) /\ UNCHANGED <<phase, commande, packet, len, alteres>>
      /\ UNCHANGED <<journal, reponse, marche>> /\ texte' = FALSE
      /\ versClient' = versClient \o SimPlainte
  BY SimLu DEF SimAccuse
<1>2. Suivi'
  BY <1>1 DEF Suivi, Journal
<1>3. \/ CommandePartie /\ \E x \in Arrive(commande) : Tail(versSim) = <<x>>
      \/ (AvantEnvoi \/ Finie \/ Refusee) /\ Tail(versSim) = <<>>
  BY <1>1, TeteSim, ArriveCas, Formes
<1>4. versClient' = <<>> /\ ~texte
  BY <1>1, <1>3, Mots DEF CommandePartie, AvantEnvoi, Finie, Refusee, Calme, SimPlainte
<1>5. CASE CommandePartie /\ \E x \in Arrive(commande) : Tail(versSim) = <<x>>
  <2>1. Derriere(versSim, Arrive(commande))'
    BY <1>1, <1>5 DEF Derriere, Arrive
  <2>2. CommandePartie'
    BY <1>1, <1>4, <1>5, <2>1 DEF CommandePartie, Attendue, Calme
  <2> QED
    BY <1>2, <2>2 DEF EnPhase
<1>6. CASE AvantEnvoi /\ Tail(versSim) = <<>>
  BY <1>1, <1>2, <1>4, <1>6 DEF AvantEnvoi, EnPhase, Calme, AuPlusUn
<1>7. CASE Finie /\ Tail(versSim) = <<>>
  BY <1>1, <1>2, <1>4, <1>7 DEF Finie, EnPhase, Calme, AuPlusUn
<1>8. CASE Refusee /\ Tail(versSim) = <<>>
  BY <1>1, <1>2, <1>4, <1>8 DEF Refusee, EnPhase, Calme, AuPlusUn
<1> QED
  BY <1>3, <1>5, <1>6, <1>7, <1>8

LEMMA PasSimDemande ==
  ASSUME TInv, EnPhase, Suivi, SimDemande
  PROVE  EnPhase' /\ Suivi'
<1>1. /\ versSim # <<>> /\ Head(versSim).sorte = "-"
      /\ versSim' = Tail(versSim) /\ UNCHANGED <<phase, commande, packet, len, alteres>>
      /\ UNCHANGED <<journal, reponse, marche>> /\ texte' = FALSE
  BY SimLu DEF SimDemande
<1>2. ReponseRedemandee /\ Tail(versSim) = <<>>
  BY <1>1, TeteSim, ArriveCas, Formes
<1>3. versClient = <<>> /\ SimPlainte = <<>> /\ reponse = commande /\ commande # 0
  BY <1>2 DEF ReponseRedemandee, Repondue, Calme, SimPlainte, Suivi, TInv, TClient
<1>4. versClient' = <<Paquet(commande)>>
  <2>1. versClient' = versClient \o SimPlainte \o <<Paquet(commande)>>
    BY <1>3 DEF SimDemande
  <2> QED
    BY <1>3, <2>1, Mots
<1>5. Derriere(versClient, Arrive(commande))'
  BY <1>1, <1>4 DEF Derriere, Arrive
<1>6. ReponsePartie'
  BY <1>1, <1>2, <1>5 DEF ReponsePartie, ReponseRedemandee, Repondue, Calme
<1> QED
  BY <1>1, <1>6 DEF EnPhase, Suivi, Journal

LEMMA PasSimBruit ==
  ASSUME TInv, EnPhase, Suivi, SimBruit
  PROVE  EnPhase' /\ Suivi'
<1>1. /\ versSim # <<>> /\ Head(versSim).sorte = "bruit"
      /\ versSim' = Tail(versSim) /\ UNCHANGED <<phase, commande, packet, len, alteres>>
      /\ UNCHANGED <<versClient, journal, reponse, marche>> /\ texte' = TRUE
  BY SimLu DEF SimBruit
<1>2. CommandePartie /\ Tail(versSim) = <<>>
  BY <1>1, TeteSim, ArriveCas, Formes
<1>3. CommandePerdue'
  BY <1>1, <1>2 DEF CommandePerdue, CommandePartie, Attendue, Calme
<1> QED
  BY <1>1, <1>3 DEF EnPhase, Suivi, Journal

LEMMA PasSimFin ==
  ASSUME EnPhase, SimFin
  PROVE  Sorti' /\ ~ouvert' /\ UNCHANGED journal
<1>1. /\ UNCHANGED <<phase, commande, packet, len, versSim, versClient, journal>> /\ ~ouvert'
      /\ marche \/ phase \in {"fini", "rompu"}
  BY DEF SimFin, client, lien
<1>2. EnMarche \/ Finie \/ Refusee
  BY <1>1 DEF EnPhase, AvantEnvoi, CommandePartie, CommandePerdue, CommandeRedemandee,
     ReponsePartie, ReponsePerdue, ReponseRedemandee, Calme, Attendue, Repondue
<1>3. CASE EnMarche
  BY <1>1, <1>3 DEF EnMarche, Sorti, SortiEnMarche, AuPlusUn
<1>4. CASE Finie
  BY <1>1, <1>4 DEF Finie, Sorti, SortiFinie
<1>5. CASE Refusee
  BY <1>1, <1>5 DEF Refusee, Sorti, SortiRefusee
<1> QED
  BY <1>1, <1>2, <1>3, <1>4, <1>5

-----------------------------------------------------------------------------
(***************************************************************************)
(* After the simulator has exited the client reads what it had sent, and   *)
(* the end of the stream.                                                  *)
(***************************************************************************)
LEMMA PasSorti ==
  ASSUME TInv, Sorti, ~ouvert, NextClient, UNCHANGED <<simulateur, alteres>>
  PROVE  Sorti'
<1>1. UNCHANGED journal
  BY DEF simulateur
<1>2. phase = "attente" \/ phase \in {"connexion", "envoi"}
  BY DEF NextClient, Connecter, Envoyer, Lire, LireAccuse, LireDemande, LireReponse, LireBruit,
         LireFin, LireRompu, Recu
<1>3. SortiEnMarche
  BY <1>2 DEF Sorti, SortiEnMarche, SortiFinie, SortiRefusee
<1>4. Plainte = <<>> /\ ~Perdu /\ (versClient # <<>> => Head(versClient).sorte = "+" /\ Tail(versClient) = <<>>)
  BY <1>3, AuPlusUnCas, Formes DEF SortiEnMarche, Plainte, Perdu
<1>5. LireAccuse \/ LireFin
  BY <1>3, <1>4 DEF SortiEnMarche, NextClient, Connecter, Envoyer, Lire, LireDemande, LireReponse,
     LireBruit, LireRompu, Recu
<1>6. CASE LireAccuse
  <2>1. versSim' = versSim \o <<>> /\ phase' = "attente" /\ len' = 0 /\ UNCHANGED commande
        /\ versClient' = <<>>
    BY <1>4, <1>6 DEF LireAccuse, Recu, Ecrire
  <2>2. versSim' = <<>>
    BY <1>3, <2>1, Mots DEF SortiEnMarche
  <2>3. SortiEnMarche'
    BY <1>1, <1>3, <2>1, <2>2 DEF SortiEnMarche, AuPlusUn
  <2> QED
    BY <2>3 DEF Sorti
<1>7. CASE LireFin
  <2>1. phase' = PhaseApres(TRUE) /\ commande' = CommandeApres(TRUE)
    BY <1>4, <1>7 DEF LireFin, Ecrire
  <2>2. Derniere(TRUE)
    BY <1>3 DEF SortiEnMarche, Derniere
  <2>3. phase' = "fini" /\ commande' = commande
    BY <2>1, <2>2 DEF PhaseApres, CommandeApres
  <2>4. SortiFinie'
    BY <1>1, <1>3, <2>3 DEF SortiFinie, SortiEnMarche
  <2> QED
    BY <2>4 DEF Sorti
<1> QED
  BY <1>5, <1>6, <1>7

-----------------------------------------------------------------------------
(***************************************************************************)
(* Damage that leaves the line sane: of a packet, on either way.           *)
(***************************************************************************)
LEMMA SainAvant ==
  ASSUME TInv, NEW s, NEW t, NEW i, NEW d, NEW j, Degat(s, t, i, d, j), Sain'
  PROVE  /\ Sain /\ d \in {"commande", "reponse", "debut"}
         /\ alteres["debut"] > 0 \/ d = "debut" => alteres'["debut"] > 0
<1>1. alteres \in [Degats -> Nat] /\ d \in Degats /\ alteres' = [alteres EXCEPT ![d] = @ + 1]
  BY LigneAssumption DEF Degat, TInv, TAlteres
<1>2. \A e \in Degats : alteres'[e] = IF e = d THEN alteres[e] + 1 ELSE alteres[e]
  BY <1>1
<1>3. Degats = {"commande", "reponse", "signeSim", "signeClient", "debut"}
  BY DEF Degats
<1>4. /\ alteres'["signeSim"] = 0 /\ alteres'["signeClient"] = 0
      /\ alteres'["debut"] > 0 => Trame < MAX_ERROR_SIZE
  BY <1>3 DEF Sain, Seulement
<1>5. d # "signeSim" /\ d # "signeClient"
  <2>1. ASSUME NEW e \in Degats, alteres'[e] = 0
        PROVE  d # e
    BY <1>1, <1>2, <2>1
  <2> QED
    BY <1>3, <1>4, <2>1
<1>6. d \in {"commande", "reponse", "debut"}
  BY <1>1, <1>3, <1>5
<1>7. alteres["debut"] > 0 \/ d = "debut" => alteres'["debut"] > 0
  BY <1>1, <1>2, <1>3
<1>8. alteres["signeSim"] = 0 /\ alteres["signeClient"] = 0
  BY <1>1, <1>2, <1>3, <1>4, <1>5
<1>9. alteres["debut"] > 0 => Trame < MAX_ERROR_SIZE
  BY <1>4, <1>7
<1> QED
  BY <1>6, <1>7, <1>8, <1>9, SainCas

LEMMA AbimeUn ==
  ASSUME NEW n, NEW s, NEW t, NEW i \in DOMAIN s, NEW d, NEW j, Derriere(s, Arrive(n)),
         s[i].sorte = "paquet", Degat(s, t, i, d, j), j \in Arrive(n)'
  PROVE  Derriere(t, Arrive(n)')
<1>1. PICK x \in Arrive(n) : s = <<x>> \/ s = <<Signe("+"), x>>
  BY DEF Derriere
<1>2. t = [s EXCEPT ![i] = j]
  BY DEF Degat
<1>3. CASE s = <<x>>
  <2>1. i = 1
    BY <1>3
  <2>2. t = <<j>>
    BY <1>2, <1>3, <2>1
  <2> QED
    BY <2>2 DEF Derriere
<1>4. CASE s = <<Signe("+"), x>>
  <2>1. i \in {1, 2}
    BY <1>4
  <2>2. s[1].sorte = "+"
    BY <1>4, Formes
  <2>3. i = 2
    BY <2>1, <2>2
  <2>4. t = <<Signe("+"), j>>
    BY <1>2, <1>4, <2>3
  <2> QED
    BY <2>4 DEF Derriere
<1> QED
  BY <1>1, <1>3, <1>4

(***************************************************************************)
(* A damaged packet still is the packet it was, as it may arrive.          *)
(***************************************************************************)
LEMMA AbimeArrive ==
  ASSUME NEW n, NEW s, NEW i \in DOMAIN s, Derriere(s, Arrive(n)), s[i].sorte = "paquet",
         s[i].juste
  PROVE  [s[i] EXCEPT !.juste = FALSE] = Mauvais(n)
<1>1. PICK x \in Arrive(n) : s = <<x>> \/ s = <<Signe("+"), x>>
  BY DEF Derriere
<1>2. s[i] = x \/ s[i] = Signe("+")
  BY <1>1
<1>3. s[i] = x
  BY <1>2, Formes
<1>4. x = Paquet(n)
  BY <1>3, ArriveCas
<1> QED
  BY <1>3, <1>4 DEF Mauvais

LEMMA PasLigne ==
  ASSUME TInv, EnPhase, AltererCommande \/ AltererReponse \/ AltererSigne, Sain'
  PROVE  EnPhase'
<1>1. UNCHANGED <<phase, commande, packet, len, journal, texte, marche>>
  BY CasDegats DEF client, simulateur
<1>2. ASSUME NEW n, NEW s, NEW t, NEW i \in DOMAIN s, NEW d, Derriere(s, Arrive(n)),
             s[i].sorte = "paquet", s[i].juste, d \in {"commande", "reponse", "debut"},
             \/ Degat(s, t, i, d, [s[i] EXCEPT !.juste = FALSE])
             \/ d = "debut" /\ Trame > 0 /\ Degat(s, t, i, d, Bruit(Trame))
      PROVE  Derriere(t, Arrive(n)')
  <2>1. CASE Degat(s, t, i, d, [s[i] EXCEPT !.juste = FALSE])
    <3>1. [s[i] EXCEPT !.juste = FALSE] \in Arrive(n)'
      BY <1>2, AbimeArrive DEF Arrive
    <3> QED
      BY <1>2, <2>1, <3>1, AbimeUn
  <2>2. CASE d = "debut" /\ Trame > 0 /\ Degat(s, t, i, d, Bruit(Trame))
    <3>1. Bruit(Trame) \in Arrive(n)'
      BY <2>2, SainAvant DEF Arrive
    <3> QED
      BY <1>2, <2>2, <3>1, AbimeUn
  <2> QED
    BY <1>2, <2>1, <2>2
<1>3. \/ /\ UNCHANGED versClient
         /\ \E i \in DOMAIN versSim, d \in {"commande", "debut"} :
              /\ versSim[i].sorte = "paquet" /\ versSim[i].juste
              /\ \/ Degat(versSim, versSim', i, d, [versSim[i] EXCEPT !.juste = FALSE])
                 \/ d = "debut" /\ Trame > 0 /\ Degat(versSim, versSim', i, d, Bruit(Trame))
      \/ /\ UNCHANGED versSim
         /\ \E i \in DOMAIN versClient, d \in {"reponse", "debut"} :
              /\ versClient[i].sorte = "paquet" /\ versClient[i].juste
              /\ \/ Degat(versClient, versClient', i, d, [versClient[i] EXCEPT !.juste = FALSE])
                 \/ d = "debut" /\ Trame > 0 /\ Degat(versClient, versClient', i, d, Bruit(Trame))
  <2>1. \A s, t, i, j : ~Degat(s, t, i, "signeSim", j) /\ ~Degat(s, t, i, "signeClient", j)
    BY SainAvant
  <2> QED
    BY <2>1, CasDegats
<1>4. CASE /\ UNCHANGED versClient
           /\ \E i \in DOMAIN versSim, d \in {"commande", "debut"} :
                /\ versSim[i].sorte = "paquet" /\ versSim[i].juste
                /\ \/ Degat(versSim, versSim', i, d, [versSim[i] EXCEPT !.juste = FALSE])
                   \/ d = "debut" /\ Trame > 0 /\ Degat(versSim, versSim', i, d, Bruit(Trame))
  <2>1. PICK i \in DOMAIN versSim, d \in {"commande", "debut"} :
          /\ versSim[i].sorte = "paquet" /\ versSim[i].juste
          /\ \/ Degat(versSim, versSim', i, d, [versSim[i] EXCEPT !.juste = FALSE])
             \/ d = "debut" /\ Trame > 0 /\ Degat(versSim, versSim', i, d, Bruit(Trame))
    BY <1>4
  <2>2. versSim # <<>> /\ versSim # <<Signe("+")>> /\ versSim # <<Signe("-")>>
    BY <2>1, Formes
  <2>3. CommandePartie
    BY <2>2 DEF EnPhase, AvantEnvoi, CommandePerdue, CommandeRedemandee, ReponsePartie,
       ReponsePerdue, ReponseRedemandee, EnMarche, Finie, Refusee, AuPlusUn
  <2>4. Derriere(versSim, Arrive(commande))'
    BY <1>1, <1>2, <2>1, <2>3 DEF CommandePartie
  <2>5. CommandePartie'
    BY <1>1, <1>4, <2>3, <2>4 DEF CommandePartie, Attendue, Calme
  <2> QED
    BY <2>5 DEF EnPhase
<1>5. CASE /\ UNCHANGED versSim
           /\ \E i \in DOMAIN versClient, d \in {"reponse", "debut"} :
                /\ versClient[i].sorte = "paquet" /\ versClient[i].juste
                /\ \/ Degat(versClient, versClient', i, d, [versClient[i] EXCEPT !.juste = FALSE])
                   \/ d = "debut" /\ Trame > 0 /\ Degat(versClient, versClient', i, d, Bruit(Trame))
  <2>1. PICK i \in DOMAIN versClient, d \in {"reponse", "debut"} :
          /\ versClient[i].sorte = "paquet" /\ versClient[i].juste
          /\ \/ Degat(versClient, versClient', i, d, [versClient[i] EXCEPT !.juste = FALSE])
             \/ d = "debut" /\ Trame > 0 /\ Degat(versClient, versClient', i, d, Bruit(Trame))
    BY <1>5
  <2>2. versClient # <<>> /\ versClient # <<Signe("+")>> /\ versClient # <<Signe("-")>>
        /\ \A j : versClient # <<Bruit(j)>>
    BY <2>1, Formes
  <2>3. ReponsePartie
    BY <2>2 DEF EnPhase, AvantEnvoi, CommandePartie, CommandePerdue, CommandeRedemandee,
       ReponsePerdue, ReponseRedemandee, EnMarche, Finie, Refusee, AuPlusUn
  <2>4. Derriere(versClient, Arrive(commande))'
    BY <1>1, <1>2, <2>1, <2>3 DEF ReponsePartie
  <2>5. ReponsePartie'
    BY <1>1, <1>5, <2>3, <2>4 DEF ReponsePartie, Repondue, Calme
  <2> QED
    BY <2>5 DEF EnPhase
<1> QED
  BY <1>3, <1>4, <1>5

LEMMA SortiLigne ==
  ASSUME TInv, Sorti, AltererCommande \/ AltererReponse \/ AltererSigne, Sain'
  PROVE  Sorti'
<1>1. UNCHANGED <<phase, commande, packet, len, journal>>
  BY CasDegats DEF client, simulateur
<1>2. CASE SortiFinie \/ SortiRefusee
  BY <1>1, <1>2 DEF Sorti, SortiFinie, SortiRefusee
<1>3. ~SortiEnMarche
  <2>1. SUFFICES ASSUME SortiEnMarche
                 PROVE  FALSE
    OBVIOUS
  <2>2. versSim = <<>> /\ (versClient = <<>> \/ versClient = <<Signe("+")>>)
    BY <2>1 DEF SortiEnMarche, AuPlusUn
  <2>3. \A s, t, i, j : ~Degat(s, t, i, "signeSim", j) /\ ~Degat(s, t, i, "signeClient", j)
    BY SainAvant
  <2>4. \A i \in DOMAIN versClient : versClient[i].sorte # "paquet"
    BY <2>2, Formes
  <2>5. \A i \in DOMAIN versSim : FALSE
    BY <2>2
  <2> QED
    BY <2>3, <2>4, <2>5, CasDegats
<1> QED
  BY <1>2, <1>3 DEF Sorti

(***************************************************************************)
(* Rythme holds at the start and every step preserves it.                  *)
(***************************************************************************)
LEMMA RythmeInit == Init => Rythme
<1> SUFFICES ASSUME Init
             PROVE  Rythme
  OBVIOUS
<1>1. Len(journal) = 0 /\ reponse = 0 /\ commande = 1 /\ ouvert
  BY DEF Init
<1>2. Journal
  BY DEF Init, Journal
<1>3. AvantEnvoi
  BY <1>1 DEF Init, AvantEnvoi, AuPlusUn, Calme
<1> QED
  BY <1>1, <1>2, <1>3 DEF Rythme, EnPhase

LEMMA SainGarde == UNCHANGED alteres => (Sain' <=> Sain)
BY DEF Sain, Seulement

LEMMA RythmeClient ==
  ASSUME TInv, Rythme, Client
  PROVE  Rythme'
<1>1. NextClient /\ UNCHANGED <<simulateur, alteres>>
  BY DEF Client
<1>2. UNCHANGED <<journal, reponse, marche, ouvert, ecoute>>
  BY <1>1 DEF simulateur, NextClient, Connecter, Envoyer, Lire, LireAccuse, LireDemande,
     LireReponse, LireBruit, LireFin, LireRompu, Recu
<1>3. SUFFICES ASSUME Sain
               PROVE  /\ Journal'
                      /\ ouvert => EnPhase' /\ (~marche => reponse = Len(journal))
                      /\ ~ouvert /\ ecoute # 0 => Sorti'
  BY <1>1, <1>2, SainGarde DEF Rythme
<1>4. Journal'
  BY <1>2, <1>3 DEF Rythme, Journal
<1>5. ouvert => EnPhase' /\ (~marche => reponse = Len(journal))
  BY <1>1, <1>3, EnPhaseClient DEF Rythme
<1>6. ~ouvert /\ ecoute # 0 => Sorti'
  BY <1>1, <1>3, PasSorti DEF Rythme
<1> QED
  BY <1>4, <1>5, <1>6

LEMMA RythmeSimulateur ==
  ASSUME TInv, Rythme, Simulateur \/ SimEcoute \/ SimPanne
  PROVE  Rythme'
<1>1. UNCHANGED alteres /\ ouvert
  BY DEF Simulateur, SimCommande, SimRefuse, SimAccuse, SimDemande, SimBruit, SimLit, SimFin,
         SimEcoute, SimPanne
<1>2. SUFFICES ASSUME Sain
               PROVE  /\ Journal'
                      /\ ouvert' => EnPhase' /\ Suivi'
                      /\ ~ouvert' /\ ecoute' # 0 => Sorti'
  BY <1>1, SainGarde DEF Rythme, Suivi
<1>3. EnPhase /\ Suivi
  BY <1>1, <1>2 DEF Rythme, Suivi
<1>4. CASE SimCommande \/ SimRefuse \/ SimAccuse \/ SimDemande \/ SimBruit
  <2>1. EnPhase' /\ Suivi'
    BY <1>3, <1>4, PasSimCommande, PasSimRefuse, PasSimAccuse, PasSimDemande, PasSimBruit
  <2>2. ouvert'
    BY <1>1, <1>4 DEF SimCommande, SimRefuse, SimAccuse, SimDemande, SimBruit, SimLit
  <2> QED
    BY <2>1, <2>2 DEF Suivi
<1>5. CASE SimFin
  BY <1>3, <1>5, PasSimFin DEF Suivi, Journal
<1>6. CASE SimEcoute
  <2>1. UNCHANGED <<client, ouvert, lien, simulateur, alteres>>
    BY <1>6 DEF SimEcoute
  <2>2. EnPhase'
    BY <1>3, <2>1 DEF client, lien, simulateur, EnPhase, AvantEnvoi, CommandePartie,
       CommandePerdue, CommandeRedemandee, ReponsePartie, ReponsePerdue, ReponseRedemandee,
       EnMarche, Finie, Refusee, Attendue, Repondue, Calme, Derriere, Arrive, AuPlusUn
  <2>3. Suivi'
    BY <1>3, <2>1 DEF simulateur, Suivi, Journal
  <2> QED
    BY <1>1, <2>1, <2>2, <2>3 DEF Suivi
<1>7. CASE SimPanne
  BY <1>3, <1>7 DEF SimPanne, Suivi, Journal
<1> QED
  BY <1>4, <1>5, <1>6, <1>7 DEF Simulateur

LEMMA RythmeLigne ==
  ASSUME TInv, Rythme, AltererCommande \/ AltererReponse \/ AltererSigne
  PROVE  Rythme'
<1>1. UNCHANGED <<journal, reponse, marche, ouvert, ecoute>>
  BY CasDegats DEF simulateur
<1>2. SUFFICES ASSUME Sain'
               PROVE  /\ Journal
                      /\ ouvert => EnPhase' /\ (~marche => reponse = Len(journal))
                      /\ ~ouvert /\ ecoute # 0 => Sorti'
  BY <1>1 DEF Rythme, Journal
<1>3. Sain
  <2>1. PICK s, t, i, d, j : Degat(s, t, i, d, j)
    BY CasDegats
  <2> QED
    BY <1>2, <2>1, SainAvant
<1>4. ouvert => EnPhase'
  BY <1>2, <1>3, PasLigne DEF Rythme
<1>5. ~ouvert /\ ecoute # 0 => Sorti'
  BY <1>2, <1>3, SortiLigne DEF Rythme
<1> QED
  BY <1>3, <1>4, <1>5 DEF Rythme

LEMMA RythmeSuite == TInv /\ Rythme /\ [Next]_vars => Rythme'
<1> SUFFICES ASSUME TInv, Rythme, [Next]_vars
             PROVE  Rythme'
  OBVIOUS
<1>1. CASE UNCHANGED vars
  BY <1>1 DEF vars, client, lien, simulateur, Rythme, Sain, Seulement, Journal, Sorti,
     SortiEnMarche, SortiFinie, SortiRefusee, EnPhase, AvantEnvoi, CommandePartie,
     CommandePerdue, CommandeRedemandee, ReponsePartie, ReponsePerdue, ReponseRedemandee,
     EnMarche, Finie, Refusee, Attendue, Repondue, Calme, Derriere, Arrive, AuPlusUn
<1> QED
  BY <1>1, RythmeClient, RythmeSimulateur, RythmeLigne DEF Next

-----------------------------------------------------------------------------
LEMMA InvariantsDeSession == Spec => [](TInv /\ Rythme)
BY TInit, TInvSuite, RythmeInit, RythmeSuite, PTL DEF Spec

LEMMA SansDegat == Seulement({}) /\ TInv => Sain
BY SainCas DEF Seulement, Degats, TInv, TAlteres

(***************************************************************************)
(* SessionComplete, for every program whose "c" comes last (arm_run is the *)
(* last call of sample_run): on a line that damages nothing, a client that *)
(* was answered ends normally, after the simulator has carried out the     *)
(* whole program, each command once and in order.                          *)
(***************************************************************************)
THEOREM SessionToujoursComplete ==
  ASSUME \A i \in DOMAIN Programme : Programme[i] = "c" => i = Len(Programme)
  PROVE  Spec => []SessionComplete
<1>1. TInv /\ Rythme => SessionComplete
  <2> SUFFICES ASSUME TInv, Rythme, Seulement({}), Arrete, ecoute # 0, packet # 0
               PROVE  /\ phase = "fini" /\ journal = [i \in DOMAIN Programme |-> i]
                      /\ Programme[Len(Programme)] = "c" => ~ouvert
    BY DEF SessionComplete
  <2>1. Journal /\ (ouvert => EnPhase) /\ (~ouvert => Sorti)
    BY SansDegat DEF Rythme
  <2>2. ouvert => Finie
    BY <2>1 DEF Arrete, EnPhase, AvantEnvoi, CommandePartie, CommandePerdue, CommandeRedemandee,
       ReponsePartie, ReponsePerdue, ReponseRedemandee, EnMarche, Refusee, Attendue, Repondue
  <2>3. ~ouvert => SortiFinie
    BY <2>1 DEF Arrete, Sorti, SortiEnMarche, SortiRefusee
  <2>4. commande \in DOMAIN Programme /\ DOMAIN Programme = 1 .. Len(Programme)
    BY ProgrammeAssumption DEF TInv, TClient
  <2>5. phase = "fini" /\ Len(journal) = commande /\ commande = Len(Programme)
    BY <2>2, <2>3, <2>4 DEF Finie, SortiFinie
  <2>6. journal = [i \in DOMAIN Programme |-> i]
    BY <2>1, <2>4, <2>5 DEF Journal
  <2>7. Programme[Len(Programme)] = "c" => ~ouvert
    BY <2>2, <2>5 DEF Finie
  <2> QED
    BY <2>5, <2>6, <2>7
<1> QED
  BY <1>1, InvariantsDeSession, PTL

-----------------------------------------------------------------------------
(***************************************************************************)
(* The steps of the session as steps of the rendez-vous.                   *)
(***************************************************************************)
LEMMA AppelInit == Init => Appel!Init
BY DEF Init, Appel!Init, Rendues

(***************************************************************************)
(* A call of yylex comes back with the answer of its command, or with the  *)
(* end of the stream once the simulator is gone.                           *)
(***************************************************************************)
LEMMA AppelClient ==
  ASSUME TInv, ouvert => EnPhase, Client
  PROVE  Appel!Rendre \/ UNCHANGED <<Len(journal), Rendues, ~ouvert>>
<1>1. UNCHANGED <<journal, ouvert>> /\ commande \in Nat
  <2>1. UNCHANGED ouvert
    BY DEF Client, NextClient, Connecter, Envoyer, Lire, LireAccuse, LireDemande,
       LireReponse, LireBruit, LireFin, LireRompu, Recu
  <2> QED
    BY <2>1 DEF Client, simulateur, TInv, TClient
<1>2. ASSUME NEW fin \in BOOLEAN, phase = "attente", commande' = CommandeApres(fin),
             phase' \in {PhaseApres(fin), "rompu"}
      PROVE  Rendues' \in {Rendues, Rendues + 1}
  BY <1>1, <1>2 DEF CommandeApres, PhaseApres, Rendues
<1>3. CASE Connecter \/ Envoyer \/ LireAccuse \/ LireDemande \/ LireBruit \/ LireRompu
  <2>1. commande' = commande /\ phase # "fini" /\ phase' # "fini"
    BY <1>3 DEF Connecter, Envoyer, LireAccuse, LireDemande, LireBruit, LireRompu, Recu, Ecrire,
       SuiteEnvoi
  <2> QED
    BY <1>1, <2>1 DEF Rendues
<1>4. CASE LireReponse
  <2>1. phase = "attente" /\ versClient # <<>> /\ Head(versClient).sorte = "paquet"
    BY <1>4 DEF LireReponse, Recu
  <2>2. CASE ~Head(versClient).juste
    <3>1. commande' = commande /\ phase' # "fini"
      BY <1>4, <2>2 DEF LireReponse, Accepte, Ecrire
    <3> QED
      BY <1>1, <2>1, <3>1 DEF Rendues
  <2>3. CASE Head(versClient).juste
    <3>1. commande' = CommandeApres(FALSE) /\ phase' \in {PhaseApres(FALSE), "rompu"}
      BY <1>4, <2>3 DEF LireReponse, Accepte, Ecrire
    <3>2. Rendues' \in {Rendues, Rendues + 1}
      BY <1>2, <2>1, <3>1
    <3>3. ouvert => Rendues < Len(journal)
      <4>1. ouvert => ReponsePartie
        BY <2>1, TeteClient, Formes
      <4> QED
        BY <1>1, <2>1, <4>1 DEF ReponsePartie, Repondue, Rendues
    <3> QED
      BY <1>1, <3>2, <3>3 DEF Appel!Rendre
  <2> QED
    BY <2>2, <2>3
<1>5. CASE LireFin
  <2>1. phase = "attente" /\ ~ouvert /\ commande' = CommandeApres(TRUE)
        /\ phase' \in {PhaseApres(TRUE), "rompu"}
    BY <1>5 DEF LireFin, Ecrire
  <2>2. Rendues' \in {Rendues, Rendues + 1}
    BY <1>2, <2>1
  <2> QED
    BY <1>1, <2>1, <2>2 DEF Appel!Rendre
<1> QED
  BY <1>3, <1>4, <1>5 DEF Client, NextClient, Lire

LEMMA AppelSimulateur ==
  ASSUME TInv, ouvert => EnPhase, Simulateur \/ SimEcoute \/ SimPanne
  PROVE  \/ Appel!Executer \/ Appel!Partir
         \/ UNCHANGED <<Len(journal), Rendues, ~ouvert>>
<1>1. UNCHANGED <<phase, commande>> /\ ouvert
  BY DEF Simulateur, SimCommande, SimRefuse, SimAccuse, SimDemande, SimBruit, SimLit, SimFin,
     SimEcoute, SimPanne, client
<1>2. UNCHANGED Rendues
  BY <1>1 DEF Rendues
<1>3. CASE SimCommande
  <2>1. /\ ~marche /\ versSim # <<>> /\ Head(versSim).sorte = "paquet" /\ Head(versSim).juste
        /\ ouvert' = ouvert
    BY <1>3, SimLu DEF SimCommande
  <2>2. CommandePartie
    BY <1>1, <2>1, TeteSim, Formes
  <2>3. Len(journal) = Rendues
    BY <2>2 DEF CommandePartie, Attendue, Rendues
  <2>4. Len(journal') = Len(journal) + 1
    <3>1. journal' = Append(journal, Head(versSim).n) /\ journal \in Seq(1 .. Len(Programme))
      BY <1>3 DEF SimCommande, TInv, TSim
    <3>2. Head(versSim).n \in 1 .. Len(Programme)
      BY <2>1, FileQueue, PaquetLu DEF TInv, TLien
    <3> QED
      BY <3>1, <3>2
  <2> QED
    BY <1>1, <1>2, <2>1, <2>3, <2>4 DEF Appel!Executer
<1>4. CASE SimFin \/ SimPanne
  <2>1. UNCHANGED journal /\ ~ouvert'
    BY <1>4 DEF SimFin, SimPanne
  <2> QED
    BY <1>1, <1>2, <2>1 DEF Appel!Partir
<1>5. CASE SimRefuse \/ SimAccuse \/ SimDemande \/ SimBruit \/ SimEcoute
  <2>1. UNCHANGED <<journal, ouvert>>
    BY <1>5 DEF SimRefuse, SimAccuse, SimDemande, SimBruit, SimLit, SimEcoute, simulateur
  <2> QED
    BY <1>2, <2>1
<1> QED
  BY <1>3, <1>4, <1>5 DEF Simulateur

LEMMA AppelSuite == TInv /\ Rythme /\ Sain /\ [Next]_vars => [Appel!Next]_(Appel!rvars)
<1> SUFFICES ASSUME TInv, Rythme, Sain, [Next]_vars
             PROVE  Appel!Next \/ UNCHANGED <<Len(journal), Rendues, ~ouvert>>
  BY DEF Appel!rvars
<1>1. ouvert => EnPhase
  BY DEF Rythme
<1>2. CASE AltererCommande \/ AltererReponse \/ AltererSigne
  BY <1>2, CasDegats DEF client, simulateur, Rendues
<1>3. CASE UNCHANGED vars
  BY <1>3 DEF vars, client, simulateur, Rendues
<1> QED
  BY <1>1, <1>2, <1>3, AppelClient, AppelSimulateur DEF Next, Appel!Next

(***************************************************************************)
(* Retransmission makes the damaged line a good one: as long as every "+"  *)
(* and "-" arrives (and what is left of a damaged packet does not fill the *)
(* error buffer), the session is the rendez-vous an application relies on, *)
(* whatever packets are damaged, whatever the program, and whether the     *)
(* simulator lives or dies.                                                *)
(***************************************************************************)
THEOREM RendezVousMalgreLaLigne == Spec /\ []Sain => RaffineRendezVous
BY AppelInit, AppelSuite, InvariantsDeSession, PTL DEF Spec, RaffineRendezVous, Appel!Spec

(***************************************************************************)
(* On a line that damages nothing, the session implements the rendez-vous. *)
(***************************************************************************)
THEOREM RendezVousTenu ==
  ASSUME MaxAlterations = 0
  PROVE  Spec => RaffineRendezVous
<1>1. TInv => Sain
  BY SainCas DEF TInv, TAlteres, Degats
<1> QED
  BY <1>1, InvariantsDeSession, RendezVousMalgreLaLigne, PTL

-----------------------------------------------------------------------------
(***************************************************************************)
(* The packets in s carry the numbers a + 1 to b, each once, in order, and *)
(* none is damaged.                                                        *)
(***************************************************************************)
EnOrdre(s, a, b) ==
  /\ \A i \in DOMAIN s : s[i].sorte = "paquet" => s[i].juste /\ s[i].n \in a + 1 .. b
  /\ \A i, j \in DOMAIN s :
       s[i].sorte = "paquet" /\ s[j].sorte = "paquet" /\ i < j => s[i].n < s[j].n
  /\ \A m \in a + 1 .. b : \E i \in DOMAIN s : s[i].sorte = "paquet" /\ s[i].n = m

AllerSain == Seulement({"reponse", "signeClient"})

(***************************************************************************)
(* While what goes to the simulator is never damaged: it never has         *)
(* anything to ask for again, so every command is sent once, and those on  *)
(* their way are the ones the simulator has not carried out yet.           *)
(***************************************************************************)
AllerOuvert ==
  /\ ~texte /\ ~Porte(versSim, {"bruit"}) /\ ~Porte(versClient, {"-"})
  /\ Len(journal) <= packet /\ EnOrdre(versSim, Len(journal), packet)
  /\ phase \in {"connexion", "envoi"} => packet = commande - 1
  /\ phase \in {"attente", "fini"} => packet = commande
  /\ phase = "rompu" => packet = 0

Aller == AllerSain => Journal /\ (ouvert => AllerOuvert)

LEMMA Accole ==
  ASSUME NEW S, NEW s \in Seq(S), NEW t \in Seq(S), NEW i \in DOMAIN (s \o t)
  PROVE  \/ i \in DOMAIN s /\ (s \o t)[i] = s[i]
         \/ i > Len(s) /\ i - Len(s) \in DOMAIN t /\ (s \o t)[i] = t[i - Len(s)]
OBVIOUS

LEMMA AccoleDebut ==
  ASSUME NEW S, NEW s \in Seq(S), NEW t \in Seq(S), NEW i \in DOMAIN s
  PROVE  i \in DOMAIN (s \o t) /\ (s \o t)[i] = s[i] /\ i \in Nat /\ i <= Len(s)
OBVIOUS

(***************************************************************************)
(* What the writes and the reads do to that order.                         *)
(***************************************************************************)
LEMMA OrdreAjoute ==
  ASSUME NEW s \in Seq(Jetons), NEW t \in Seq(Jetons), NEW a \in Nat, NEW b \in Nat,
         EnOrdre(s, a, b), ~Porte(t, {"paquet"})
  PROVE  EnOrdre(s \o t, a, b)
<1> DEFINE u == s \o t
<1> HIDE DEF u
<1>1. \A k \in DOMAIN t : t[k].sorte # "paquet"
  BY DEF Porte
<1>2. \A i \in DOMAIN u : u[i].sorte = "paquet" => i \in DOMAIN s /\ u[i] = s[i]
  BY <1>1, Accole DEF u
<1>3. \A i \in DOMAIN s : i \in DOMAIN u /\ u[i] = s[i]
  BY AccoleDebut DEF u
<1>4. EnOrdre(u, a, b)
  BY <1>2, <1>3 DEF EnOrdre
<1> QED
  BY <1>4 DEF u

LEMMA OrdrePaquet ==
  ASSUME NEW s \in Seq(Jetons), NEW a \in Nat, NEW b \in Nat, a <= b,
         EnOrdre(s, a, b), Paquet(b + 1) \in Jetons
  PROVE  EnOrdre(s \o <<Paquet(b + 1)>>, a, b + 1)
<1> DEFINE x == Paquet(b + 1)
           u == s \o <<x>>
           l == Len(s)
<1>1. x.sorte = "paquet" /\ x.juste /\ x.n = b + 1
  BY Formes
<1>2. DOMAIN s = 1 .. l /\ DOMAIN u = 1 .. l + 1 /\ u[l + 1] = x /\ l \in Nat
      /\ \A i \in 1 .. l : u[i] = s[i]
  OBVIOUS
<1> HIDE DEF x, u, l
<1>3. \A i \in DOMAIN u : u[i].sorte = "paquet" => u[i].juste /\ u[i].n \in a + 1 .. b + 1
  <2> SUFFICES ASSUME NEW i \in DOMAIN u, u[i].sorte = "paquet"
               PROVE  u[i].juste /\ u[i].n \in a + 1 .. b + 1
    OBVIOUS
  <2>1. CASE i = l + 1
    BY <1>1, <1>2, <2>1
  <2>2. CASE i # l + 1
    <3>1. i \in 1 .. l
      BY <1>2, <2>2
    <3>2. u[i].juste /\ u[i].n \in a + 1 .. b
      BY <1>2, <3>1 DEF EnOrdre
    <3> QED
      BY <3>2
  <2> QED
    BY <2>1, <2>2
<1>4. \A i, j \in DOMAIN u :
        u[i].sorte = "paquet" /\ u[j].sorte = "paquet" /\ i < j => u[i].n < u[j].n
  <2> SUFFICES ASSUME NEW i \in DOMAIN u, NEW j \in DOMAIN u, i < j,
                      u[i].sorte = "paquet", u[j].sorte = "paquet"
               PROVE  u[i].n < u[j].n
    OBVIOUS
  <2>1. i \in 1 .. l
    BY <1>2
  <2>2. u[i].n \in a + 1 .. b
    BY <1>2, <2>1 DEF EnOrdre
  <2>3. CASE j = l + 1
    BY <1>1, <1>2, <2>2, <2>3
  <2>4. CASE j # l + 1
    <3>1. j \in 1 .. l
      BY <1>2, <2>4
    <3> QED
      BY <1>2, <2>1, <3>1 DEF EnOrdre
  <2> QED
    BY <2>3, <2>4
<1>5. \A m \in a + 1 .. b + 1 : \E i \in DOMAIN u : u[i].sorte = "paquet" /\ u[i].n = m
  <2> SUFFICES ASSUME NEW m \in a + 1 .. b + 1
               PROVE  \E i \in DOMAIN u : u[i].sorte = "paquet" /\ u[i].n = m
    OBVIOUS
  <2>1. CASE m = b + 1
    BY <1>1, <1>2, <2>1
  <2>2. CASE m # b + 1
    <3>1. m \in a + 1 .. b
      BY <2>2
    <3>2. PICK i \in DOMAIN s : s[i].sorte = "paquet" /\ s[i].n = m
      BY <3>1 DEF EnOrdre
    <3>3. i \in DOMAIN u /\ u[i] = s[i]
      BY <1>2
    <3> QED
      BY <3>2, <3>3
  <2> QED
    BY <2>1, <2>2
<1>6. EnOrdre(u, a, b + 1)
  BY <1>3, <1>4, <1>5 DEF EnOrdre
<1> QED
  BY <1>6 DEF u, x

LEMMA Queue ==
  ASSUME NEW S, NEW s \in Seq(S), s # <<>>
  PROVE  /\ 1 \in DOMAIN s /\ Head(s) = s[1]
         /\ \A i \in DOMAIN Tail(s) : i + 1 \in DOMAIN s /\ Tail(s)[i] = s[i + 1]
         /\ \A i \in DOMAIN s : i # 1 => i > 1 /\ i - 1 \in DOMAIN Tail(s) /\ Tail(s)[i - 1] = s[i]
         /\ DOMAIN s \subseteq Nat /\ DOMAIN Tail(s) \subseteq Nat
OBVIOUS

LEMMA OrdreQueue ==
  ASSUME NEW s \in Seq(Jetons), NEW a \in Nat, NEW b \in Nat, s # <<>>,
         EnOrdre(s, a, b), Head(s).sorte # "paquet"
  PROVE  EnOrdre(Tail(s), a, b)
<1> DEFINE q == Tail(s)
<1>1. /\ s[1].sorte # "paquet"
      /\ \A i \in DOMAIN q : i + 1 \in DOMAIN s /\ q[i] = s[i + 1]
      /\ \A i \in DOMAIN s : i # 1 => i - 1 \in DOMAIN q /\ q[i - 1] = s[i]
      /\ DOMAIN q \subseteq Nat
  BY Queue
<1> HIDE DEF q
<1>2. \A i \in DOMAIN q : q[i].sorte = "paquet" => q[i].juste /\ q[i].n \in a + 1 .. b
  BY <1>1 DEF EnOrdre
<1>3. \A i, j \in DOMAIN q :
        q[i].sorte = "paquet" /\ q[j].sorte = "paquet" /\ i < j => q[i].n < q[j].n
  <2> SUFFICES ASSUME NEW i \in DOMAIN q, NEW j \in DOMAIN q, i < j,
                      q[i].sorte = "paquet", q[j].sorte = "paquet"
               PROVE  q[i].n < q[j].n
    OBVIOUS
  <2>1. i + 1 \in DOMAIN s /\ q[i] = s[i + 1] /\ j + 1 \in DOMAIN s /\ q[j] = s[j + 1]
    BY <1>1
  <2>2. i + 1 < j + 1
    BY <1>1
  <2> QED
    BY <2>1, <2>2 DEF EnOrdre
<1>4. \A m \in a + 1 .. b : \E i \in DOMAIN q : q[i].sorte = "paquet" /\ q[i].n = m
  <2> SUFFICES ASSUME NEW m \in a + 1 .. b
               PROVE  \E i \in DOMAIN q : q[i].sorte = "paquet" /\ q[i].n = m
    OBVIOUS
  <2>1. PICK i \in DOMAIN s : s[i].sorte = "paquet" /\ s[i].n = m
    BY DEF EnOrdre
  <2> QED
    BY <1>1, <2>1
<1>5. EnOrdre(q, a, b)
  BY <1>2, <1>3, <1>4 DEF EnOrdre
<1> QED
  BY <1>5 DEF q

LEMMA OrdreTete ==
  ASSUME NEW s \in Seq(Jetons), NEW a \in Nat, NEW b \in Nat, s # <<>>,
         EnOrdre(s, a, b), Head(s).sorte = "paquet"
  PROVE  /\ Head(s).juste /\ Head(s).n = a + 1 /\ a + 1 <= b
         /\ EnOrdre(Tail(s), a + 1, b)
<1> DEFINE q == Tail(s)
<1>1. /\ 1 \in DOMAIN s /\ Head(s) = s[1] /\ s[1].sorte = "paquet"
      /\ \A i \in DOMAIN q : i + 1 \in DOMAIN s /\ q[i] = s[i + 1]
      /\ \A i \in DOMAIN s : i # 1 => i > 1 /\ i - 1 \in DOMAIN q /\ q[i - 1] = s[i]
      /\ DOMAIN q \subseteq Nat
  BY Queue
<1> HIDE DEF q
<1>2. s[1].juste /\ s[1].n \in a + 1 .. b
  BY <1>1 DEF EnOrdre
<1>3. s[1].n = a + 1
  <2>1. a + 1 \in a + 1 .. b
    BY <1>2
  <2>2. PICK i \in DOMAIN s : s[i].sorte = "paquet" /\ s[i].n = a + 1
    BY <2>1 DEF EnOrdre
  <2>3. i # 1 => s[1].n < s[i].n
    BY <1>1, <2>2 DEF EnOrdre
  <2> QED
    BY <1>2, <2>2, <2>3
<1>4. \A i \in DOMAIN q :
        q[i].sorte = "paquet" => q[i].juste /\ q[i].n \in a + 1 + 1 .. b
  <2> SUFFICES ASSUME NEW i \in DOMAIN q, q[i].sorte = "paquet"
               PROVE  q[i].juste /\ q[i].n \in a + 1 + 1 .. b
    OBVIOUS
  <2>1. i + 1 \in DOMAIN s /\ q[i] = s[i + 1] /\ 1 < i + 1
    <3>1. i \in Nat /\ i # 0
      <4>1. i \in Nat /\ i + 1 \in DOMAIN s
        BY <1>1
      <4>2. DOMAIN q = 1 .. Len(q)
        BY FileQueue DEF q
      <4> QED
        BY <4>1, <4>2
    <3> QED
      BY <1>1, <3>1
  <2>2. s[i + 1].juste /\ s[i + 1].n \in a + 1 .. b
    BY <2>1 DEF EnOrdre
  <2>3. s[1].n < s[i + 1].n
    BY <1>1, <2>1 DEF EnOrdre
  <2> QED
    BY <1>3, <2>1, <2>2, <2>3
<1>5. \A i, j \in DOMAIN q :
        q[i].sorte = "paquet" /\ q[j].sorte = "paquet" /\ i < j => q[i].n < q[j].n
  <2> SUFFICES ASSUME NEW i \in DOMAIN q, NEW j \in DOMAIN q, i < j,
                      q[i].sorte = "paquet", q[j].sorte = "paquet"
               PROVE  q[i].n < q[j].n
    OBVIOUS
  <2>1. i + 1 \in DOMAIN s /\ q[i] = s[i + 1] /\ j + 1 \in DOMAIN s /\ q[j] = s[j + 1]
    BY <1>1
  <2>2. i + 1 < j + 1
    BY <1>1
  <2> QED
    BY <2>1, <2>2 DEF EnOrdre
<1>6. \A m \in a + 1 + 1 .. b : \E i \in DOMAIN q : q[i].sorte = "paquet" /\ q[i].n = m
  <2> SUFFICES ASSUME NEW m \in a + 1 + 1 .. b
               PROVE  \E i \in DOMAIN q : q[i].sorte = "paquet" /\ q[i].n = m
    OBVIOUS
  <2>1. m \in a + 1 .. b /\ m # a + 1
    OBVIOUS
  <2>2. PICK i \in DOMAIN s : s[i].sorte = "paquet" /\ s[i].n = m
    BY <2>1 DEF EnOrdre
  <2>3. i # 1
    BY <1>3, <2>1, <2>2
  <2> QED
    BY <1>1, <2>2, <2>3
<1>7. EnOrdre(q, a + 1, b)
  BY <1>4, <1>5, <1>6 DEF EnOrdre
<1> QED
  BY <1>1, <1>2, <1>3, <1>7 DEF q

-----------------------------------------------------------------------------
LEMMA AllerSainGarde == UNCHANGED alteres => (AllerSain' <=> AllerSain)
BY DEF AllerSain, Seulement

LEMMA PlainteSignes ==
  /\ Plainte \in Seq(Jetons) /\ Plainte \o <<Signe("+")>> \in Seq(Jetons)
  /\ Plainte \o <<Signe("-")>> \in Seq(Jetons)
  /\ ~Porte(Plainte, {"paquet", "bruit"})
  /\ ~Porte(Plainte \o <<Signe("+")>>, {"paquet", "bruit"})
  /\ ~Porte(Plainte \o <<Signe("-")>>, {"paquet", "bruit"})
<1>1. Plainte \in Seq(Jetons) /\ <<Signe("+")>> \in Seq(Jetons) /\ <<Signe("-")>> \in Seq(Jetons)
  BY PlainteType, SigneJeton, FileUn
<1>2. ~Porte(Plainte, {"paquet", "bruit"})
  BY PorteUn, Sortes DEF Plainte
<1>3. ~Porte(<<Signe("+")>>, {"paquet", "bruit"}) /\ ~Porte(<<Signe("-")>>, {"paquet", "bruit"})
  BY PorteUn, Sortes
<1> QED
  BY <1>1, <1>2, <1>3, FileSuite, PorteSuite

LEMMA PorteMoins ==
  ASSUME NEW s, ~Porte(s, {"paquet", "bruit"})
  PROVE  ~Porte(s, {"paquet"}) /\ ~Porte(s, {"bruit"})
BY DEF Porte

LEMMA AllerInit == Init => Aller
<1> SUFFICES ASSUME Init
             PROVE  Aller
  OBVIOUS
<1>1. Len(journal) = 0 /\ commande = 1 /\ packet = 0 /\ phase = "connexion" /\ ~texte
      /\ versSim = <<>> /\ versClient = <<>>
  BY DEF Init
<1>2. Journal
  BY DEF Init, Journal
<1>3. EnOrdre(versSim, Len(journal), packet)
  BY <1>1 DEF EnOrdre
<1>4. ~Porte(versSim, {"bruit"}) /\ ~Porte(versClient, {"-"})
  BY <1>1, PorteUn
<1>5. AllerOuvert
  BY <1>1, <1>3, <1>4 DEF AllerOuvert
<1> QED
  BY <1>2, <1>5 DEF Aller

(***************************************************************************)
(* The client writes signs, and a command once it has the answer of the    *)
(* one before.                                                             *)
(***************************************************************************)
LEMMA AllerSignes ==
  ASSUME TInv, AllerOuvert, NEW jetons \in Seq(Jetons), ~Porte(jetons, {"paquet", "bruit"}),
         versSim' = versSim \o jetons, UNCHANGED <<journal, packet>>
  PROVE  ~Porte(versSim, {"bruit"})' /\ EnOrdre(versSim, Len(journal), packet)'
<1>1. Len(journal) \in Nat /\ packet \in Nat /\ versSim \in Seq(Jetons)
  BY DEF TInv, TClient, TLien, TSim
<1>2. ~Porte(versSim', {"bruit"})
  BY <1>1, PorteMoins, PorteSuite DEF AllerOuvert
<1>3. EnOrdre(versSim', Len(journal), packet)
  BY <1>1, PorteMoins, OrdreAjoute DEF AllerOuvert
<1> QED
  BY <1>2, <1>3

LEMMA AllerEnvoi ==
  ASSUME TInv, AllerOuvert, ouvert, Envoyer, UNCHANGED <<simulateur, alteres>>
  PROVE  AllerOuvert'
<1>1. /\ phase = "envoi" /\ packet' = commande /\ phase' = "attente"
      /\ versSim' = versSim \o <<Paquet(commande)>>
      /\ UNCHANGED <<commande, versClient, texte, journal>>
  BY EcrireOuvert DEF Envoyer, SuiteEnvoi, simulateur
<1>2. /\ Len(journal) \in Nat /\ packet \in Nat /\ versSim \in Seq(Jetons)
      /\ commande \in 1 .. Len(Programme)
  BY DEF TInv, TClient, TLien, TSim
<1>3. packet = commande - 1 /\ Len(journal) <= packet /\ EnOrdre(versSim, Len(journal), packet)
  BY <1>1 DEF AllerOuvert
<1>4. commande = packet + 1 /\ Paquet(packet + 1) \in Jetons
  BY <1>2, <1>3, PaquetJeton
<1>5. EnOrdre(versSim', Len(journal), packet')
  BY <1>1, <1>2, <1>3, <1>4, OrdrePaquet
<1>6. ~Porte(versSim', {"bruit"})
  <2>1. ~Porte(<<Paquet(commande)>>, {"bruit"}) /\ <<Paquet(commande)>> \in Seq(Jetons)
    BY <1>4, PorteUn, Sortes, FileUn
  <2> QED
    BY <1>1, <1>2, <2>1, PorteSuite DEF AllerOuvert
<1>7. Len(journal) <= packet'
  BY <1>1, <1>2, <1>3, <1>4
<1> QED
  BY <1>1, <1>5, <1>6, <1>7 DEF AllerOuvert

LEMMA AllerLire ==
  ASSUME TInv, AllerOuvert, ouvert, Lire, UNCHANGED <<simulateur, alteres>>
  PROVE  AllerOuvert'
<1>1. UNCHANGED <<journal, texte>>
  BY DEF simulateur
<1>2. phase = "attente" /\ packet = commande /\ UNCHANGED packet
  BY DEF Lire, LireAccuse, LireDemande, LireReponse, LireBruit, LireFin, LireRompu, Recu,
         AllerOuvert
<1>3. versClient \in Seq(Jetons) /\ commande \in Nat
  BY DEF TInv, TLien, TClient
<1>4. ASSUME NEW fin \in BOOLEAN, commande' = CommandeApres(fin), phase' = PhaseApres(fin)
      PROVE  /\ phase' \in {"connexion", "envoi"} => packet = commande' - 1
             /\ phase' \in {"attente", "fini"} => packet = commande'
             /\ phase' # "rompu"
  BY <1>2, <1>3, <1>4 DEF CommandeApres, PhaseApres
<1>5. ASSUME NEW jetons \in Seq(Jetons), ~Porte(jetons, {"paquet", "bruit"}),
             versSim' = versSim \o jetons
      PROVE  ~Porte(versSim, {"bruit"})' /\ EnOrdre(versSim, Len(journal), packet)'
  BY <1>1, <1>2, <1>5, AllerSignes
<1>6. versClient' = Tail(versClient) /\ versClient # <<>> => ~Porte(versClient', {"-"})
  BY <1>3, PorteQueue DEF AllerOuvert
<1>7. CASE LireAccuse
  <2>1. /\ versSim' = versSim \o Plainte /\ phase' = "attente" /\ commande' = commande
        /\ versClient' = Tail(versClient) /\ versClient # <<>>
    BY <1>7, EcrireOuvert DEF LireAccuse, Recu
  <2>2. ~Porte(versSim, {"bruit"})' /\ EnOrdre(versSim, Len(journal), packet)'
    BY <1>5, <2>1, PlainteSignes
  <2> QED
    BY <1>1, <1>2, <1>6, <2>1, <2>2 DEF AllerOuvert
<1>8. ~LireDemande
  <2>1. versClient # <<>> /\ Head(versClient).sorte = "-" => Porte(versClient, {"-"})
    BY <1>3, PorteQueue
  <2> QED
    BY <2>1 DEF LireDemande, Recu, AllerOuvert
<1>9. CASE LireReponse
  <2>1. versClient' = Tail(versClient) /\ versClient # <<>>
    BY <1>9 DEF LireReponse, Recu
  <2>2. CASE Accepte(Head(versClient))
    <3>1. /\ versSim' = versSim \o (Plainte \o <<Signe("+")>>)
          /\ phase' = PhaseApres(FALSE) /\ commande' = CommandeApres(FALSE)
      BY <1>9, <2>2, EcrireOuvert DEF LireReponse
    <3>2. ~Porte(versSim, {"bruit"})' /\ EnOrdre(versSim, Len(journal), packet)'
      BY <1>5, <3>1, PlainteSignes
    <3> QED
      BY <1>1, <1>2, <1>4, <1>6, <2>1, <3>1, <3>2 DEF AllerOuvert
  <2>3. CASE ~Accepte(Head(versClient))
    <3>1. /\ versSim' = versSim \o (Plainte \o <<Signe("-")>>)
          /\ phase' = "attente" /\ commande' = commande
      BY <1>9, <2>3, EcrireOuvert DEF LireReponse
    <3>2. ~Porte(versSim, {"bruit"})' /\ EnOrdre(versSim, Len(journal), packet)'
      BY <1>5, <3>1, PlainteSignes
    <3> QED
      BY <1>1, <1>2, <1>6, <2>1, <3>1, <3>2 DEF AllerOuvert
  <2> QED
    BY <2>2, <2>3
<1>10. CASE LireBruit
  <2>1. /\ versClient # <<>> /\ commande' = commande
        /\ phase' = "attente" /\ (versSim' = versSim \o Plainte \/ versSim' = versSim)
        /\ \/ versClient' = Tail(versClient)
           \/ versClient' = <<Bruit(Head(versClient).n - 1)>> \o Tail(versClient)
              /\ Head(versClient).n > 1 /\ Head(versClient).sorte = "bruit"
    BY <1>2, <1>10, EcrireOuvert DEF LireBruit
  <2>2. ~Porte(versSim, {"bruit"})' /\ EnOrdre(versSim, Len(journal), packet)'
    <3>1. CASE versSim' = versSim \o Plainte
      BY <1>5, <3>1, PlainteSignes
    <3>2. CASE versSim' = versSim
      BY <1>1, <1>2, <3>2 DEF AllerOuvert
    <3> QED
      BY <2>1, <3>1, <3>2
  <2>3. ~Porte(versClient', {"-"})
    <3>1. CASE versClient' = Tail(versClient)
      BY <1>6, <2>1, <3>1
    <3>2. CASE /\ versClient' = <<Bruit(Head(versClient).n - 1)>> \o Tail(versClient)
               /\ Head(versClient).n > 1 /\ Head(versClient).sorte = "bruit"
      <4>1. Head(versClient) \in Jetons /\ Tail(versClient) \in Seq(Jetons)
        BY <1>3, <2>1, FileQueue
      <4>2. <<Bruit(Head(versClient).n - 1)>> \in Seq(Jetons)
        BY <3>2, <4>1, BruitLu, FileUn
      <4>3. ~Porte(<<Bruit(Head(versClient).n - 1)>>, {"-"})
        BY PorteUn, Sortes
      <4>4. ~Porte(Tail(versClient), {"-"})
        BY <1>3, <2>1, PorteQueue DEF AllerOuvert
      <4>5. ASSUME NEW s \in Seq(Jetons), ~Porte(s, {"-"}), NEW t \in Seq(Jetons), ~Porte(t, {"-"})
            PROVE  ~Porte(s \o t, {"-"})
        BY <4>5, PorteSuite
      <4>6. ~Porte(<<Bruit(Head(versClient).n - 1)>> \o Tail(versClient), {"-"})
        BY <4>1, <4>2, <4>3, <4>4, <4>5
      <4> QED
        BY <3>2, <4>6, Zenon
    <3> QED
      BY <2>1, <3>1, <3>2
  <2> QED
    BY <1>1, <1>2, <2>1, <2>2, <2>3 DEF AllerOuvert
<1>11. ~LireFin /\ ~LireRompu
  BY DEF LireFin, LireRompu, Perdu
<1> QED
  BY <1>7, <1>8, <1>9, <1>10, <1>11 DEF Lire

LEMMA AllerClient ==
  ASSUME TInv, Aller, Client
  PROVE  Aller'
<1>1. NextClient /\ UNCHANGED <<simulateur, alteres>>
  BY DEF Client
<1>2. UNCHANGED ouvert
  BY <1>1 DEF NextClient, Connecter, Envoyer, Lire, LireAccuse, LireDemande,
     LireReponse, LireBruit, LireFin, LireRompu, Recu
<1>3. UNCHANGED <<journal, texte>>
  BY <1>1 DEF simulateur
<1>4. SUFFICES ASSUME Journal, ouvert, AllerOuvert
               PROVE  AllerOuvert'
  BY <1>1, <1>2, <1>3, AllerSainGarde DEF Aller, Journal
<1>5. CASE Connecter
  <2>1. /\ phase = "connexion" /\ phase' \in {"connexion", "envoi", "rompu"}
        /\ UNCHANGED <<commande, packet, lien>>
    BY <1>5 DEF Connecter
  <2>2. packet = 0
    BY <2>1 DEF TInv, TClient
  <2> QED
    BY <1>3, <1>4, <2>1, <2>2 DEF AllerOuvert, lien
<1> QED
  BY <1>1, <1>4, <1>5, AllerEnvoi, AllerLire DEF NextClient

(***************************************************************************)
(* The simulator only finds good commands, the next one first.             *)
(***************************************************************************)
LEMMA AllerSimulateur ==
  ASSUME TInv, Aller, Simulateur \/ SimEcoute \/ SimPanne
  PROVE  Aller'
<1>1. UNCHANGED alteres /\ ouvert
  BY DEF Simulateur, SimCommande, SimRefuse, SimAccuse, SimDemande, SimBruit, SimLit, SimFin,
         SimEcoute, SimPanne
<1>2. SUFFICES ASSUME Journal, AllerOuvert
               PROVE  Journal' /\ (ouvert' => AllerOuvert')
  BY <1>1, AllerSainGarde DEF Aller
<1>3. /\ Len(journal) \in Nat /\ packet \in Nat /\ journal \in Seq(1 .. Len(Programme))
      /\ versSim \in Seq(Jetons) /\ versClient \in Seq(Jetons)
  BY DEF TInv, TClient, TLien, TSim
<1>4. CASE SimFin \/ SimPanne
  BY <1>2, <1>4 DEF SimFin, SimPanne, Journal
<1>5. CASE SimEcoute
  BY <1>2, <1>5 DEF SimEcoute, Journal, AllerOuvert, client, lien, simulateur
<1>6. CASE SimCommande \/ SimRefuse \/ SimAccuse \/ SimDemande \/ SimBruit
  <2>1. /\ versSim # <<>> /\ versSim' = Tail(versSim)
        /\ UNCHANGED <<phase, commande, packet, ouvert>>
    BY <1>6, SimLu DEF SimCommande, SimRefuse, SimAccuse, SimDemande, SimBruit
  <2>2. SimPlainte = <<>>
    BY <1>2 DEF AllerOuvert, SimPlainte
  <2>3. ~Porte(versSim', {"bruit"}) /\ Head(versSim).sorte # "bruit"
    BY <1>2, <1>3, <2>1, PorteQueue DEF AllerOuvert
  <2>4. ASSUME NEW t \in Seq(Jetons), ~Porte(t, {"-"}), versClient' = versClient \o t
        PROVE  ~Porte(versClient', {"-"})
    BY <1>2, <1>3, <2>4, PorteSuite DEF AllerOuvert
  <2>5. <<>> \in Seq(Jetons) /\ ~Porte(<<>>, {"-"})
    BY FileVide, PorteUn
  <2>6. CASE SimCommande
    <3> DEFINE n == Head(versSim).n
    <3>1. Head(versSim).sorte = "paquet" /\ journal' = Append(journal, n) /\ ~texte'
          /\ \/ versClient' = versClient \o <<>> \o <<Signe("+")>> \o <<>>
             \/ versClient' = versClient \o <<>> \o <<Signe("+")>> \o <<Paquet(n)>>
      BY <2>2, <2>6, SimLu DEF SimCommande
    <3>2. n = Len(journal) + 1 /\ n <= packet /\ EnOrdre(Tail(versSim), n, packet)
      BY <1>2, <1>3, <2>1, <3>1, OrdreTete DEF AllerOuvert
    <3>3. Journal' /\ Len(journal') = n
      BY <1>2, <1>3, <3>1, <3>2, JournalSuite
    <3>4. n \in 1 .. Len(Programme)
      BY <1>3, <2>1, <3>1, FileQueue, PaquetLu
    <3>5. ~Porte(versClient', {"-"})
      <4>1. Signe("+") \in Jetons /\ Paquet(n) \in Jetons
        BY <3>4, SigneJeton, PaquetJeton
      <4>2. <<Signe("+")>> \in Seq(Jetons) /\ <<Paquet(n)>> \in Seq(Jetons)
        BY <4>1, FileUn
      <4>3. ~Porte(<<Signe("+")>>, {"-"}) /\ ~Porte(<<Paquet(n)>>, {"-"})
        BY PorteUn, Sortes
      <4>4. ASSUME NEW s \in Seq(Jetons), ~Porte(s, {"-"}), NEW t \in Seq(Jetons), ~Porte(t, {"-"})
            PROVE  s \o t \in Seq(Jetons) /\ ~Porte(s \o t, {"-"})
        BY <4>4, FileSuite, PorteSuite
      <4>5. versClient \o <<>> \o <<Signe("+")>> \in Seq(Jetons)
            /\ ~Porte(versClient \o <<>> \o <<Signe("+")>>, {"-"})
        <5>1. versClient \o <<>> \in Seq(Jetons) /\ ~Porte(versClient \o <<>>, {"-"})
          BY <1>2, <1>3, <2>5, <4>4 DEF AllerOuvert
        <5> QED
          BY <4>2, <4>3, <4>4, <5>1
      <4> QED
        BY <2>5, <3>1, <4>2, <4>3, <4>4, <4>5
    <3>6. /\ phase \in {"connexion", "envoi"} => packet = commande - 1
          /\ phase \in {"attente", "fini"} => packet = commande
          /\ phase = "rompu" => packet = 0
      BY <1>2 DEF AllerOuvert
    <3> HIDE DEF n
    <3> QED
      BY <2>1, <2>3, <3>1, <3>2, <3>3, <3>5, <3>6 DEF AllerOuvert
  <2>7. ~SimRefuse /\ ~SimBruit
    <3>1. Head(versSim).sorte = "paquet" => Head(versSim).juste
      BY <1>2, <1>3, <2>1, OrdreTete DEF AllerOuvert
    <3> QED
      BY <2>3, <3>1, SimLu DEF SimRefuse, SimBruit
  <2>8. CASE SimAccuse \/ SimDemande
    <3>1. Head(versSim).sorte # "paquet" /\ UNCHANGED journal /\ ~texte'
      BY <2>8, SimLu DEF SimAccuse, SimDemande
    <3>2. EnOrdre(versSim', Len(journal), packet)
      BY <1>2, <1>3, <2>1, <3>1, OrdreQueue DEF AllerOuvert
    <3>3. ~Porte(versClient', {"-"})
      <4>1. \/ versClient' = versClient \o <<>>
            \/ versClient' = versClient \o <<>> \o <<>>
            \/ versClient' = versClient \o <<>> \o <<Paquet(reponse)>> /\ reponse # 0
        BY <2>2, <2>8 DEF SimAccuse, SimDemande
      <4>2. versClient \o <<>> = versClient
        BY <1>3
      <4>3. reponse # 0 => <<Paquet(reponse)>> \in Seq(Jetons)
        <5>1. reponse # 0 => reponse \in 1 .. Len(Programme)
          BY ProgrammeAssumption DEF TInv, TSim
        <5> QED
          BY <5>1, PaquetJeton, FileUn
      <4>4. ~Porte(<<Paquet(reponse)>>, {"-"})
        BY PorteUn, Sortes
      <4> QED
        BY <1>2, <2>4, <4>1, <4>2, <4>3, <4>4 DEF AllerOuvert
    <3>4. Journal'
      BY <1>2, <3>1 DEF Journal
    <3> QED
      BY <1>2, <2>1, <2>3, <3>1, <3>2, <3>3, <3>4 DEF AllerOuvert
  <2> QED
    BY <1>6, <2>6, <2>7, <2>8
<1> QED
  BY <1>4, <1>5, <1>6 DEF Simulateur

(***************************************************************************)
(* Damage on the way back only.                                            *)
(***************************************************************************)
LEMMA AllerSainAvant ==
  ASSUME TInv, NEW s, NEW t, NEW i, NEW d, NEW j, Degat(s, t, i, d, j), AllerSain'
  PROVE  AllerSain /\ d \in {"reponse", "signeClient"}
<1>1. alteres \in [Degats -> Nat] /\ d \in Degats /\ alteres' = [alteres EXCEPT ![d] = @ + 1]
  BY LigneAssumption DEF Degat, TInv, TAlteres
<1>2. \A e \in Degats : alteres'[e] = IF e = d THEN alteres[e] + 1 ELSE alteres[e]
  BY <1>1
<1>3. \A e \in Degats \ {"reponse", "signeClient"} : alteres'[e] = 0
  BY DEF AllerSain, Seulement
<1>4. d \in {"reponse", "signeClient"}
  <2>1. alteres[d] \in Nat /\ alteres'[d] = alteres[d] + 1
    BY <1>1, <1>2
  <2> QED
    BY <1>1, <1>3, <2>1
<1>5. \A e \in Degats \ {"reponse", "signeClient"} : alteres[e] = 0
  BY <1>2, <1>3, <1>4
<1> QED
  BY <1>4, <1>5 DEF AllerSain, Seulement

LEMMA AllerLigne ==
  ASSUME TInv, Aller, AltererCommande \/ AltererReponse \/ AltererSigne
  PROVE  Aller'
<1>1. UNCHANGED <<phase, commande, packet, journal, texte, ouvert>>
  BY CasDegats DEF client, simulateur
<1>2. SUFFICES ASSUME AllerSain'
               PROVE  Journal /\ (ouvert => AllerOuvert')
  BY <1>1 DEF Aller, Journal
<1>3. \A s, t, i, d, j : Degat(s, t, i, d, j) => AllerSain /\ d \in {"reponse", "signeClient"}
  BY <1>2, AllerSainAvant
<1>4. AllerSain
  BY <1>3, CasDegats
<1>5. SUFFICES ASSUME ouvert
               PROVE  AllerOuvert'
  BY <1>4 DEF Aller
<1>6. AllerOuvert
  BY <1>4, <1>5 DEF Aller
<1>12. \A s, t, i, j : ~Degat(s, t, i, "commande", j) /\ ~Degat(s, t, i, "debut", j)
                         /\ ~Degat(s, t, i, "signeSim", j)
  BY <1>3
<1>7. UNCHANGED versSim
  BY <1>12, CasDegats
<1>8. PICK i, d, j :
        /\ i \in DOMAIN versClient /\ Degat(versClient, versClient', i, d, j)
        /\ \/ versClient[i].sorte = "paquet" /\ j = [versClient[i] EXCEPT !.juste = FALSE]
           \/ j = Bruit(1)
  BY <1>12, CasDegats
<1>9. versClient \in Seq(Jetons) /\ versClient' = [versClient EXCEPT ![i] = j]
  BY <1>8 DEF Degat, TInv, TLien
<1>10. j.sorte # "-"
  <2>1. CASE versClient[i].sorte = "paquet" /\ j = [versClient[i] EXCEPT !.juste = FALSE]
    <3>1. versClient[i] \in Jetons
      BY <1>8, <1>9, FileElement
    <3>2. j.sorte = "paquet"
      <4>1. versClient[i] \in [sorte : {"paquet"}, n : 1 .. Len(Programme), juste : BOOLEAN]
        BY <2>1, <3>1, Sortes DEF Jetons, Signe, Bruit
      <4> QED
        BY <2>1, <4>1
    <3> QED
      BY <3>2
  <2>2. CASE j = Bruit(1)
    BY <2>2, Sortes
  <2> QED
    BY <1>8, <2>1, <2>2
<1>11. ~Porte(versClient', {"-"})
  BY <1>6, <1>8, <1>9, <1>10, PorteChange DEF AllerOuvert
<1> QED
  BY <1>1, <1>6, <1>7, <1>11 DEF AllerOuvert

LEMMA AllerSuite == TInv /\ Aller /\ [Next]_vars => Aller'
<1>1. Aller /\ UNCHANGED vars => Aller'
  BY DEF vars, client, lien, simulateur, Aller, AllerSain, Seulement, Journal, AllerOuvert
<1> QED
  BY <1>1, AllerClient, AllerSimulateur, AllerLigne DEF Next

(***************************************************************************)
(* UneFois, whatever the program and the number of damaged tokens, as long *)
(* as a packet that lost its first character fits the error buffer         *)
(* (answers of the simulator are shorter than MAX_ERROR_SIZE).             *)
(***************************************************************************)
THEOREM ChaqueCommandeUneFois ==
  ASSUME Trame < MAX_ERROR_SIZE
  PROVE  Spec => []UneFois
<1>1. TInv /\ Rythme /\ Aller => UneFois
  <2> SUFFICES ASSUME TInv, Rythme, Aller,
                      \/ Seulement({"commande", "reponse", "debut"})
                      \/ Seulement({"reponse", "signeClient"})
               PROVE  journal = [i \in DOMAIN journal |-> i]
    BY DEF UneFois
  <2>1. Journal
    BY DEF Rythme, Sain, Aller, AllerSain
  <2>2. DOMAIN journal = 1 .. Len(journal)
    BY DEF TInv, TSim
  <2> QED
    BY <2>1, <2>2 DEF Journal
<1> QED
  BY <1>1, TInit, TInvSuite, RythmeInit, RythmeSuite, AllerInit, AllerSuite, PTL DEF Spec

-----------------------------------------------------------------------------
(***************************************************************************)
(* How many tokens of s are in T.                                          *)
(***************************************************************************)
Places(s, T) == {i \in DOMAIN s : s[i] \in T}

Nb(s, T) == Cardinality(Places(s, T))

Charges  == {x \in Jetons : x.sorte \in {"paquet", "bruit"}}
Demandes == {x \in Jetons : x.sorte = "-"}
Bons     == {x \in Jetons : x.sorte = "paquet" /\ x.juste}

(***************************************************************************)
(* The complaint a client with l characters in its error buffer owes for   *)
(* them, s being what it has to read.  It is the one for the noise in      *)
(* front of it when both fit the buffer.                                   *)
(***************************************************************************)
Due(l, s) ==
  IF \/ l = 0
     \/ s # <<>> /\ Head(s).sorte = "bruit" /\ l + Head(s).n < MAX_ERROR_SIZE
    THEN 0 ELSE 1

(***************************************************************************)
(* What will come to the client as an answer without another command, and  *)
(* what will be a command for the simulator.                               *)
(***************************************************************************)
Retour(l, vs, vc) == Nb(vc, Charges) + Due(l, vc) + Nb(vs, Demandes)

Route(t, vs, vc) == Nb(vs, Charges) + Nb(vc, Demandes) + IF t THEN 1 ELSE 0

Fautes == alteres["signeClient"] + alteres["signeSim"]

BruitsCourts(s) ==
  \A i \in DOMAIN s : s[i].sorte = "bruit" => s[i].n \in 1 .. MAX_ERROR_SIZE - 1

(***************************************************************************)
(* The answers that came back and those that will are paid for: by the     *)
(* commands carried out; by those up to any good one on its way; by all    *)
(* that were sent, where what will be a command counts too.                *)
(***************************************************************************)
Paye(r, f) ==
  /\ r <= Execute + f
  /\ \A i \in DOMAIN versSim :
       versSim[i] \in Bons => r + Nb(SubSeq(versSim, 1, i), Bons) <= versSim[i].n + f
  /\ r + Route(texte, versSim, versClient) <= packet + f

Compte ==
  ouvert =>
    /\ BruitsCourts(versClient)
    /\ Paye(Rendues + Retour(len, versSim, versClient), Fautes)
    /\ phase = "envoi" => packet = commande - 1

LEMMA PlacesFinies ==
  ASSUME NEW S, NEW s \in Seq(S), NEW T
  PROVE  /\ IsFiniteSet(Places(s, T)) /\ Places(s, T) \subseteq 1 .. Len(s)
         /\ Nb(s, T) \in Nat
<1>1. DOMAIN s = 1 .. Len(s) /\ Len(s) \in Nat
  OBVIOUS
<1>2. Places(s, T) \subseteq 1 .. Len(s)
  BY <1>1 DEF Places
<1>3. IsFiniteSet(1 .. Len(s))
  BY <1>1, FS_Interval
<1>4. IsFiniteSet(Places(s, T))
  BY <1>2, <1>3, FS_Subset
<1> QED
  BY <1>2, <1>4, FS_CardinalityType DEF Nb

(***************************************************************************)
(* The places of the second sequence, after those of the first.            *)
(***************************************************************************)
LEMMA NbDecale ==
  ASSUME NEW l \in Nat, NEW A \in SUBSET Nat, IsFiniteSet(A)
  PROVE  LET D == {k + l : k \in A} IN IsFiniteSet(D) /\ Cardinality(D) = Cardinality(A)
<1> DEFINE D == {k + l : k \in A}
           f == [k \in A |-> k + l]
<1>1. f \in [A -> D] /\ \A k \in A : f[k] = k + l
  OBVIOUS
<1>2. \A a, b \in A : a + l = b + l => a = b
  OBVIOUS
<1>3. \A d \in D : \E k \in A : k + l = d
  OBVIOUS
<1> HIDE DEF D, f
<1>4. f \in Injection(A, D)
  BY <1>1, <1>2 DEF Injection, IsInjective
<1>5. f \in Surjection(A, D)
  BY <1>1, <1>3 DEF Surjection
<1>6. ExistsBijection(A, D)
  BY <1>4, <1>5 DEF ExistsBijection, Bijection
<1>7. IsFiniteSet(D) /\ Cardinality(D) = Cardinality(A)
  BY <1>6, FS_Bijection
<1> QED
  BY <1>7 DEF D

LEMMA NbSuite ==
  ASSUME NEW S, NEW s \in Seq(S), NEW t \in Seq(S), NEW T
  PROVE  Nb(s \o t, T) = Nb(s, T) + Nb(t, T)
<1> DEFINE l == Len(s)
           u == s \o t
           A == Places(s, T)
           B == Places(t, T)
           D == {k + l : k \in B}
<1>1. l \in Nat /\ u \in Seq(S) /\ A \subseteq 1 .. l /\ B \subseteq 1 .. Len(t)
  BY PlacesFinies
<1>2. IsFiniteSet(A) /\ IsFiniteSet(B) /\ Cardinality(A) \in Nat /\ Cardinality(B) \in Nat
  BY PlacesFinies DEF Nb
<1>3. IsFiniteSet(D) /\ Cardinality(D) = Cardinality(B)
  <2>1. B \in SUBSET Nat
    BY <1>1
  <2> HIDE DEF B
  <2> QED
    BY <1>1, <1>2, <2>1, NbDecale
<1>4. A \cap D = {}
  <2>1. ASSUME NEW k \in B, k + l \in A
        PROVE  FALSE
    <3>1. k \in 1 .. Len(t) /\ k + l \in 1 .. l
      BY <1>1, <2>1
    <3> QED
      BY <1>1, <3>1
  <2> QED
    BY <2>1
<1>5. Places(u, T) = A \cup D
  <2>1. ASSUME NEW i \in Places(u, T)
        PROVE  i \in A \cup D
    <3>1. i \in DOMAIN u /\ u[i] \in T
      BY <2>1 DEF Places
    <3>2. CASE i \in DOMAIN s /\ u[i] = s[i]
      BY <3>1, <3>2 DEF Places
    <3>3. CASE i > l /\ i - l \in DOMAIN t /\ u[i] = t[i - l]
      <4>1. i - l \in B
        BY <3>1, <3>3 DEF Places
      <4>2. i = (i - l) + l
        <5>1. i \in Nat
          BY <3>1, <1>1
        <5> QED
          BY <1>1, <5>1
      <4> QED
        BY <4>1, <4>2
    <3> QED
      BY <3>1, <3>2, <3>3, Accole
  <2>2. ASSUME NEW i \in A
        PROVE  i \in Places(u, T)
    BY <2>2, AccoleDebut DEF Places
  <2>3. ASSUME NEW k \in B
        PROVE  k + l \in Places(u, T)
    <3>1. k \in DOMAIN t /\ t[k] \in T
      BY <2>3 DEF Places
    <3>2. k + l \in DOMAIN u /\ u[k + l] = t[k]
      BY <3>1
    <3> QED
      BY <3>1, <3>2 DEF Places
  <2> QED
    BY <2>1, <2>2, <2>3
<1> HIDE DEF A, B, D, u
<1>6. Cardinality(A \cup D) = Cardinality(A) + Cardinality(D) - Cardinality(A \cap D)
  BY <1>2, <1>3, FS_Union
<1>7. Cardinality(A \cap D) = 0
  BY <1>4, FS_EmptySet
<1>8. Cardinality(Places(u, T)) = Cardinality(A) + Cardinality(B)
  BY <1>2, <1>3, <1>5, <1>6, <1>7
<1> QED
  BY <1>8 DEF A, B, u, Nb

LEMMA NbVide == ASSUME NEW T PROVE Nb(<<>>, T) = 0
<1>1. Places(<<>>, T) = {}
  BY DEF Places
<1> QED
  BY <1>1, FS_EmptySet DEF Nb

LEMMA NbUn ==
  ASSUME NEW x, NEW T
  PROVE  Nb(<<x>>, T) = IF x \in T THEN 1 ELSE 0
<1>1. CASE x \in T
  <2>1. Places(<<x>>, T) = {1}
    BY <1>1 DEF Places
  <2> QED
    BY <1>1, <2>1, FS_Singleton DEF Nb
<1>2. CASE x \notin T
  <2>1. Places(<<x>>, T) = {}
    BY <1>2 DEF Places
  <2> QED
    BY <1>2, <2>1, FS_EmptySet DEF Nb
<1> QED
  BY <1>1, <1>2

LEMMA NbQueue ==
  ASSUME NEW S, NEW s \in Seq(S), s # <<>>, NEW T
  PROVE  Nb(s, T) = (IF Head(s) \in T THEN 1 ELSE 0) + Nb(Tail(s), T)
<1>1. <<Head(s)>> \in Seq(S) /\ Tail(s) \in Seq(S) /\ s = <<Head(s)>> \o Tail(s)
  OBVIOUS
<1>2. Nb(<<Head(s)>> \o Tail(s), T) = Nb(<<Head(s)>>, T) + Nb(Tail(s), T)
  BY <1>1, NbSuite
<1> QED
  BY <1>1, <1>2, NbUn

(***************************************************************************)
(* One token becomes another.                                              *)
(***************************************************************************)
LEMMA NbChange ==
  ASSUME NEW S, NEW s \in Seq(S), NEW i \in DOMAIN s, NEW x \in S, NEW T
  PROVE  Nb([s EXCEPT ![i] = x], T) + (IF s[i] \in T THEN 1 ELSE 0)
           = Nb(s, T) + (IF x \in T THEN 1 ELSE 0)
<1> DEFINE t == [s EXCEPT ![i] = x]
           B == Places(s, T) \ {i}
<1>1. t \in Seq(S) /\ DOMAIN t = DOMAIN s /\ t[i] = x /\ \A j \in DOMAIN s : j # i => t[j] = s[j]
  BY FileChange
<1>2. IsFiniteSet(Places(s, T)) /\ Cardinality(Places(s, T)) \in Nat
  BY PlacesFinies DEF Nb
<1>3. IsFiniteSet(B)
      /\ Cardinality(B) = IF i \in Places(s, T) THEN Cardinality(Places(s, T)) - 1
                                                ELSE Cardinality(Places(s, T))
  BY <1>2, FS_RemoveElement
<1> HIDE DEF t
<1>4. Places(t, T) = IF x \in T THEN B \cup {i} ELSE B
  BY <1>1 DEF Places
<1>5. i \notin B /\ (i \in Places(s, T) <=> s[i] \in T)
  BY DEF Places
<1> HIDE DEF B
<1>6. Cardinality(B \cup {i}) = Cardinality(B) + 1
  BY <1>3, <1>5, FS_AddElement
<1>7. Cardinality(B) + (IF s[i] \in T THEN 1 ELSE 0) = Nb(s, T)
  BY <1>2, <1>3, <1>5 DEF Nb
<1>8. Nb(t, T) = Cardinality(B) + (IF x \in T THEN 1 ELSE 0)
  <2>1. Cardinality(B) \in Nat
    BY <1>3, FS_CardinalityType
  <2> QED
    BY <1>4, <1>6, <2>1 DEF Nb
<1>9. Nb(t, T) \in Nat /\ Nb(s, T) \in Nat /\ Cardinality(B) \in Nat
  BY <1>1, <1>3, PlacesFinies, FS_CardinalityType
<1>10. Nb(t, T) + (IF s[i] \in T THEN 1 ELSE 0) = Nb(s, T) + (IF x \in T THEN 1 ELSE 0)
  BY <1>7, <1>8, <1>9
<1> QED
  BY <1>10 DEF t

-----------------------------------------------------------------------------
LEMMA Dedans ==
  ASSUME NEW x \in Jetons
  PROVE  /\ x \in Charges <=> x.sorte \in {"paquet", "bruit"}
         /\ x \in Demandes <=> x.sorte = "-"
         /\ x \in Bons <=> x.sorte = "paquet" /\ x.juste
BY DEF Charges, Demandes, Bons

LEMMA NbInclus ==
  ASSUME NEW S, NEW s \in Seq(S), NEW t \in Seq(S), NEW T, NEW U,
         \A i \in DOMAIN t : t[i] \in T => i \in DOMAIN s /\ s[i] \in U
  PROVE  Nb(t, T) <= Nb(s, U)
<1>1. Places(t, T) \in SUBSET Places(s, U)
  BY DEF Places
<1> QED
  BY <1>1, PlacesFinies, FS_Subset DEF Nb

(***************************************************************************)
(* The first i tokens of a sequence that grew, lost its head, or had a     *)
(* token changed.                                                          *)
(***************************************************************************)
LEMMA DebutType ==
  ASSUME NEW S, NEW s \in Seq(S), NEW i \in DOMAIN s
  PROVE  /\ SubSeq(s, 1, i) \in Seq(S) /\ DOMAIN SubSeq(s, 1, i) = 1 .. i
         /\ \A k \in 1 .. i : k \in DOMAIN s /\ SubSeq(s, 1, i)[k] = s[k]
OBVIOUS

LEMMA DebutAjoute ==
  ASSUME NEW S, NEW s \in Seq(S), NEW t \in Seq(S), NEW i \in DOMAIN s
  PROVE  SubSeq(s \o t, 1, i) = SubSeq(s, 1, i)
<1>1. s \o t \in Seq(S) /\ i \in DOMAIN (s \o t)
  OBVIOUS
<1>2. \A k \in 1 .. i : k \in DOMAIN s /\ (s \o t)[k] = s[k]
  OBVIOUS
<1>3. SubSeq(s \o t, 1, i) = [k \in 1 .. i |-> (s \o t)[k]]
  OBVIOUS
<1>4. SubSeq(s, 1, i) = [k \in 1 .. i |-> s[k]]
  OBVIOUS
<1> QED
  BY <1>2, <1>3, <1>4

LEMMA DebutQueue ==
  ASSUME NEW S, NEW s \in Seq(S), s # <<>>, NEW i \in DOMAIN Tail(s), NEW T
  PROVE  /\ i + 1 \in DOMAIN s /\ Tail(s)[i] = s[i + 1]
         /\ Nb(SubSeq(s, 1, i + 1), T)
              = Nb(SubSeq(Tail(s), 1, i), T) + (IF Head(s) \in T THEN 1 ELSE 0)
<1> DEFINE p == SubSeq(s, 1, i + 1)
           q == SubSeq(Tail(s), 1, i)
<1>1. i + 1 \in DOMAIN s /\ Tail(s)[i] = s[i + 1] /\ Tail(s) \in Seq(S)
  BY Queue
<1>2. p \in Seq(S) /\ q \in Seq(S) /\ p # <<>> /\ Head(p) = Head(s)
  OBVIOUS
<1>3. Tail(p) = q
  OBVIOUS
<1> HIDE DEF p, q
<1>4. Nb(p, T) = (IF Head(p) \in T THEN 1 ELSE 0) + Nb(q, T)
  BY <1>2, <1>3, NbQueue
<1>5. Nb(q, T) \in Nat
  BY <1>2, PlacesFinies
<1> QED
  BY <1>1, <1>2, <1>4, <1>5 DEF p, q

LEMMA DebutChange ==
  ASSUME NEW S, NEW s \in Seq(S), NEW i \in DOMAIN s, NEW x \in S, NEW k \in DOMAIN s, NEW T,
         x \notin T
  PROVE  Nb(SubSeq([s EXCEPT ![i] = x], 1, k), T) <= Nb(SubSeq(s, 1, k), T)
<1> DEFINE t == [s EXCEPT ![i] = x]
<1>1. t \in Seq(S) /\ DOMAIN t = DOMAIN s /\ \A j \in DOMAIN s : t[j] = IF j = i THEN x ELSE s[j]
  BY FileChange
<1> HIDE DEF t
<1>2. \A j \in DOMAIN SubSeq(t, 1, k) :
        SubSeq(t, 1, k)[j] \in T => j \in DOMAIN SubSeq(s, 1, k) /\ SubSeq(s, 1, k)[j] \in T
  <2>1. DOMAIN SubSeq(t, 1, k) = 1 .. k /\ \A j \in 1 .. k : j \in DOMAIN t /\ SubSeq(t, 1, k)[j] = t[j]
    BY <1>1, DebutType
  <2>2. DOMAIN SubSeq(s, 1, k) = 1 .. k /\ \A j \in 1 .. k : j \in DOMAIN s /\ SubSeq(s, 1, k)[j] = s[j]
    BY DebutType
  <2> QED
    BY <1>1, <2>1, <2>2, Zenon
<1>3. Nb(SubSeq(t, 1, k), T) <= Nb(SubSeq(s, 1, k), T)
  BY <1>1, <1>2, DebutType, NbInclus
<1> QED
  BY <1>3 DEF t

-----------------------------------------------------------------------------
(***************************************************************************)
(* A step that executes nothing keeps the accounts when what it adds is    *)
(* paid for, and the good commands on their way are old ones or the last.  *)
(***************************************************************************)
Reste(s, t, n) ==
  \A i \in DOMAIN t : t[i] \in Bons =>
    \/ \E j \in DOMAIN s : t[i] = s[j] /\ Nb(SubSeq(t, 1, i), Bons) <= Nb(SubSeq(s, 1, j), Bons)
    \/ t[i].n = n /\ SubSeq(t, 1, i) = t

LEMMA CompteTypes ==
  ASSUME NEW vs \in Seq(Jetons), NEW vc \in Seq(Jetons), NEW t, NEW l
  PROVE  /\ Retour(l, vs, vc) \in Nat /\ Route(t, vs, vc) \in Nat /\ Due(l, vc) \in {0, 1}
         /\ Nb(vs, Bons) <= Nb(vs, Charges)
         /\ Nb(vs, Bons) \in Nat /\ Nb(vs, Charges) \in Nat /\ Nb(vs, Demandes) \in Nat
         /\ Nb(vc, Charges) \in Nat /\ Nb(vc, Demandes) \in Nat
<1>1. Due(l, vc) \in {0, 1}
  BY DEF Due
<1>2. \A T : Nb(vs, T) \in Nat /\ Nb(vc, T) \in Nat
  BY PlacesFinies
<1>3. Nb(vs, Bons) <= Nb(vs, Charges)
  BY NbInclus DEF Bons, Charges
<1> QED
  BY <1>1, <1>2, <1>3 DEF Retour, Route

LEMMA EtatTypes ==
  TInv => /\ Rendues \in Nat /\ Execute \in Nat /\ Fautes \in Nat /\ packet \in Nat /\ len \in Nat
          /\ versSim \in Seq(Jetons) /\ versClient \in Seq(Jetons) /\ texte \in BOOLEAN
          /\ commande \in 1 .. Len(Programme) /\ packet \in 0 .. Len(Programme)
<1> SUFFICES ASSUME TInv
             PROVE  /\ Rendues \in Nat /\ Execute \in Nat /\ Fautes \in Nat
                    /\ packet \in Nat /\ len \in Nat /\ texte \in BOOLEAN
  BY DEF TInv, TClient, TLien
<1>1. Rendues \in Nat /\ packet \in Nat /\ len \in Nat
  BY DEF TInv, TClient, Rendues
<1>2. Execute \in Nat
  <2>1. journal \in Seq(1 .. Len(Programme))
    BY DEF TInv, TSim
  <2>2. journal # <<>> => journal[Len(journal)] \in 1 .. Len(Programme)
    BY <2>1
  <2> QED
    BY <2>2 DEF Execute
<1>3. Fautes \in Nat
  BY LigneAssumption DEF TInv, TAlteres, Fautes, Degats
<1> QED
  BY <1>1, <1>2, <1>3 DEF TInv, TSim

LEMMA SommeTotale ==
  ASSUME NEW r \in Nat, NEW f \in Nat, NEW r2 \in Nat, NEW f2 \in Nat, NEW u \in Nat,
         NEW u2 \in Nat, NEW p \in Nat, NEW p2 \in Nat,
         r + u <= p + f, r2 + u2 + p + f <= r + u + p2 + f2
  PROVE  r2 + u2 <= p2 + f2
OBVIOUS

LEMMA SommeDevant ==
  ASSUME NEW r \in Nat, NEW f \in Nat, NEW r2 \in Nat, NEW f2 \in Nat, NEW k \in Nat,
         NEW k2 \in Nat, NEW n \in Nat, r + k <= n + f, r2 + f <= r + f2, k2 <= k
  PROVE  r2 + k2 <= n + f2
OBVIOUS

LEMMA SommeSuite ==
  ASSUME NEW r \in Nat, NEW f \in Nat, NEW u \in Nat, NEW k \in Nat, NEW p \in Nat,
         r + u <= p + f, k <= u
  PROVE  r + k <= p + f
OBVIOUS

LEMMA PayeGarde ==
  ASSUME TInv, TInv', NEW r \in Nat, NEW f \in Nat, NEW r2 \in Nat, NEW f2 \in Nat,
         Paye(r, f), UNCHANGED journal,
         r2 + f <= r + f2,
         r2 + Route(texte', versSim', versClient') + packet + f
           <= r + Route(texte, versSim, versClient) + packet' + f2,
         Reste(versSim, versSim', packet')
  PROVE  Paye(r2, f2)'
<1>1. /\ Execute \in Nat /\ packet \in Nat /\ packet' \in Nat /\ UNCHANGED Execute
      /\ versSim \in Seq(Jetons) /\ versClient \in Seq(Jetons)
      /\ versSim' \in Seq(Jetons) /\ versClient' \in Seq(Jetons)
  BY EtatTypes DEF TInv, TLien, TClient, Execute
<1>2. /\ Route(texte, versSim, versClient) \in Nat /\ Route(texte', versSim', versClient') \in Nat
      /\ Nb(versSim', Bons) <= Nb(versSim', Charges)
      /\ Nb(versSim', Bons) \in Nat /\ Nb(versSim', Charges) \in Nat
      /\ Nb(versClient', Demandes) \in Nat
  BY <1>1, CompteTypes
<1>3. r2 <= Execute' + f2
  BY <1>1 DEF Paye
<1>4. r2 + Route(texte', versSim', versClient') <= packet' + f2
  <2>1. r + Route(texte, versSim, versClient) <= packet + f
    BY DEF Paye
  <2>2. PICK u, u2, p, p2 : /\ u = Route(texte, versSim, versClient) /\ p = packet
                            /\ u2 = Route(texte', versSim', versClient') /\ p2 = packet'
    OBVIOUS
  <2>3. u \in Nat /\ u2 \in Nat /\ p \in Nat /\ p2 \in Nat
    BY <1>1, <1>2, <2>2
  <2>4. r + u <= p + f /\ r2 + u2 + p + f <= r + u + p2 + f2
    BY <2>1, <2>2
  <2>5. r2 + u2 <= p2 + f2
    BY <2>3, <2>4, SommeTotale
  <2> QED
    BY <2>2, <2>5
<1>5. ASSUME NEW i \in DOMAIN versSim', versSim'[i] \in Bons
      PROVE  r2 + Nb(SubSeq(versSim', 1, i), Bons) <= versSim'[i].n + f2
  <2>1. Nb(SubSeq(versSim', 1, i), Bons) \in Nat
    BY <1>1, DebutType, PlacesFinies
  <2>2. CASE versSim'[i].n = packet' /\ SubSeq(versSim', 1, i) = versSim'
    <3>1. Nb(versSim', Bons) <= Route(texte', versSim', versClient')
      BY <1>2 DEF Route
    <3> QED
      BY <1>1, <1>2, <1>4, <2>2, <3>1, SommeSuite
  <2>3. CASE \E j \in DOMAIN versSim :
               /\ versSim'[i] = versSim[j]
               /\ Nb(SubSeq(versSim', 1, i), Bons) <= Nb(SubSeq(versSim, 1, j), Bons)
    <3>1. PICK j \in DOMAIN versSim :
                 /\ versSim'[i] = versSim[j]
                 /\ Nb(SubSeq(versSim', 1, i), Bons) <= Nb(SubSeq(versSim, 1, j), Bons)
      BY <2>3
    <3>2. r + Nb(SubSeq(versSim, 1, j), Bons) <= versSim[j].n + f
      BY <1>5, <3>1 DEF Paye
    <3>3. versSim[j].n \in Nat
      <4>1. versSim[j] \in Jetons /\ versSim[j].sorte = "paquet"
        BY <1>5, <3>1 DEF Bons
      <4>2. versSim[j].n \in 1 .. Len(Programme)
        BY <4>1, PaquetLu
      <4>3. \A n \in 1 .. Len(Programme) : n \in Nat
        BY ProgrammeAssumption
      <4> QED
        BY <4>2, <4>3, Zenon
    <3>4. Nb(SubSeq(versSim, 1, j), Bons) \in Nat
      BY <1>1, DebutType, PlacesFinies
    <3> QED
      BY <2>1, <3>1, <3>2, <3>3, <3>4, SommeDevant
  <2> QED
    BY <1>5, <2>2, <2>3 DEF Reste
<1> QED
  BY <1>3, <1>4, <1>5 DEF Paye

-----------------------------------------------------------------------------
(***************************************************************************)
(* The accounts of a step in numbers.                                      *)
(***************************************************************************)
Texte(t) == IF t THEN 1 ELSE 0

Nombres ==
  /\ Rendues \in Nat /\ Fautes \in Nat /\ packet \in Nat /\ Texte(texte) \in Nat
  /\ Nb(versClient, Charges) \in Nat /\ Nb(versClient, Demandes) \in Nat
  /\ Nb(versSim, Charges) \in Nat /\ Nb(versSim, Demandes) \in Nat
  /\ Due(len, versClient) \in Nat

LEMMA Naturels == TInv => Nombres
<1> SUFFICES ASSUME TInv
             PROVE  /\ Nb(versClient, Charges) \in Nat /\ Nb(versClient, Demandes) \in Nat
                    /\ Nb(versSim, Charges) \in Nat /\ Nb(versSim, Demandes) \in Nat
                    /\ Due(len, versClient) \in Nat
  BY EtatTypes DEF Texte, Nombres
<1>1. versSim \in Seq(Jetons) /\ versClient \in Seq(Jetons)
  BY DEF TInv, TLien
<1>2. Due(len, versClient) \in {0, 1}
  BY DEF Due
<1>3. \A T : Nb(versSim, T) \in Nat /\ Nb(versClient, T) \in Nat
  BY <1>1, PlacesFinies
<1> QED
  BY <1>2, <1>3

LEMMA NaturelsSuite == TInv' => Nombres'
BY Naturels, PTL

(***************************************************************************)
(* The sides of Paye: what does not need another command, and everything.  *)
(***************************************************************************)
Avoir == Rendues + Nb(versClient, Charges) + Due(len, versClient) + Nb(versSim, Demandes)

Somme == Avoir + Nb(versSim, Charges) + Nb(versClient, Demandes) + Texte(texte)

LEMMA SommeGarde ==
  ASSUME Nombres, Avoir \in Nat, Avoir' \in Nat, Avoir' + Fautes <= Avoir + Fautes',
         Fautes' = Fautes, packet' = packet, Texte(texte') = Texte(texte),
         Nb(versSim', Charges) = Nb(versSim, Charges),
         Nb(versClient', Demandes) = Nb(versClient, Demandes)
  PROVE  Somme' + packet + Fautes <= Somme + packet' + Fautes'
<1>1. PICK v, v2, f, p, c, d, x :
        /\ v = Avoir /\ v2 = Avoir' /\ f = Fautes /\ p = packet /\ c = Nb(versSim, Charges)
        /\ d = Nb(versClient, Demandes) /\ x = Texte(texte)
  OBVIOUS
<1>2. v \in Nat /\ v2 \in Nat /\ f \in Nat /\ p \in Nat /\ c \in Nat /\ d \in Nat /\ x \in Nat
  BY <1>1 DEF Nombres
<1>3. v2 + f <= v + f
  BY <1>1
<1>4. v2 + c + d + x + p + f <= v + c + d + x + p + f
  BY <1>2, <1>3
<1>5. Somme = v + c + d + x
  BY <1>1 DEF Somme
<1>6. Somme' = v2 + c + d + x
  BY <1>1 DEF Somme
<1> QED
  BY <1>1, <1>4, <1>5, <1>6

LEMMA Bilan ==
  ASSUME TInv, TInv', Compte, ouvert, UNCHANGED journal, BruitsCourts(versClient'),
         phase' = "envoi" => packet' = commande' - 1, Reste(versSim, versSim', packet'),
         Avoir' + Fautes <= Avoir + Fautes',
         Somme' + packet + Fautes <= Somme + packet' + Fautes'
  PROVE  Compte'
<1>1. PICK r, r2, f, f2 : /\ r = Rendues + Retour(len, versSim, versClient) /\ f = Fautes
                          /\ r2 = Rendues' + Retour(len', versSim', versClient') /\ f2 = Fautes'
  OBVIOUS
<1>2. r \in Nat /\ f \in Nat /\ r2 \in Nat /\ f2 \in Nat
  BY <1>1, Naturels, NaturelsSuite DEF Retour, Nombres, Avoir
<1>3. r2 + f <= r + f2
  BY <1>1, Naturels, NaturelsSuite DEF Retour, Nombres, Avoir
<1>4. r2 + Route(texte', versSim', versClient') + packet + f
        <= r + Route(texte, versSim, versClient) + packet' + f2
  BY <1>1, Naturels, NaturelsSuite DEF Retour, Route, Texte, Nombres, Avoir, Somme
<1>5. Paye(r, f)
  BY <1>1 DEF Compte
<1>6. Paye(r2, f2)'
  BY <1>2, <1>3, <1>4, <1>5, PayeGarde
<1> QED
  BY <1>1, <1>6 DEF Compte, Paye

(***************************************************************************)
(* What reading and writing do to the numbers.                             *)
(***************************************************************************)
LEMMA NbSignes ==
  /\ Nb(<<Signe("+")>>, Charges) = 0 /\ Nb(<<Signe("+")>>, Demandes) = 0
  /\ Nb(<<Signe("-")>>, Charges) = 0 /\ Nb(<<Signe("-")>>, Demandes) = 1
  /\ Nb(<<>>, Charges) = 0 /\ Nb(<<>>, Demandes) = 0
  /\ Nb(<<Signe("+")>>, Bons) = 0 /\ Nb(<<Signe("-")>>, Bons) = 0 /\ Nb(<<>>, Bons) = 0
  /\ \A n \in 1 .. Len(Programme) :
       Nb(<<Paquet(n)>>, Charges) = 1 /\ Nb(<<Paquet(n)>>, Demandes) = 0
  /\ \A n \in 1 .. Trame + 1 :
       Nb(<<Bruit(n)>>, Charges) = 1 /\ Nb(<<Bruit(n)>>, Demandes) = 0
<1>1. /\ Signe("+") \notin Charges \union Demandes \union Bons
      /\ Signe("-") \notin Charges \union Bons /\ Signe("-") \in Demandes
  BY SigneJeton, Dedans, Formes
<1>2. \A n \in 1 .. Len(Programme) : Paquet(n) \in Charges /\ Paquet(n) \notin Demandes
  BY PaquetJeton, Dedans, Formes
<1>3. \A n \in 1 .. Trame + 1 : Bruit(n) \in Charges /\ Bruit(n) \notin Demandes
  BY BruitJeton, Dedans, Formes
<1> QED
  BY <1>1, <1>2, <1>3, NbUn, NbVide

LEMMA NbTete ==
  ASSUME NEW s \in Seq(Jetons), s # <<>>
  PROVE  /\ Head(s).sorte \in {"paquet", "bruit"} =>
              Nb(s, Charges) = Nb(Tail(s), Charges) + 1 /\ Nb(s, Demandes) = Nb(Tail(s), Demandes)
         /\ Head(s).sorte = "-" =>
              Nb(s, Charges) = Nb(Tail(s), Charges) /\ Nb(s, Demandes) = Nb(Tail(s), Demandes) + 1
         /\ Head(s).sorte = "+" =>
              Nb(s, Charges) = Nb(Tail(s), Charges) /\ Nb(s, Demandes) = Nb(Tail(s), Demandes)
<1>1. Head(s) \in Jetons /\ Tail(s) \in Seq(Jetons)
  BY FileQueue
<1>2. Nb(Tail(s), Charges) \in Nat /\ Nb(Tail(s), Demandes) \in Nat
  BY <1>1, PlacesFinies
<1>3. \A T : Nb(s, T) = (IF Head(s) \in T THEN 1 ELSE 0) + Nb(Tail(s), T)
  BY NbQueue
<1>4. /\ Head(s) \in Charges <=> Head(s).sorte \in {"paquet", "bruit"}
      /\ Head(s) \in Demandes <=> Head(s).sorte = "-"
  BY <1>1, Dedans
<1>5. /\ Nb(s, Charges) = (IF Head(s) \in Charges THEN 1 ELSE 0) + Nb(Tail(s), Charges)
      /\ Nb(s, Demandes) = (IF Head(s) \in Demandes THEN 1 ELSE 0) + Nb(Tail(s), Demandes)
  BY <1>3
<1>6. CASE Head(s).sorte \in {"paquet", "bruit"}
  BY <1>2, <1>4, <1>5, <1>6
<1>7. CASE Head(s).sorte = "-"
  BY <1>2, <1>4, <1>5, <1>7
<1>8. CASE Head(s).sorte = "+"
  BY <1>2, <1>4, <1>5, <1>8
<1> QED
  BY <1>6, <1>7, <1>8

(***************************************************************************)
(* Good commands are where they were, in front of what they were.          *)
(***************************************************************************)
LEMMA AuPlus == \A a \in Nat : a <= a
OBVIOUS

LEMMA ResteAjoute ==
  ASSUME NEW s \in Seq(Jetons), NEW t \in Seq(Jetons), NEW n,
         \A i \in DOMAIN t : t[i] \notin Bons
  PROVE  Reste(s, s \o t, n)
<1> SUFFICES ASSUME NEW i \in DOMAIN (s \o t), (s \o t)[i] \in Bons
             PROVE  \E j \in DOMAIN s : /\ (s \o t)[i] = s[j]
                                        /\ Nb(SubSeq(s \o t, 1, i), Bons) <= Nb(SubSeq(s, 1, j), Bons)
  BY Zenon DEF Reste
<1>1. i \in DOMAIN s /\ (s \o t)[i] = s[i]
  BY Accole
<1>2. SubSeq(s \o t, 1, i) = SubSeq(s, 1, i)
  BY <1>1, DebutAjoute
<1>3. Nb(SubSeq(s, 1, i), Bons) \in Nat
  BY <1>1, DebutType, PlacesFinies
<1>4. Nb(SubSeq(s \o t, 1, i), Bons) <= Nb(SubSeq(s, 1, i), Bons)
  BY <1>2, <1>3, AuPlus, Zenon
<1> QED
  BY <1>1, <1>4

LEMMA ResteQueue ==
  ASSUME NEW s \in Seq(Jetons), s # <<>>, NEW n
  PROVE  Reste(s, Tail(s), n)
<1> SUFFICES ASSUME NEW i \in DOMAIN Tail(s), Tail(s)[i] \in Bons
             PROVE  \E j \in DOMAIN s : /\ Tail(s)[i] = s[j]
                                        /\ Nb(SubSeq(Tail(s), 1, i), Bons) <= Nb(SubSeq(s, 1, j), Bons)
  BY Zenon DEF Reste
<1>1. /\ i + 1 \in DOMAIN s /\ Tail(s)[i] = s[i + 1]
      /\ Nb(SubSeq(s, 1, i + 1), Bons)
           = Nb(SubSeq(Tail(s), 1, i), Bons) + (IF Head(s) \in Bons THEN 1 ELSE 0)
  BY DebutQueue
<1>2. Nb(SubSeq(Tail(s), 1, i), Bons) \in Nat
  <2>1. Tail(s) \in Seq(Jetons)
    BY FileQueue
  <2> QED
    BY <2>1, DebutType, PlacesFinies
<1>3. Nb(SubSeq(Tail(s), 1, i), Bons) <= Nb(SubSeq(s, 1, i + 1), Bons)
  BY <1>1, <1>2
<1> QED
  BY <1>1, <1>3

LEMMA ResteChange ==
  ASSUME NEW s \in Seq(Jetons), NEW i \in DOMAIN s, NEW x \in Jetons, x \notin Bons, NEW n
  PROVE  Reste(s, [s EXCEPT ![i] = x], n)
<1> DEFINE t == [s EXCEPT ![i] = x]
<1>1. DOMAIN t = DOMAIN s /\ \A k \in DOMAIN s : t[k] = IF k = i THEN x ELSE s[k]
  OBVIOUS
<1>2. \A k \in DOMAIN s : Nb(SubSeq(t, 1, k), Bons) <= Nb(SubSeq(s, 1, k), Bons)
  BY DebutChange
<1> HIDE DEF t
<1>3. Reste(s, t, n)
  BY <1>1, <1>2, Zenon DEF Reste
<1> QED
  BY <1>3 DEF t

LEMMA ResteEnvoi ==
  ASSUME NEW s \in Seq(Jetons), NEW t \in Seq(Jetons), NEW n,
         \A i \in DOMAIN t : t[i] \notin Bons, Paquet(n) \in Jetons
  PROVE  Reste(s, s \o (t \o <<Paquet(n)>>), n)
<1> DEFINE u == s \o t
           v == u \o <<Paquet(n)>>
<1>1. u \in Seq(Jetons) /\ <<Paquet(n)>> \in Seq(Jetons) /\ v \in Seq(Jetons)
  OBVIOUS
<1>2. s \o (t \o <<Paquet(n)>>) = v
  BY <1>1
<1>4. DOMAIN v = 1 .. Len(u) + 1 /\ v[Len(u) + 1] = Paquet(n) /\ Len(u) \in Nat
      /\ DOMAIN u = 1 .. Len(u) /\ SubSeq(v, 1, Len(u) + 1) = v
  BY <1>1
<1> HIDE DEF u, v
<1>5. ASSUME NEW i \in DOMAIN v, v[i] \in Bons
      PROVE  \/ \E j \in DOMAIN s : v[i] = s[j] /\ Nb(SubSeq(v, 1, i), Bons) <= Nb(SubSeq(s, 1, j), Bons)
             \/ v[i].n = n /\ SubSeq(v, 1, i) = v
  <2>1. CASE i = Len(u) + 1
    BY <1>4, <2>1, Formes
  <2>2. CASE i # Len(u) + 1
    <3>1. i \in DOMAIN u
      BY <1>4, <2>2
    <3>2. v[i] = u[i] /\ SubSeq(v, 1, i) = SubSeq(u, 1, i)
      BY <1>1, <3>1, AccoleDebut, DebutAjoute DEF v
    <3>3. \E j \in DOMAIN s : u[i] = s[j] /\ Nb(SubSeq(u, 1, i), Bons) <= Nb(SubSeq(s, 1, j), Bons)
      <4>1. i \in DOMAIN s /\ u[i] = s[i]
        BY <1>5, <3>1, <3>2, Accole DEF u
      <4>2. SubSeq(u, 1, i) = SubSeq(s, 1, i)
        BY <4>1, DebutAjoute DEF u
      <4>3. Nb(SubSeq(s, 1, i), Bons) \in Nat
        BY <4>1, DebutType, PlacesFinies
      <4>4. Nb(SubSeq(u, 1, i), Bons) <= Nb(SubSeq(s, 1, i), Bons)
        BY <4>2, <4>3, AuPlus, Zenon
      <4> QED
        BY <4>1, <4>4
    <3> QED
      BY <3>2, <3>3, Zenon
  <2> QED
    BY <2>1, <2>2
<1>6. Reste(s, v, n)
  BY <1>5, Zenon DEF Reste
<1> QED
  BY <1>2, <1>6

LEMMA SansBons ==
  ASSUME NEW t, ~Porte(t, {"paquet", "bruit"})
  PROVE  \A i \in DOMAIN t : t[i] \notin Bons
BY DEF Porte, Bons

LEMMA NbPlainte ==
  ASSUME len \in Nat
  PROVE  /\ Nb(Plainte, Charges) = 0 /\ Nb(Plainte, Demandes) = IF len = 0 THEN 0 ELSE 1
         /\ Nb(Plainte \o <<Signe("+")>>, Charges) = 0
         /\ Nb(Plainte \o <<Signe("+")>>, Demandes) = IF len = 0 THEN 0 ELSE 1
         /\ Nb(Plainte \o <<Signe("-")>>, Charges) = 0
         /\ Nb(Plainte \o <<Signe("-")>>, Demandes) = IF len = 0 THEN 1 ELSE 2
         /\ \A n \in 1 .. Len(Programme) :
              /\ Nb(Plainte \o <<Paquet(n)>>, Charges) = 1
              /\ Nb(Plainte \o <<Paquet(n)>>, Demandes) = IF len = 0 THEN 0 ELSE 1
<1>1. Nb(Plainte, Charges) = 0 /\ Nb(Plainte, Demandes) = IF len = 0 THEN 0 ELSE 1
  BY NbSignes DEF Plainte
<1>2. ASSUME NEW t \in Seq(Jetons), NEW T
      PROVE  Nb(Plainte \o t, T) = Nb(Plainte, T) + Nb(t, T)
  BY PlainteType, NbSuite
<1>3. <<Signe("+")>> \in Seq(Jetons) /\ <<Signe("-")>> \in Seq(Jetons)
      /\ \A n \in 1 .. Len(Programme) : <<Paquet(n)>> \in Seq(Jetons)
  BY SigneJeton, PaquetJeton, FileUn
<1>4. /\ Nb(Plainte \o <<Signe("+")>>, Charges) = Nb(Plainte, Charges) + Nb(<<Signe("+")>>, Charges)
      /\ Nb(Plainte \o <<Signe("+")>>, Demandes) = Nb(Plainte, Demandes) + Nb(<<Signe("+")>>, Demandes)
      /\ Nb(Plainte \o <<Signe("-")>>, Charges) = Nb(Plainte, Charges) + Nb(<<Signe("-")>>, Charges)
      /\ Nb(Plainte \o <<Signe("-")>>, Demandes) = Nb(Plainte, Demandes) + Nb(<<Signe("-")>>, Demandes)
  BY <1>2, <1>3
<1>5. \A n \in 1 .. Len(Programme) :
        /\ Nb(Plainte \o <<Paquet(n)>>, Charges) = Nb(Plainte, Charges) + Nb(<<Paquet(n)>>, Charges)
        /\ Nb(Plainte \o <<Paquet(n)>>, Demandes) = Nb(Plainte, Demandes) + Nb(<<Paquet(n)>>, Demandes)
  BY <1>2, <1>3
<1>6. CASE len = 0
  BY <1>1, <1>4, <1>5, <1>6, NbSignes
<1>7. CASE len # 0
  BY <1>1, <1>4, <1>5, <1>7, NbSignes
<1> QED
  BY <1>6, <1>7

LEMMA CourtsQueue ==
  ASSUME NEW s \in Seq(Jetons), s # <<>>, BruitsCourts(s)
  PROVE  BruitsCourts(Tail(s)) /\ (Head(s).sorte = "bruit" => Head(s).n \in 1 .. MAX_ERROR_SIZE - 1)
BY Queue DEF BruitsCourts

LEMMA RenduesGarde ==
  ASSUME phase # "fini", phase' # "fini", UNCHANGED commande
  PROVE  UNCHANGED Rendues
BY DEF Rendues

LEMMA RenduesAvance ==
  ASSUME TInv, phase = "attente", NEW fin, phase' = PhaseApres(fin), commande' = CommandeApres(fin)
  PROVE  Rendues' = Rendues + 1 /\ (phase' = "envoi" => packet = commande' - 1)
<1>1. commande \in Nat /\ packet = commande
  BY DEF TInv, TClient
<1>2. CASE Derniere(fin)
  BY <1>1, <1>2 DEF PhaseApres, CommandeApres, Rendues
<1>3. CASE ~Derniere(fin)
  BY <1>1, <1>3 DEF PhaseApres, CommandeApres, Rendues
<1> QED
  BY <1>2, <1>3

(***************************************************************************)
(* A token that is not noise is read, and what yylex answers is written.   *)
(***************************************************************************)
LEMMA LuEcrit ==
  ASSUME TInv, Compte, ouvert, versClient # <<>>, Head(versClient).sorte # "bruit",
         versClient' = Tail(versClient), len' = 0,
         NEW t \in Seq(Jetons), versSim' = versSim \o t
  PROVE  /\ BruitsCourts(versClient') /\ Due(len', versClient') = 0
         /\ Due(len, versClient) = IF len = 0 THEN 0 ELSE 1
         /\ Nb(versSim', Charges) = Nb(versSim, Charges) + Nb(t, Charges)
         /\ Nb(versSim', Demandes) = Nb(versSim, Demandes) + Nb(t, Demandes)
<1>1. versSim \in Seq(Jetons) /\ versClient \in Seq(Jetons)
  BY DEF TInv, TLien
<1>2. BruitsCourts(versClient')
  BY <1>1, CourtsQueue DEF Compte
<1>3. Due(len', versClient') = 0 /\ Due(len, versClient) = IF len = 0 THEN 0 ELSE 1
  BY DEF Due
<1> QED
  BY <1>1, <1>2, <1>3, NbSuite

LEMMA CompteAccuse ==
  ASSUME TInv, TInv', Compte, ouvert, LireAccuse, UNCHANGED <<simulateur, alteres>>
  PROVE  Compte'
<1>1. /\ versClient # <<>> /\ Head(versClient).sorte = "+" /\ versClient' = Tail(versClient)
      /\ versSim' = versSim \o Plainte /\ phase = "attente" /\ phase' = "attente" /\ len' = 0
      /\ UNCHANGED <<commande, packet, texte, journal, alteres>>
  BY EcrireOuvert DEF LireAccuse, Recu, simulateur
<1>2. versSim \in Seq(Jetons) /\ versClient \in Seq(Jetons) /\ len \in Nat
  BY EtatTypes
<1>3. /\ BruitsCourts(versClient') /\ Due(len', versClient') = 0
      /\ Due(len, versClient) = IF len = 0 THEN 0 ELSE 1
      /\ Nb(versSim', Charges) = Nb(versSim, Charges) + Nb(Plainte, Charges)
      /\ Nb(versSim', Demandes) = Nb(versSim, Demandes) + Nb(Plainte, Demandes)
  BY <1>1, LuEcrit, PlainteType
<1>4. Nb(versClient, Charges) = Nb(versClient', Charges)
      /\ Nb(versClient, Demandes) = Nb(versClient', Demandes)
  BY <1>1, <1>2, NbTete
<1>5. Nb(Plainte, Charges) = 0 /\ Nb(Plainte, Demandes) = Due(len, versClient)
  BY <1>2, <1>3, NbPlainte
<1>6. Rendues' = Rendues /\ Fautes' = Fautes /\ Texte(texte') = Texte(texte) /\ packet' = packet
  BY <1>1, RenduesGarde DEF Fautes
<1>7. Reste(versSim, versSim', packet')
  BY <1>1, <1>2, PlainteSignes, SansBons, ResteAjoute
<1>8. Nombres
  BY Naturels
<1>9. Avoir' + Fautes <= Avoir + Fautes' /\ Somme' + packet + Fautes <= Somme + packet' + Fautes'
  <2>1. /\ Nb(versSim', Charges) = Nb(versSim, Charges)
        /\ Nb(versSim', Demandes) = Nb(versSim, Demandes) + Due(len, versClient)
    BY <1>3, <1>5, <1>8 DEF Nombres
  <2>2. Due(len', versClient') = 0
    BY <1>3
  <2> QED
    BY <1>4, <1>6, <1>8, <2>1, <2>2 DEF Nombres, Avoir, Somme
<1>10. UNCHANGED journal /\ phase' # "envoi"
  BY <1>1
<1> QED
  BY <1>3, <1>7, <1>9, <1>10, Bilan

LEMMA CompteDemande ==
  ASSUME TInv, TInv', Compte, ouvert, LireDemande, UNCHANGED <<simulateur, alteres>>
  PROVE  Compte'
<1> DEFINE t == Plainte \o <<Paquet(packet)>>
<1>1. /\ versClient # <<>> /\ Head(versClient).sorte = "-" /\ versClient' = Tail(versClient)
      /\ versSim' = versSim \o t /\ phase = "attente" /\ phase' = "attente" /\ len' = 0
      /\ UNCHANGED <<commande, packet, texte, journal, alteres>>
  BY EcrireOuvert DEF LireDemande, Retransmet, Recu, simulateur
<1>2. versSim \in Seq(Jetons) /\ versClient \in Seq(Jetons) /\ len \in Nat
  BY EtatTypes
<1>3. packet \in 1 .. Len(Programme) /\ Paquet(packet) \in Jetons
  BY <1>1, EtatTypes, PaquetJeton DEF TInv, TClient
<1>4. t \in Seq(Jetons)
  BY <1>3, PlainteType, FileUn, FileSuite
<1>5. /\ Nb(t, Charges) = 1 /\ Nb(t, Demandes) = IF len = 0 THEN 0 ELSE 1
  BY <1>2, <1>3, NbPlainte
<1>6. Reste(versSim, versSim', packet')
  BY <1>1, <1>2, <1>3, PlainteType, PlainteSignes, SansBons, ResteEnvoi
<1> HIDE DEF t
<1>7. /\ BruitsCourts(versClient') /\ Due(len', versClient') = 0
      /\ Due(len, versClient) = IF len = 0 THEN 0 ELSE 1
      /\ Nb(versSim', Charges) = Nb(versSim, Charges) + Nb(t, Charges)
      /\ Nb(versSim', Demandes) = Nb(versSim, Demandes) + Nb(t, Demandes)
  BY <1>1, <1>4, LuEcrit
<1>8. Nb(versClient, Charges) = Nb(versClient', Charges)
      /\ Nb(versClient, Demandes) = Nb(versClient', Demandes) + 1
  BY <1>1, <1>2, NbTete
<1>9. Rendues' = Rendues /\ Fautes' = Fautes /\ Texte(texte') = Texte(texte) /\ packet' = packet
  BY <1>1, RenduesGarde DEF Fautes
<1>10. Nombres /\ Nombres'
  BY Naturels, NaturelsSuite
<1>11. Avoir' + Fautes <= Avoir + Fautes' /\ Somme' + packet + Fautes <= Somme + packet' + Fautes'
  <2>1. /\ Nb(versSim', Charges) = Nb(versSim, Charges) + 1
        /\ Nb(versSim', Demandes) = Nb(versSim, Demandes) + Due(len, versClient)
    BY <1>5, <1>7, <1>10 DEF Nombres
  <2>2. Due(len', versClient') = 0
    BY <1>7
  <2> QED
    BY <1>8, <1>9, <1>10, <2>1, <2>2 DEF Nombres, Avoir, Somme
<1>12. UNCHANGED journal /\ phase' # "envoi"
  BY <1>1
<1> QED
  BY <1>6, <1>7, <1>11, <1>12, Bilan

LEMMA CompteReponse ==
  ASSUME TInv, TInv', Compte, ouvert, LireReponse, UNCHANGED <<simulateur, alteres>>
  PROVE  Compte'
<1>1. /\ versClient # <<>> /\ Head(versClient).sorte = "paquet" /\ versClient' = Tail(versClient)
      /\ phase = "attente" /\ len' = 0
      /\ UNCHANGED <<packet, texte, journal, alteres>>
  BY DEF LireReponse, Recu, simulateur
<1>2. versSim \in Seq(Jetons) /\ versClient \in Seq(Jetons) /\ len \in Nat
  BY EtatTypes
<1>3. Nb(versClient, Charges) = Nb(versClient', Charges) + 1
      /\ Nb(versClient, Demandes) = Nb(versClient', Demandes)
  BY <1>1, <1>2, NbTete
<1>4. Fautes' = Fautes /\ Texte(texte') = Texte(texte) /\ packet' = packet
  BY <1>1 DEF Fautes
<1>5. Nombres /\ Nombres'
  BY Naturels, NaturelsSuite
<1>6. ASSUME NEW t, t \in Seq(Jetons), versSim' = versSim \o t, ~Porte(t, {"paquet", "bruit"}),
             Nb(t, Charges) = 0, Nb(t, Demandes) \in Nat,
             Rendues' + Nb(t, Demandes) <= Rendues + (IF len = 0 THEN 0 ELSE 1) + 1,
             phase' = "envoi" => packet' = commande' - 1
      PROVE  Compte'
  <2>1. /\ BruitsCourts(versClient') /\ Due(len', versClient') = 0
        /\ Due(len, versClient) = IF len = 0 THEN 0 ELSE 1
        /\ Nb(versSim', Charges) = Nb(versSim, Charges) + Nb(t, Charges)
        /\ Nb(versSim', Demandes) = Nb(versSim, Demandes) + Nb(t, Demandes)
    BY <1>1, <1>6, LuEcrit
  <2>2. Reste(versSim, versSim', packet')
    BY <1>2, <1>6, SansBons, ResteAjoute
  <2>3. Avoir' + Fautes <= Avoir + Fautes' /\ Somme' + packet + Fautes <= Somme + packet' + Fautes'
    <3>1. /\ Nb(versSim', Charges) = Nb(versSim, Charges)
          /\ Nb(versSim', Demandes) = Nb(versSim, Demandes) + Nb(t, Demandes)
          /\ Rendues' + Nb(t, Demandes) <= Rendues + Due(len, versClient) + 1
      BY <1>5, <1>6, <2>1 DEF Nombres
    <3>2. Due(len', versClient') = 0
      BY <2>1
    <3>3. Nb(t, Demandes) \in Nat
      BY <1>6
    <3>4. Avoir' + Fautes <= Avoir + Fautes'
      BY <1>3, <1>4, <1>5, <3>1, <3>2, <3>3 DEF Nombres, Avoir
    <3>5. Avoir \in Nat /\ Avoir' \in Nat
      BY <1>5 DEF Nombres, Avoir
    <3>6. /\ Fautes' = Fautes /\ packet' = packet /\ Texte(texte') = Texte(texte)
          /\ Nb(versSim', Charges) = Nb(versSim, Charges)
          /\ Nb(versClient', Demandes) = Nb(versClient, Demandes)
      BY <1>3, <1>4, <3>1
    <3>7. Somme' + packet + Fautes <= Somme + packet' + Fautes'
      BY <1>5, <3>4, <3>5, <3>6, SommeGarde DEF Nombres
    <3> QED
      BY <3>4, <3>7
  <2>4. UNCHANGED journal
    BY <1>1
  <2> QED
    BY <1>6, <2>1, <2>2, <2>3, <2>4, Bilan
<1>7. CASE Accepte(Head(versClient))
  <2> DEFINE t == Plainte \o <<Signe("+")>>
  <2>1. /\ versSim' = versSim \o t
        /\ phase' = PhaseApres(FALSE) /\ commande' = CommandeApres(FALSE)
    BY <1>7, EcrireOuvert DEF LireReponse
  <2>2. Rendues' = Rendues + 1 /\ (phase' = "envoi" => packet' = commande' - 1)
    BY <1>1, <2>1, RenduesAvance
  <2>3. t \in Seq(Jetons) /\ ~Porte(t, {"paquet", "bruit"}) /\ Nb(t, Charges) = 0
        /\ Nb(t, Demandes) = IF len = 0 THEN 0 ELSE 1
    BY <1>2, PlainteSignes, NbPlainte
  <2> HIDE DEF t
  <2>4. /\ Nb(t, Demandes) \in Nat
        /\ Rendues' + Nb(t, Demandes) <= Rendues + (IF len = 0 THEN 0 ELSE 1) + 1
    BY <1>5, <2>2, <2>3 DEF Nombres
  <2> QED
    BY <1>6, <2>1, <2>2, <2>3, <2>4
<1>8. CASE ~Accepte(Head(versClient))
  <2> DEFINE t == Plainte \o <<Signe("-")>>
  <2>1. /\ versSim' = versSim \o t
        /\ phase' = "attente" /\ commande' = commande
    BY <1>8, EcrireOuvert DEF LireReponse
  <2>2. Rendues' = Rendues /\ (phase' = "envoi" => packet' = commande' - 1)
    BY <1>1, <1>5, <2>1, RenduesGarde DEF Nombres
  <2>3. t \in Seq(Jetons) /\ ~Porte(t, {"paquet", "bruit"}) /\ Nb(t, Charges) = 0
        /\ Nb(t, Demandes) = IF len = 0 THEN 1 ELSE 2
    BY <1>2, PlainteSignes, NbPlainte
  <2> HIDE DEF t
  <2>4. /\ Nb(t, Demandes) \in Nat
        /\ Rendues' + Nb(t, Demandes) <= Rendues + (IF len = 0 THEN 0 ELSE 1) + 1
    BY <1>5, <2>2, <2>3 DEF Nombres
  <2> QED
    BY <1>6, <2>1, <2>2, <2>3, <2>4
<1> QED
  BY <1>7, <1>8

LEMMA CompteEnvoi ==
  ASSUME TInv, TInv', Compte, ouvert, Envoyer, UNCHANGED <<simulateur, alteres>>
  PROVE  Compte'
<1>1. /\ phase = "envoi" /\ packet' = commande /\ phase' = "attente"
      /\ versSim' = versSim \o <<Paquet(commande)>>
      /\ UNCHANGED <<commande, len, versClient, texte, journal, alteres>>
  BY EcrireOuvert DEF Envoyer, SuiteEnvoi, simulateur
<1>2. versSim \in Seq(Jetons) /\ commande \in 1 .. Len(Programme) /\ Paquet(commande) \in Jetons
  BY EtatTypes, PaquetJeton
<1>3. packet = commande - 1 /\ BruitsCourts(versClient')
  BY <1>1 DEF Compte
<1>4. /\ Nb(versSim', Charges) = Nb(versSim, Charges) + Nb(<<Paquet(commande)>>, Charges)
      /\ Nb(versSim', Demandes) = Nb(versSim, Demandes) + Nb(<<Paquet(commande)>>, Demandes)
  <2>1. <<Paquet(commande)>> \in Seq(Jetons)
    BY <1>2, FileUn
  <2> QED
    BY <1>1, <1>2, <2>1, NbSuite
<1>5. Nb(<<Paquet(commande)>>, Charges) = 1 /\ Nb(<<Paquet(commande)>>, Demandes) = 0
  BY <1>2, NbSignes
<1>6. Rendues' = Rendues /\ Fautes' = Fautes /\ Texte(texte') = Texte(texte) /\ packet' = packet + 1
      /\ Due(len', versClient') = Due(len, versClient)
      /\ Nb(versClient', Charges) = Nb(versClient, Charges)
      /\ Nb(versClient', Demandes) = Nb(versClient, Demandes)
  BY <1>1, <1>2, <1>3, RenduesGarde DEF Fautes
<1>7. Nombres /\ Nombres'
  BY Naturels, NaturelsSuite
<1>8. Avoir' + Fautes <= Avoir + Fautes' /\ Somme' + packet + Fautes <= Somme + packet' + Fautes'
  BY <1>4, <1>5, <1>6, <1>7 DEF Nombres, Avoir, Somme
<1>9. Reste(versSim, versSim', packet')
  <2>1. <<>> \o <<Paquet(commande)>> = <<Paquet(commande)>>
    BY Mots
  <2>2. <<>> \in Seq(Jetons) /\ \A i \in DOMAIN <<>> : <<>>[i] \notin Bons
    BY FileVide
  <2>3. Reste(versSim, versSim \o (<<>> \o <<Paquet(commande)>>), commande)
    BY <1>2, <2>2, ResteEnvoi
  <2> QED
    BY <1>1, <2>1, <2>3
<1>10. UNCHANGED journal /\ phase' # "envoi"
  BY <1>1
<1> QED
  BY <1>3, <1>8, <1>9, <1>10, Bilan

LEMMA CompteConnexion ==
  ASSUME TInv, TInv', Compte, ouvert, Connecter, UNCHANGED <<simulateur, alteres>>
  PROVE  Compte'
<1>1. /\ phase = "connexion" /\ phase' # "fini"
      /\ UNCHANGED <<commande, packet, len, ouvert, versSim, versClient, texte, journal, alteres>>
  BY DEF Connecter, lien, simulateur
<1>2. UNCHANGED <<Rendues, Fautes, Execute>> /\ packet = commande - 1
  BY <1>1, RenduesGarde DEF Fautes, Execute, TInv, TClient
<1> QED
  BY <1>1, <1>2 DEF Compte, Paye, Retour, Route, Due, BruitsCourts

(***************************************************************************)
(* One character of noise is read.                                         *)
(***************************************************************************)
BruitLuDe(s) ==
  IF Head(s).n > 1 THEN <<Bruit(Head(s).n - 1)>> \o Tail(s) ELSE Tail(s)

LEMMA BruitReste ==
  ASSUME NEW s \in Seq(Jetons), s # <<>>, Head(s).sorte = "bruit", BruitsCourts(s)
  PROVE  /\ BruitsCourts(BruitLuDe(s)) /\ BruitLuDe(s) \in Seq(Jetons)
         /\ Nb(BruitLuDe(s), Demandes) = Nb(s, Demandes)
         /\ Head(s).n \in 1 .. MAX_ERROR_SIZE - 1
         /\ \/ /\ Head(s).n = 1 /\ Nb(s, Charges) = Nb(BruitLuDe(s), Charges) + 1
            \/ /\ Head(s).n > 1 /\ Nb(s, Charges) = Nb(BruitLuDe(s), Charges)
               /\ BruitLuDe(s) # <<>> /\ Head(BruitLuDe(s)) = Bruit(Head(s).n - 1)
<1> DEFINE q == Tail(s)
           n == Head(s).n
           x == Bruit(n - 1)
<1>1. Head(s) \in Jetons /\ q \in Seq(Jetons) /\ BruitsCourts(q) /\ n \in 1 .. MAX_ERROR_SIZE - 1
  BY FileQueue, CourtsQueue
<1>2. Nb(s, Charges) = Nb(q, Charges) + 1 /\ Nb(s, Demandes) = Nb(q, Demandes)
  BY NbTete
<1>3. Nb(q, Charges) \in Nat /\ Nb(q, Demandes) \in Nat
  BY <1>1, PlacesFinies
<1>4. n \in Nat /\ n >= 1
  BY <1>1, ProgrammeAssumption
<1>5. CASE n = 1
  <2>1. BruitLuDe(s) = q
    BY <1>5 DEF BruitLuDe
  <2> HIDE DEF q, n
  <2> QED
    BY <1>1, <1>2, <1>3, <1>5, <2>1 DEF n
<1>6. CASE n > 1
  <2>1. BruitLuDe(s) = <<x>> \o q
    BY <1>6 DEF BruitLuDe
  <2>2. x \in Jetons /\ x.sorte = "bruit" /\ x.n = n - 1
    BY <1>1, <1>6, BruitLu, Formes
  <2>3. x \in Charges /\ x \notin Demandes
    BY <2>2, Dedans
  <2> HIDE DEF q, n, x
  <2>4. Nb(<<x>>, Charges) = 1 /\ Nb(<<x>>, Demandes) = 0 /\ <<x>> \in Seq(Jetons)
    BY <2>2, <2>3, NbUn, FileUn
  <2>5. Nb(<<x>> \o q, Charges) = 1 + Nb(q, Charges) /\ Nb(<<x>> \o q, Demandes) = 0 + Nb(q, Demandes)
    <3>1. \A T : Nb(<<x>> \o q, T) = Nb(<<x>>, T) + Nb(q, T)
      BY <1>1, <2>4, NbSuite
    <3> QED
      BY <2>4, <3>1, Zenon
  <2>6. <<x>> \o q \in Seq(Jetons) /\ <<x>> \o q # <<>> /\ Head(<<x>> \o q) = x
    BY <1>1, <2>2
  <2>7. BruitsCourts(<<x>> \o q)
    <3> SUFFICES ASSUME NEW i \in DOMAIN (<<x>> \o q), (<<x>> \o q)[i].sorte = "bruit"
                 PROVE  (<<x>> \o q)[i].n \in 1 .. MAX_ERROR_SIZE - 1
      BY DEF BruitsCourts
    <3>1. \/ i \in DOMAIN <<x>> /\ (<<x>> \o q)[i] = <<x>>[i]
          \/ i - Len(<<x>>) \in DOMAIN q /\ (<<x>> \o q)[i] = q[i - Len(<<x>>)]
      BY <1>1, <2>4, Accole
    <3>2. CASE i \in DOMAIN <<x>> /\ (<<x>> \o q)[i] = <<x>>[i]
      <4>1. (<<x>> \o q)[i] = x
        BY <3>2
      <4>2. n - 1 \in 1 .. MAX_ERROR_SIZE - 1
        BY <1>1, <1>4, <1>6, ProgrammeAssumption
      <4> QED
        BY <2>2, <4>1, <4>2
    <3>3. CASE i - Len(<<x>>) \in DOMAIN q /\ (<<x>> \o q)[i] = q[i - Len(<<x>>)]
      BY <1>1, <3>3, Zenon DEF BruitsCourts
    <3> QED
      BY <3>1, <3>2, <3>3
  <2>8. Nb(s, Charges) = Nb(<<x>> \o q, Charges) /\ Nb(<<x>> \o q, Demandes) = Nb(s, Demandes)
    BY <1>2, <1>3, <2>5
  <2> QED
    BY <1>1, <1>6, <2>1, <2>6, <2>7, <2>8 DEF n, x
<1> QED
  BY <1>4, <1>5, <1>6

LEMMA DueLu ==
  ASSUME NEW s \in Seq(Jetons), s # <<>>, Head(s).sorte = "bruit", BruitsCourts(s),
         NEW l \in 0 .. MAX_ERROR_SIZE - 1
  PROVE  /\ l > MAX_ERROR_SIZE - 2 =>
              Due(1, BruitLuDe(s)) + Nb(BruitLuDe(s), Charges) + 1 <= Due(l, s) + Nb(s, Charges)
         /\ ~(l > MAX_ERROR_SIZE - 2) =>
              Due(l + 1, BruitLuDe(s)) + Nb(BruitLuDe(s), Charges) <= Due(l, s) + Nb(s, Charges)
<1>1. PICK q, n, c, c2 : /\ q = BruitLuDe(s) /\ n = Head(s).n
                         /\ c = Nb(s, Charges) /\ c2 = Nb(q, Charges)
  OBVIOUS
<1>2. MAX_ERROR_SIZE \in Nat /\ MAX_ERROR_SIZE >= 2 /\ l \in Nat
  BY ProgrammeAssumption
<1>3. c \in Nat /\ c2 \in Nat
  BY <1>1, BruitReste, PlacesFinies
<1>4. n \in 1 .. MAX_ERROR_SIZE - 1
      /\ \/ n = 1 /\ c = c2 + 1
         \/ n > 1 /\ c = c2 /\ q # <<>> /\ Head(q) = Bruit(n - 1)
  BY <1>1, BruitReste
<1>5. Due(l, s) = IF l = 0 \/ l + n < MAX_ERROR_SIZE THEN 0 ELSE 1
  BY <1>1 DEF Due
<1>6. \A k \in Nat : Due(k, q) \in {0, 1}
  BY DEF Due
<1>7. ASSUME NEW k \in Nat, n > 1, k + (n - 1) < MAX_ERROR_SIZE
      PROVE  Due(k, q) = 0
  BY <1>2, <1>4, <1>7, Formes DEF Due
<1>8. ASSUME NEW a, a = l + 1
      PROVE  a \in Nat
  BY <1>2, <1>8
<1>9. ASSUME l > MAX_ERROR_SIZE - 2
      PROVE  Due(1, q) + c2 + 1 <= Due(l, s) + c
  <2>1. l # 0 /\ ~(l + n < MAX_ERROR_SIZE)
    BY <1>2, <1>4, <1>9
  <2>2. Due(l, s) = 1
    BY <1>5, <2>1
  <2>3. CASE n = 1
    <3>1. Due(1, q) \in {0, 1} /\ c = c2 + 1
      BY <1>4, <1>6, <2>3
    <3> QED
      BY <1>3, <2>2, <3>1
  <2>4. CASE n > 1
    <3>1. 1 + (n - 1) < MAX_ERROR_SIZE
      BY <1>2, <1>4
    <3>2. Due(1, q) = 0
      BY <1>7, <2>4, <3>1
    <3> QED
      BY <1>3, <1>4, <2>2, <2>4, <3>2
  <2> QED
    BY <1>4, <2>3, <2>4
<1>10. ASSUME ~(l > MAX_ERROR_SIZE - 2)
       PROVE  Due(l + 1, q) + c2 <= Due(l, s) + c
  <2>1. Due(l, s) \in {0, 1}
    BY DEF Due
  <2>2. CASE n = 1
    <3>1. Due(l + 1, q) \in {0, 1} /\ c = c2 + 1
      BY <1>2, <1>4, <1>6, <2>2
    <3> QED
      BY <1>3, <2>1, <3>1
  <2>3. CASE n > 1
    <3>1. CASE Due(l, s) = 1
      <4>1. Due(l + 1, q) \in {0, 1} /\ c = c2
        BY <1>2, <1>4, <1>6, <2>3
      <4> QED
        BY <1>3, <3>1, <4>1
    <3>2. CASE Due(l, s) = 0
      <4>1. l = 0 \/ l + n < MAX_ERROR_SIZE
        BY <1>5, <3>2
      <4>2. (l + 1) + (n - 1) < MAX_ERROR_SIZE
        BY <1>2, <1>4, <4>1
      <4>3. Due(l + 1, q) = 0
        BY <1>2, <1>7, <1>8, <2>3, <4>2
      <4> QED
        BY <1>3, <1>4, <2>3, <3>2, <4>3
    <3> QED
      BY <2>1, <3>1, <3>2
  <2> QED
    BY <1>4, <2>2, <2>3
<1> QED
  BY <1>1, <1>9, <1>10

LEMMA CompteBruit ==
  ASSUME TInv, TInv', Compte, ouvert, LireBruit, UNCHANGED <<simulateur, alteres>>
  PROVE  Compte'
<1>1. /\ versClient # <<>> /\ Head(versClient).sorte = "bruit" /\ phase = "attente"
      /\ versClient' = BruitLuDe(versClient)
      /\ UNCHANGED <<commande, packet, texte, journal, alteres>>
  BY DEF LireBruit, BruitLuDe, simulateur
<1>2. versSim \in Seq(Jetons) /\ versClient \in Seq(Jetons) /\ BruitsCourts(versClient)
      /\ len \in 0 .. MAX_ERROR_SIZE - 1 /\ len \in Nat
  BY EtatTypes DEF TInv, TClient, Compte
<1>3. /\ phase' = "attente"
      /\ \/ TamponPlein /\ versSim' = versSim \o Plainte /\ len' = 1
         \/ ~TamponPlein /\ versSim' = versSim /\ len' = len + 1
  BY <1>1, EcrireOuvert DEF LireBruit
<1>4. BruitsCourts(versClient') /\ Nb(versClient', Demandes) = Nb(versClient, Demandes)
  BY <1>1, <1>2, BruitReste
<1>5. /\ TamponPlein =>
           Due(1, versClient') + Nb(versClient', Charges) + 1 <= Due(len, versClient) + Nb(versClient, Charges)
      /\ ~TamponPlein =>
           Due(len + 1, versClient') + Nb(versClient', Charges) <= Due(len, versClient) + Nb(versClient, Charges)
  BY <1>1, <1>2, DueLu DEF TamponPlein
<1>6. Rendues' = Rendues /\ Fautes' = Fautes /\ Texte(texte') = Texte(texte) /\ packet' = packet
  BY <1>1, <1>3, RenduesGarde DEF Fautes
<1>7. Nombres /\ Nombres'
  BY Naturels, NaturelsSuite
<1>8. Reste(versSim, versSim', packet')
  <2>1. <<>> \in Seq(Jetons) /\ versSim \o <<>> = versSim /\ \A i \in DOMAIN <<>> : <<>>[i] \notin Bons
    BY <1>2
  <2>2. Reste(versSim, versSim \o <<>>, packet') /\ Reste(versSim, versSim \o Plainte, packet')
    BY <1>2, <2>1, PlainteType, PlainteSignes, SansBons, ResteAjoute
  <2> QED
    BY <1>3, <2>1, <2>2
<1>9. /\ Nb(versSim', Charges) = Nb(versSim, Charges)
      /\ Due(len', versClient') + Nb(versClient', Charges) + Nb(versSim', Demandes)
           <= Due(len, versClient) + Nb(versClient, Charges) + Nb(versSim, Demandes)
  <2>1. CASE TamponPlein
    <3>1. len # 0
      BY <1>2, <2>1, ProgrammeAssumption DEF TamponPlein
    <3>2. Nb(Plainte, Charges) = 0 /\ Nb(Plainte, Demandes) = 1
      BY <1>2, <3>1, NbPlainte
    <3>3. versSim' = versSim \o Plainte /\ len' = 1
      BY <1>3, <2>1
    <3>4. /\ Nb(versSim', Charges) = Nb(versSim, Charges) + Nb(Plainte, Charges)
          /\ Nb(versSim', Demandes) = Nb(versSim, Demandes) + Nb(Plainte, Demandes)
      BY <1>2, <3>3, PlainteType, NbSuite
    <3>5. Due(len', versClient') + Nb(versClient', Charges) + 1 <= Due(len, versClient) + Nb(versClient, Charges)
      BY <1>5, <2>1, <3>3
    <3> QED
      BY <1>7, <3>2, <3>4, <3>5 DEF Nombres
  <2>2. CASE ~TamponPlein
    <3>1. versSim' = versSim /\ len' = len + 1
      BY <1>3, <2>2
    <3>2. Due(len', versClient') + Nb(versClient', Charges) <= Due(len, versClient) + Nb(versClient, Charges)
      BY <1>5, <2>2, <3>1
    <3> QED
      BY <1>7, <3>1, <3>2 DEF Nombres
  <2> QED
    BY <2>1, <2>2
<1>10. Avoir' + Fautes <= Avoir + Fautes'
  BY <1>6, <1>7, <1>9 DEF Nombres, Avoir
<1>11. Avoir \in Nat /\ Avoir' \in Nat
  BY <1>7 DEF Nombres, Avoir
<1>12. Somme' + packet + Fautes <= Somme + packet' + Fautes'
  BY <1>4, <1>6, <1>7, <1>9, <1>10, <1>11, SommeGarde
<1>13. UNCHANGED journal /\ phase' # "envoi"
  BY <1>1, <1>3
<1> QED
  BY <1>4, <1>8, <1>10, <1>12, <1>13, Bilan

LEMMA CompteClient ==
  ASSUME TInv, TInv', Compte, Client
  PROVE  Compte'
<1>1. NextClient /\ UNCHANGED <<simulateur, alteres>>
  BY DEF Client
<1>2. UNCHANGED ouvert
  BY <1>1 DEF NextClient, Connecter, Envoyer, Lire, LireAccuse, LireDemande, LireReponse,
     LireBruit, LireFin, LireRompu, Recu
<1>3. SUFFICES ASSUME ouvert
               PROVE  Compte'
  BY <1>2 DEF Compte
<1>4. ~LireFin /\ ~LireRompu
  BY <1>3 DEF LireFin, LireRompu, Perdu
<1> QED
  BY <1>1, <1>3, <1>4, CompteConnexion, CompteEnvoi, CompteAccuse, CompteDemande, CompteReponse,
     CompteBruit DEF NextClient, Lire

-----------------------------------------------------------------------------
(***************************************************************************)
(* What the simulator sends comes behind what is on its way.               *)
(***************************************************************************)
LEMMA DueSuite ==
  ASSUME NEW s \in Seq(Jetons), NEW t \in Seq(Jetons), NEW l
  PROVE  Due(l, s \o t) <= Due(l, s)
<1>1. s # <<>> => s \o t # <<>> /\ Head(s \o t) = Head(s)
  OBVIOUS
<1>2. Due(l, s) = 0 => Due(l, s \o t) = 0
  BY <1>1 DEF Due
<1>3. Due(l, s) \in {0, 1} /\ Due(l, s \o t) \in {0, 1}
  BY DEF Due
<1> QED
  BY <1>2, <1>3

LEMMA CourtsSuite ==
  ASSUME NEW s \in Seq(Jetons), NEW t \in Seq(Jetons), BruitsCourts(s), ~Porte(t, {"bruit"})
  PROVE  BruitsCourts(s \o t)
<1> SUFFICES ASSUME NEW i \in DOMAIN (s \o t), (s \o t)[i].sorte = "bruit"
             PROVE  (s \o t)[i].n \in 1 .. MAX_ERROR_SIZE - 1
  BY DEF BruitsCourts
<1>1. \A j \in DOMAIN t : t[j].sorte # "bruit"
  BY DEF Porte
<1>2. i \in DOMAIN s /\ (s \o t)[i] = s[i]
  BY <1>1, Accole
<1> QED
  BY <1>2 DEF BruitsCourts

(***************************************************************************)
(* What it answers to one token.                                           *)
(***************************************************************************)
LEMMA SimEcrit ==
  ASSUME TInv, Compte, ouvert, NEW t \in Seq(Jetons), ~Porte(t, {"bruit"}),
         versClient' = versClient \o SimPlainte \o t, UNCHANGED len
  PROVE  /\ BruitsCourts(versClient') /\ Due(len', versClient') <= Due(len, versClient)
         /\ Nb(versClient', Charges) = Nb(versClient, Charges) + Nb(t, Charges)
         /\ Nb(versClient', Demandes) = Nb(versClient, Demandes) + Texte(texte) + Nb(t, Demandes)
<1>1. versClient \in Seq(Jetons) /\ BruitsCourts(versClient)
  BY DEF TInv, TLien, Compte
<1>2. SimPlainte \in Seq(Jetons) /\ ~Porte(SimPlainte, {"bruit"})
      /\ Nb(SimPlainte, Charges) = 0 /\ Nb(SimPlainte, Demandes) = Texte(texte)
  <2>1. SimPlainte \in Seq(Jetons)
    BY SigneJeton, FileUn, FileVide DEF SimPlainte
  <2>2. ~Porte(SimPlainte, {"bruit"})
    BY PorteUn, Sortes DEF SimPlainte
  <2>3. Nb(SimPlainte, Charges) = 0 /\ Nb(SimPlainte, Demandes) = Texte(texte)
    BY NbSignes DEF SimPlainte, Texte
  <2> QED
    BY <2>1, <2>2, <2>3
<1>3. PICK u : u = SimPlainte \o t
  OBVIOUS
<1>4. u \in Seq(Jetons) /\ ~Porte(u, {"bruit"}) /\ versClient' = versClient \o u
  <2>1. u \in Seq(Jetons) /\ ~Porte(u, {"bruit"})
    BY <1>2, <1>3, FileSuite, PorteSuite
  <2>2. (versClient \o SimPlainte) \o t = versClient \o (SimPlainte \o t)
    BY <1>1, <1>2
  <2> QED
    BY <1>3, <2>1, <2>2
<1>5. BruitsCourts(versClient') /\ Due(len', versClient') <= Due(len, versClient)
  BY <1>1, <1>4, DueSuite, CourtsSuite
<1>6. /\ Nb(versClient', Charges) = Nb(versClient, Charges) + Nb(u, Charges)
      /\ Nb(versClient', Demandes) = Nb(versClient, Demandes) + Nb(u, Demandes)
  BY <1>1, <1>4, NbSuite
<1>7. /\ Nb(u, Charges) = Nb(SimPlainte, Charges) + Nb(t, Charges)
      /\ Nb(u, Demandes) = Nb(SimPlainte, Demandes) + Nb(t, Demandes)
  BY <1>2, <1>3, NbSuite
<1>8. /\ Nb(t, Charges) \in Nat /\ Nb(t, Demandes) \in Nat
      /\ Nb(versClient, Charges) \in Nat /\ Nb(versClient, Demandes) \in Nat /\ Texte(texte) \in Nat
  BY <1>1, PlacesFinies DEF Texte
<1>9. Nb(versClient', Charges) = Nb(versClient, Charges) + Nb(t, Charges)
  <2>1. Nb(u, Charges) = Nb(t, Charges)
    BY <1>2, <1>7, <1>8
  <2> QED
    BY <1>6, <2>1
<1>10. Nb(versClient', Demandes) = Nb(versClient, Demandes) + Texte(texte) + Nb(t, Demandes)
  <2>1. Nb(u, Demandes) = Texte(texte) + Nb(t, Demandes)
    BY <1>2, <1>7
  <2>2. \A a, b, c \in Nat : a + (b + c) = a + b + c
    OBVIOUS
  <2>3. Nb(versClient', Demandes) = Nb(versClient, Demandes) + (Texte(texte) + Nb(t, Demandes))
    BY <1>6, <2>1, Zenon
  <2>4. /\ Nb(t, Demandes) \in Nat /\ Nb(versClient, Demandes) \in Nat /\ Texte(texte) \in Nat
    BY <1>8
  <2>5. Nb(versClient, Demandes) + (Texte(texte) + Nb(t, Demandes))
          = Nb(versClient, Demandes) + Texte(texte) + Nb(t, Demandes)
    BY <2>2, <2>4, Zenon
  <2> QED
    BY <2>3, <2>5, Zenon
<1> QED
  BY <1>5, <1>9, <1>10

LEMMA CompteSim ==
  ASSUME TInv, TInv', Compte, ouvert, versSim # <<>>, versSim' = Tail(versSim), texte' = FALSE,
         UNCHANGED <<phase, commande, packet, len, ouvert, alteres, journal>>,
         NEW t, t \in Seq(Jetons), ~Porte(t, {"bruit"}), versClient' = versClient \o SimPlainte \o t,
         Nb(versSim', Demandes) + Nb(t, Charges) <= Nb(versSim, Demandes),
         Nb(versSim', Demandes) + Nb(versSim', Charges) + Nb(t, Charges) + Nb(t, Demandes)
           <= Nb(versSim, Demandes) + Nb(versSim, Charges)
  PROVE  Compte'
<1>1. /\ BruitsCourts(versClient') /\ Due(len', versClient') <= Due(len, versClient)
      /\ Nb(versClient', Charges) = Nb(versClient, Charges) + Nb(t, Charges)
      /\ Nb(versClient', Demandes) = Nb(versClient, Demandes) + Texte(texte) + Nb(t, Demandes)
  BY SimEcrit
<1>2. Nombres /\ Nombres'
  BY Naturels, NaturelsSuite
<1>3. Rendues' = Rendues /\ Fautes' = Fautes /\ packet' = packet /\ Texte(texte') = 0
  BY DEF Rendues, Fautes, Texte
<1>4. PICK r, f, p, x, c, d, s, e, s2, e2, u, u2, a, b :
        /\ r = Rendues /\ f = Fautes /\ p = packet /\ x = Texte(texte)
        /\ c = Nb(versClient, Charges) /\ d = Nb(versClient, Demandes)
        /\ s = Nb(versSim, Charges) /\ e = Nb(versSim, Demandes)
        /\ s2 = Nb(versSim', Charges) /\ e2 = Nb(versSim', Demandes)
        /\ u = Due(len, versClient) /\ u2 = Due(len', versClient')
        /\ a = Nb(t, Charges) /\ b = Nb(t, Demandes)
  OBVIOUS
<1>5. /\ r \in Nat /\ f \in Nat /\ p \in Nat /\ x \in Nat /\ c \in Nat /\ d \in Nat
      /\ s \in Nat /\ e \in Nat /\ s2 \in Nat /\ e2 \in Nat /\ u \in Nat /\ u2 \in Nat
      /\ a \in Nat /\ b \in Nat
  <2>1. a \in Nat /\ b \in Nat
    BY <1>4, PlacesFinies
  <2> QED
    BY <1>2, <1>4, <2>1 DEF Nombres
<1>6. u2 <= u /\ e2 + a <= e /\ e2 + s2 + a + b <= e + s
  BY <1>1, <1>4
<1>7. /\ Avoir = r + c + u + e /\ Avoir' = r + (c + a) + u2 + e2
      /\ Somme = (r + c + u + e) + s + d + x
      /\ Somme' = (r + (c + a) + u2 + e2) + s2 + (d + x + b) + 0
  BY <1>1, <1>3, <1>4, Zenon DEF Avoir, Somme
<1>8. r + (c + a) + u2 + e2 + f <= r + c + u + e + f
  BY <1>5, <1>6
<1>9. (r + (c + a) + u2 + e2) + s2 + (d + x + b) + 0 + p + f <= (r + c + u + e) + s + d + x + p + f
  BY <1>5, <1>6
<1>10. Avoir' + Fautes <= Avoir + Fautes' /\ Somme' + packet + Fautes <= Somme + packet' + Fautes'
  BY <1>3, <1>4, <1>7, <1>8, <1>9, Zenon
<1>11. Reste(versSim, versSim', packet')
  <2>1. versSim \in Seq(Jetons)
    BY DEF TInv, TLien
  <2> QED
    BY <2>1, ResteQueue
<1>12. phase' = "envoi" => packet' = commande' - 1
  BY DEF Compte
<1> QED
  BY <1>1, <1>10, <1>11, <1>12, Bilan

LEMMA CompteSimSignes ==
  ASSUME TInv, TInv', Compte, ouvert, SimRefuse \/ SimAccuse \/ SimDemande
  PROVE  Compte'
<1>1. /\ versSim # <<>> /\ versSim' = Tail(versSim) /\ texte' = FALSE
      /\ UNCHANGED <<phase, commande, packet, len, ouvert, alteres, journal>>
  BY SimLu DEF SimRefuse, SimAccuse, SimDemande
<1>2. /\ Nb(versSim, Charges) \in Nat /\ Nb(versSim, Demandes) \in Nat
      /\ Nb(versSim', Charges) \in Nat /\ Nb(versSim', Demandes) \in Nat
  BY Naturels, NaturelsSuite DEF Nombres
<1>3. versSim \in Seq(Jetons) /\ versClient \in Seq(Jetons) /\ SimPlainte \in Seq(Jetons)
  BY SigneJeton, FileUn, FileVide DEF TInv, TLien, SimPlainte
<1>4. ASSUME NEW t, t \in Seq(Jetons), ~Porte(t, {"bruit"}),
             versClient' = versClient \o SimPlainte \o t,
             Nb(versSim', Demandes) + Nb(t, Charges) <= Nb(versSim, Demandes),
             Nb(versSim', Demandes) + Nb(versSim', Charges) + Nb(t, Charges) + Nb(t, Demandes)
               <= Nb(versSim, Demandes) + Nb(versSim, Charges)
      PROVE  Compte'
  BY <1>1, <1>4, CompteSim
<1>5. <<>> \in Seq(Jetons) /\ ~Porte(<<>>, {"bruit"}) /\ Nb(<<>>, Charges) = 0 /\ Nb(<<>>, Demandes) = 0
  BY FileVide, PorteUn, NbSignes
<1>6. CASE SimRefuse
  <2>1. /\ Nb(versSim, Charges) = Nb(versSim', Charges) + 1
        /\ Nb(versSim, Demandes) = Nb(versSim', Demandes)
    BY <1>1, <1>3, <1>6, SimLu, NbTete DEF SimRefuse
  <2>2. /\ <<Signe("-")>> \in Seq(Jetons) /\ ~Porte(<<Signe("-")>>, {"bruit"})
        /\ Nb(<<Signe("-")>>, Charges) = 0 /\ Nb(<<Signe("-")>>, Demandes) = 1
    BY SigneJeton, FileUn, PorteUn, Sortes, NbSignes
  <2>3. /\ Nb(versSim', Demandes) + 0 <= Nb(versSim, Demandes)
        /\ Nb(versSim', Demandes) + Nb(versSim', Charges) + 0 + 1
             <= Nb(versSim, Demandes) + Nb(versSim, Charges)
    BY <1>2, <2>1
  <2>4. versClient' = versClient \o SimPlainte \o <<Signe("-")>>
    BY <1>6 DEF SimRefuse
  <2> QED
    BY <1>4, <2>2, <2>3, <2>4, Zenon
<1>7. CASE SimAccuse
  <2>1. /\ Nb(versSim, Charges) = Nb(versSim', Charges)
        /\ Nb(versSim, Demandes) = Nb(versSim', Demandes)
    BY <1>1, <1>3, <1>7, SimLu, NbTete DEF SimAccuse
  <2>2. /\ Nb(versSim', Demandes) + 0 <= Nb(versSim, Demandes)
        /\ Nb(versSim', Demandes) + Nb(versSim', Charges) + 0 + 0
             <= Nb(versSim, Demandes) + Nb(versSim, Charges)
    BY <1>2, <2>1
  <2>3. versClient' = versClient \o SimPlainte \o <<>>
    <3>1. (versClient \o SimPlainte) \o <<>> = versClient \o SimPlainte
      BY <1>3
    <3> QED
      BY <1>7, <3>1 DEF SimAccuse
  <2> QED
    BY <1>4, <1>5, <2>2, <2>3, Zenon
<1>8. CASE SimDemande
  <2>1. /\ Nb(versSim, Charges) = Nb(versSim', Charges)
        /\ Nb(versSim, Demandes) = Nb(versSim', Demandes) + 1
    BY <1>1, <1>3, <1>8, SimLu, NbTete DEF SimDemande
  <2>2. CASE reponse = 0
    <3>1. /\ Nb(versSim', Demandes) + 0 <= Nb(versSim, Demandes)
          /\ Nb(versSim', Demandes) + Nb(versSim', Charges) + 0 + 0
               <= Nb(versSim, Demandes) + Nb(versSim, Charges)
      BY <1>2, <2>1
    <3>2. versClient' = versClient \o SimPlainte \o <<>>
      BY <1>8, <2>2 DEF SimDemande
    <3> QED
      BY <1>4, <1>5, <3>1, <3>2, Zenon
  <2>3. CASE reponse # 0
    <3>1. reponse \in 1 .. Len(Programme)
      BY <2>3, ProgrammeAssumption DEF TInv, TSim
    <3>2. /\ <<Paquet(reponse)>> \in Seq(Jetons) /\ ~Porte(<<Paquet(reponse)>>, {"bruit"})
          /\ Nb(<<Paquet(reponse)>>, Charges) = 1 /\ Nb(<<Paquet(reponse)>>, Demandes) = 0
      <4>1. <<Paquet(reponse)>> \in Seq(Jetons)
        BY <3>1, PaquetJeton, FileUn
      <4>2. ~Porte(<<Paquet(reponse)>>, {"bruit"})
        BY PorteUn, Sortes
      <4> QED
        BY <3>1, <4>1, <4>2, NbSignes
    <3>3. /\ Nb(versSim', Demandes) + 1 <= Nb(versSim, Demandes)
          /\ Nb(versSim', Demandes) + Nb(versSim', Charges) + 1 + 0
               <= Nb(versSim, Demandes) + Nb(versSim, Charges)
      BY <1>2, <2>1
    <3>4. versClient' = versClient \o SimPlainte \o <<Paquet(reponse)>>
      BY <1>8, <2>3 DEF SimDemande
    <3> QED
      BY <1>4, <3>2, <3>3, <3>4, Zenon
  <2> QED
    BY <2>2, <2>3
<1> QED
  BY <1>6, <1>7, <1>8

LEMMA CompteSimBruit ==
  ASSUME TInv, TInv', Compte, ouvert, SimBruit
  PROVE  Compte'
<1>1. /\ versSim # <<>> /\ versSim' = Tail(versSim) /\ texte' = TRUE /\ Head(versSim).sorte = "bruit"
      /\ UNCHANGED <<phase, commande, packet, len, ouvert, alteres, journal, versClient>>
  BY SimLu DEF SimBruit
<1>2. versSim \in Seq(Jetons)
  BY DEF TInv, TLien
<1>3. /\ Nb(versSim, Charges) = Nb(versSim', Charges) + 1
      /\ Nb(versSim, Demandes) = Nb(versSim', Demandes)
  BY <1>1, <1>2, NbTete
<1>4. Nombres /\ Nombres'
  BY Naturels, NaturelsSuite
<1>5. Texte(texte') = 1 /\ Texte(texte) \in {0, 1}
  BY <1>1 DEF Texte
<1>6. Avoir' = Avoir /\ Fautes' = Fautes /\ packet' = packet
  BY <1>1, <1>3 DEF Avoir, Rendues, Fautes, Due
<1>7. Avoir \in Nat
  BY <1>4 DEF Nombres, Avoir
<1>8. Somme' <= Somme
  <2>1. PICK v, s, d, x, s2 : /\ v = Avoir /\ s = Nb(versSim, Charges) /\ x = Texte(texte)
                              /\ d = Nb(versClient, Demandes) /\ s2 = Nb(versSim', Charges)
    OBVIOUS
  <2>2. v \in Nat /\ s \in Nat /\ d \in Nat /\ s2 \in Nat /\ s = s2 + 1 /\ x \in {0, 1}
    BY <1>3, <1>4, <1>5, <1>7, <2>1 DEF Nombres
  <2>3. v + s2 + d + 1 <= v + s + d + x
    BY <2>2
  <2>4. Somme' = v + s2 + d + 1 /\ Somme = v + s + d + x
    BY <1>1, <1>5, <1>6, <2>1, Zenon DEF Somme
  <2> QED
    BY <2>3, <2>4, Zenon
<1>9. Avoir' + Fautes <= Avoir + Fautes' /\ Somme' + packet + Fautes <= Somme + packet' + Fautes'
  <2>1. Somme \in Nat /\ Somme' \in Nat /\ Fautes \in Nat /\ packet \in Nat
    BY <1>4, <1>6, <1>7 DEF Somme, Nombres
  <2>2. \A a, b, f, p \in Nat : a <= b => a + p + f <= b + p + f
    OBVIOUS
  <2>3. \A a, f \in Nat : a + f <= a + f
    OBVIOUS
  <2> QED
    BY <1>6, <1>7, <1>8, <2>1, <2>2, <2>3, Zenon
<1>10. Reste(versSim, versSim', packet')
  BY <1>1, <1>2, ResteQueue
<1>11. BruitsCourts(versClient') /\ (phase' = "envoi" => packet' = commande' - 1)
  BY <1>1 DEF Compte
<1>12. UNCHANGED journal
  BY <1>1
<1> QED
  BY <1>9, <1>10, <1>11, <1>12, Bilan

(***************************************************************************)
(* A good command is carried out: what was paid by the commands up to it   *)
(* is paid by it from now on.                                              *)
(***************************************************************************)
LEMMA SimReponse ==
  ASSUME TInv, ouvert, SimCommande
  PROVE  \E t : /\ t \in Seq(Jetons) /\ ~Porte(t, {"bruit"})
                /\ versClient' = versClient \o SimPlainte \o t
                /\ Nb(t, Charges) \in {0, 1} /\ Nb(t, Demandes) = 0
<1> DEFINE n == Head(versSim).n
<1>1. versSim # <<>> /\ Head(versSim).sorte = "paquet"
  BY SimLu DEF SimCommande
<1>2. versSim \in Seq(Jetons) /\ versClient \in Seq(Jetons) /\ SimPlainte \in Seq(Jetons)
  BY SigneJeton, FileUn, FileVide DEF TInv, TLien, SimPlainte
<1>3. n \in 1 .. Len(Programme)
  BY <1>1, <1>2, FileQueue, PaquetLu
<1>4. PICK x : /\ x = <<>> \/ x = <<Paquet(n)>>
               /\ versClient' = versClient \o SimPlainte \o <<Signe("+")>> \o x
  BY DEF SimCommande
<1> HIDE DEF n
<1>5. x \in Seq(Jetons) /\ ~Porte(x, {"bruit"}) /\ Nb(x, Charges) \in {0, 1} /\ Nb(x, Demandes) = 0
  <2>1. CASE x = <<>>
    BY <2>1, FileVide, PorteUn, NbSignes
  <2>2. CASE x = <<Paquet(n)>>
    <3>1. x \in Seq(Jetons)
      BY <1>3, <2>2, PaquetJeton, FileUn
    <3>2. ~Porte(x, {"bruit"})
      BY <2>2, PorteUn, Sortes
    <3> QED
      BY <1>3, <2>2, <3>1, <3>2, NbSignes
  <2> QED
    BY <1>4, <2>1, <2>2
<1>6. /\ <<Signe("+")>> \in Seq(Jetons) /\ ~Porte(<<Signe("+")>>, {"bruit"})
      /\ Nb(<<Signe("+")>>, Charges) = 0 /\ Nb(<<Signe("+")>>, Demandes) = 0
  BY SigneJeton, FileUn, PorteUn, Sortes, NbSignes
<1>7. PICK t : t = <<Signe("+")>> \o x
  OBVIOUS
<1>8. t \in Seq(Jetons) /\ ~Porte(t, {"bruit"})
  <2>1. t \in Seq(Jetons)
    BY <1>5, <1>6, <1>7, FileSuite
  <2>2. Porte(t, {"bruit"}) <=> Porte(<<Signe("+")>>, {"bruit"}) \/ Porte(x, {"bruit"})
    <3>1. x \in Seq(Jetons) /\ <<Signe("+")>> \in Seq(Jetons)
      BY <1>5, <1>6
    <3>2. Porte(<<Signe("+")>> \o x, {"bruit"}) <=> Porte(<<Signe("+")>>, {"bruit"}) \/ Porte(x, {"bruit"})
      BY <3>1, PorteSuite
    <3> QED
      BY <1>7, <3>2
  <2> QED
    BY <1>5, <1>6, <2>1, <2>2, Zenon
<1>9. /\ Nb(t, Charges) = Nb(<<Signe("+")>>, Charges) + Nb(x, Charges)
      /\ Nb(t, Demandes) = Nb(<<Signe("+")>>, Demandes) + Nb(x, Demandes)
  <2>1. x \in Seq(Jetons) /\ <<Signe("+")>> \in Seq(Jetons)
    BY <1>5, <1>6
  <2>2. \A T : Nb(<<Signe("+")>> \o x, T) = Nb(<<Signe("+")>>, T) + Nb(x, T)
    BY <2>1, NbSuite
  <2> QED
    BY <1>7, <2>2, Zenon
<1>10. Nb(t, Charges) \in {0, 1} /\ Nb(t, Demandes) = 0
  BY <1>5, <1>6, <1>9
<1>11. versClient \o SimPlainte \o <<Signe("+")>> \o x = (versClient \o SimPlainte) \o (<<Signe("+")>> \o x)
  <2>1. versClient \o SimPlainte \in Seq(Jetons)
    BY <1>2, FileSuite
  <2> QED
    BY <1>5, <1>6, <2>1
<1> QED
  BY <1>4, <1>7, <1>8, <1>10, <1>11

(***************************************************************************)
(* The sums: what is due grows by one at most, the one the command pays.   *)
(***************************************************************************)
LEMMA SommeCommande ==
  ASSUME NEW v \in Nat, NEW v2 \in Nat, NEW m \in Nat, NEW f \in Nat, NEW k \in Nat,
         v2 <= v + 1, v + (1 + k) <= m + f
  PROVE  v2 + k <= m + f
OBVIOUS

LEMMA CompteSimCommande ==
  ASSUME TInv, TInv', Compte, ouvert, SimCommande
  PROVE  Compte'
<1>1. /\ versSim # <<>> /\ versSim' = Tail(versSim) /\ texte' = FALSE
      /\ Head(versSim).sorte = "paquet" /\ Head(versSim).juste
      /\ journal' = Append(journal, Head(versSim).n)
      /\ UNCHANGED <<phase, commande, packet, len, ouvert, alteres>>
  BY SimLu DEF SimCommande
<1>2. versSim \in Seq(Jetons) /\ Head(versSim) \in Jetons /\ versSim' \in Seq(Jetons)
  BY <1>1, FileQueue DEF TInv, TLien
<1>3. PICK m : m = Head(versSim).n
  OBVIOUS
<1>4. Head(versSim) \in Bons /\ m \in Nat
  <2>1. m \in 1 .. Len(Programme)
    BY <1>1, <1>2, <1>3, PaquetLu
  <2>2. m \in Nat
    BY <2>1, ProgrammeAssumption
  <2> QED
    BY <1>1, <1>2, <2>2, Dedans
<1>5. Execute' = m
  <2>1. journal \in Seq(1 .. Len(Programme)) /\ m \in 1 .. Len(Programme)
    BY <1>1, <1>2, <1>3, PaquetLu DEF TInv, TSim
  <2>2. journal' = Append(journal, m)
    BY <1>1, <1>3
  <2>3. journal' # <<>> /\ journal'[Len(journal')] = m
    BY <2>1, <2>2
  <2> QED
    BY <2>3 DEF Execute
<1>6. PICK t : /\ t \in Seq(Jetons) /\ ~Porte(t, {"bruit"})
               /\ versClient' = versClient \o SimPlainte \o t
               /\ Nb(t, Charges) \in {0, 1} /\ Nb(t, Demandes) = 0
  BY SimReponse
<1>7. /\ BruitsCourts(versClient') /\ Due(len', versClient') <= Due(len, versClient)
      /\ Nb(versClient', Charges) = Nb(versClient, Charges) + Nb(t, Charges)
      /\ Nb(versClient', Demandes) = Nb(versClient, Demandes) + Texte(texte) + Nb(t, Demandes)
  BY <1>1, <1>6, SimEcrit
<1>8. Nombres /\ Nombres'
  BY Naturels, NaturelsSuite
<1>9. /\ Nb(versSim, Charges) = Nb(versSim', Charges) + 1
      /\ Nb(versSim, Demandes) = Nb(versSim', Demandes)
  BY <1>1, <1>2, NbTete
<1>10. UNCHANGED <<Rendues, Fautes, packet>>
  BY <1>1 DEF Rendues, Fautes
<1>11. PICK v, v2, f, u, u2, p :
         /\ v = Rendues + Retour(len, versSim, versClient) /\ f = Fautes /\ p = packet
         /\ v2 = Rendues' + Retour(len', versSim', versClient')
         /\ u = Route(texte, versSim, versClient) /\ u2 = Route(texte', versSim', versClient')
  OBVIOUS
<1>12. PICK r, x, c, d, c2, d2, s, s2, e, o, o2, a :
         /\ r = Rendues /\ x = Texte(texte)
         /\ c = Nb(versClient, Charges) /\ d = Nb(versClient, Demandes)
         /\ c2 = Nb(versClient', Charges) /\ d2 = Nb(versClient', Demandes)
         /\ s = Nb(versSim, Charges) /\ s2 = Nb(versSim', Charges) /\ e = Nb(versSim, Demandes)
         /\ o = Due(len, versClient) /\ o2 = Due(len', versClient') /\ a = Nb(t, Charges)
  OBVIOUS
<1>13. /\ r \in Nat /\ x \in Nat /\ c \in Nat /\ d \in Nat /\ c2 \in Nat /\ d2 \in Nat
       /\ s \in Nat /\ s2 \in Nat /\ e \in Nat /\ o \in Nat /\ o2 \in Nat /\ a \in {0, 1}
       /\ f \in Nat /\ p \in Nat
  BY <1>6, <1>8, <1>11, <1>12 DEF Nombres
<1>14. o2 <= o /\ c2 = c + a /\ d2 = d + x + 0 /\ s = s2 + 1
  BY <1>6, <1>7, <1>9, <1>12
<1>15. v = r + (c + o + e) /\ v2 = r + (c2 + o2 + e)
  BY <1>9, <1>10, <1>11, <1>12, Zenon DEF Retour
<1>16. u = s + d + x /\ u2 = s2 + d2 + 0
  <2>1. Texte(texte') = 0
    BY <1>1 DEF Texte
  <2> QED
    BY <1>11, <1>12, <2>1 DEF Route, Texte
<1>17. v \in Nat /\ v2 \in Nat /\ u \in Nat /\ u2 \in Nat
  BY <1>13, <1>15, <1>16
<1>18. v2 <= v + 1
  BY <1>13, <1>14, <1>15
<1>19. v2 + u2 <= v + u
  BY <1>13, <1>14, <1>15, <1>16
<1>20. Paye(v, f)
  BY <1>11 DEF Compte
<1>21. ASSUME NEW i \in DOMAIN versSim, versSim[i] \in Bons
       PROVE  v + Nb(SubSeq(versSim, 1, i), Bons) <= versSim[i].n + f
  BY <1>20, <1>21 DEF Paye
<1>22. v2 <= Execute' + f
  <2>1. 1 \in DOMAIN versSim /\ versSim[1] = Head(versSim)
    BY <1>1, <1>2, Queue
  <2>2. v + Nb(SubSeq(versSim, 1, 1), Bons) <= m + f
    BY <1>3, <1>4, <1>21, <2>1
  <2>3. Nb(SubSeq(versSim, 1, 1), Bons) = 1
    <3>1. DOMAIN SubSeq(versSim, 1, 1) = {1} /\ SubSeq(versSim, 1, 1)[1] = versSim[1]
      <4>1. 1 .. 1 = {1}
        OBVIOUS
      <4> QED
        BY <1>2, <2>1, <4>1, DebutType
    <3>2. Places(SubSeq(versSim, 1, 1), Bons) = {1}
      BY <1>4, <2>1, <3>1, Zenon DEF Places
    <3> QED
      BY <3>2, FS_Singleton DEF Nb
  <2>4. v + 1 <= m + f
    BY <2>2, <2>3
  <2> QED
    BY <1>4, <1>5, <1>13, <1>17, <1>18, <2>4
<1>23. ASSUME NEW i \in DOMAIN versSim', versSim'[i] \in Bons
       PROVE  v2 + Nb(SubSeq(versSim', 1, i), Bons) <= versSim'[i].n + f
  <2>1. /\ i + 1 \in DOMAIN versSim /\ versSim'[i] = versSim[i + 1]
        /\ Nb(SubSeq(versSim, 1, i + 1), Bons)
             = Nb(SubSeq(versSim', 1, i), Bons) + (IF Head(versSim) \in Bons THEN 1 ELSE 0)
    BY <1>1, <1>2, DebutQueue
  <2>2. PICK k, k2, j : /\ k = Nb(SubSeq(versSim', 1, i), Bons) /\ j = versSim'[i].n
                        /\ k2 = Nb(SubSeq(versSim, 1, i + 1), Bons)
    OBVIOUS
  <2>3. k \in Nat
    BY <1>2, <2>2, DebutType, PlacesFinies
  <2>4. j \in Nat
    <3>1. versSim'[i] \in Jetons /\ versSim'[i].sorte = "paquet"
      BY <1>23 DEF Bons
    <3>2. versSim'[i].n \in 1 .. Len(Programme)
      BY <3>1, PaquetLu
    <3>3. \A n \in 1 .. Len(Programme) : n \in Nat
      BY ProgrammeAssumption
    <3> QED
      BY <2>2, <3>2, <3>3, Zenon
  <2>5. k2 = k + 1
    BY <1>4, <2>1, <2>2
  <2>6. v + k2 <= j + f
    BY <1>21, <1>23, <2>1, <2>2
  <2>7. v + (1 + k) <= j + f
    BY <2>3, <2>5, <2>6
  <2>8. v2 + k <= j + f
    BY <1>13, <1>17, <1>18, <2>3, <2>4, <2>7, SommeCommande
  <2> QED
    BY <2>2, <2>8
<1>24. v2 + u2 <= p + f
  <2>1. v + u <= p + f
    BY <1>11, <1>20 DEF Paye
  <2> QED
    BY <1>13, <1>17, <1>19, <2>1
<1>25. Paye(v2, f)'
  BY <1>10, <1>11, <1>22, <1>23, <1>24 DEF Paye
<1>26. phase' = "envoi" => packet' = commande' - 1
  BY <1>1 DEF Compte
<1> QED
  BY <1>7, <1>10, <1>11, <1>25, <1>26 DEF Compte, Paye

LEMMA CompteSimulateur ==
  ASSUME TInv, TInv', Compte, Simulateur \/ SimEcoute \/ SimPanne
  PROVE  Compte'
<1>1. ouvert
  BY DEF Simulateur, SimCommande, SimRefuse, SimAccuse, SimDemande, SimBruit, SimLit, SimFin,
         SimEcoute, SimPanne
<1>2. CASE SimFin \/ SimPanne
  BY <1>2 DEF SimFin, SimPanne, Compte
<1>3. CASE SimEcoute
  <2>1. UNCHANGED <<client, ouvert, lien, simulateur, alteres>>
    BY <1>3 DEF SimEcoute
  <2> QED
    BY <2>1 DEF client, lien, simulateur, Compte, Paye, Retour, Route, Due, BruitsCourts,
       Rendues, Fautes, Execute
<1> QED
  BY <1>1, <1>2, <1>3, CompteSimCommande, CompteSimSignes, CompteSimBruit DEF Simulateur

-----------------------------------------------------------------------------
(***************************************************************************)
(* Damage makes no good command, and nothing out of nothing: a command or  *)
(* an answer stays one, noise or not; a "+" or "-" becomes noise, at the   *)
(* price of one.                                                           *)
(***************************************************************************)
LEMMA NbDegat ==
  ASSUME NEW s \in Seq(Jetons), NEW t, NEW i, NEW d, NEW j, Degat(s, t, i, d, j)
  PROVE  /\ t \in Seq(Jetons) /\ i \in DOMAIN s /\ j \in Jetons /\ d \in Degats
         /\ t = [s EXCEPT ![i] = j]
         /\ Nb(t, Charges) + (IF s[i] \in Charges THEN 1 ELSE 0)
              = Nb(s, Charges) + (IF j \in Charges THEN 1 ELSE 0)
         /\ Nb(t, Demandes) + (IF s[i] \in Demandes THEN 1 ELSE 0)
              = Nb(s, Demandes) + (IF j \in Demandes THEN 1 ELSE 0)
<1>1. i \in DOMAIN s /\ j \in Jetons /\ d \in Degats /\ t = [s EXCEPT ![i] = j]
  BY DEF Degat
<1>2. t \in Seq(Jetons)
  BY <1>1, FileChange
<1>3. ASSUME NEW T
      PROVE  Nb([s EXCEPT ![i] = j], T) + (IF s[i] \in T THEN 1 ELSE 0)
               = Nb(s, T) + (IF j \in T THEN 1 ELSE 0)
  <2>1. i \in DOMAIN s /\ j \in Jetons
    BY <1>1
  <2> QED
    BY <2>1, NbChange
<1> QED
  BY <1>1, <1>2, <1>3, Zenon

LEMMA CourtsChange ==
  ASSUME NEW s \in Seq(Jetons), NEW i \in DOMAIN s, NEW j, BruitsCourts(s),
         j.sorte = "bruit" => j.n \in 1 .. MAX_ERROR_SIZE - 1
  PROVE  BruitsCourts([s EXCEPT ![i] = j])
<1> DEFINE t == [s EXCEPT ![i] = j]
<1>1. DOMAIN t = DOMAIN s /\ \A k \in DOMAIN s : t[k] = IF k = i THEN j ELSE s[k]
  OBVIOUS
<1> HIDE DEF t
<1>2. BruitsCourts(t)
  BY <1>1, Zenon DEF BruitsCourts
<1> QED
  BY <1>2 DEF t

LEMMA DueChange ==
  ASSUME NEW s \in Seq(Jetons), NEW i \in DOMAIN s, NEW j, s[i].sorte # "bruit", NEW l
  PROVE  Due(l, [s EXCEPT ![i] = j]) <= Due(l, s)
<1> DEFINE t == [s EXCEPT ![i] = j]
<1>1. /\ s # <<>> /\ t # <<>> /\ Head(s) = s[1] /\ Head(t) = t[1]
      /\ 1 \in DOMAIN s /\ (i # 1 => t[1] = s[1])
  OBVIOUS
<1> HIDE DEF t
<1>2. Due(l, s) = 0 => Due(l, t) = 0
  BY <1>1 DEF Due
<1>3. Due(l, s) \in {0, 1} /\ Due(l, t) \in {0, 1}
  BY DEF Due
<1>4. Due(l, t) <= Due(l, s)
  BY <1>2, <1>3
<1> QED
  BY <1>4 DEF t

(***************************************************************************)
(* The counters: damage to a "+" or "-" is a fault, the rest is none.      *)
(***************************************************************************)
LEMMA FautesDegat ==
  ASSUME TInv, NEW s, NEW t, NEW i, NEW d, NEW j, Degat(s, t, i, d, j)
  PROVE  /\ d \in {"signeSim", "signeClient"} => Fautes' = Fautes + 1
         /\ d \notin {"signeSim", "signeClient"} => Fautes' = Fautes
<1>1. /\ alteres \in [Degats -> Nat] /\ d \in Degats
      /\ alteres' = [alteres EXCEPT ![d] = @ + 1]
  BY LigneAssumption DEF Degat, TInv, TAlteres
<1>2. /\ "signeSim" \in Degats /\ "signeClient" \in Degats
  BY DEF Degats
<1>3. PICK a, b : a = alteres["signeSim"] /\ b = alteres["signeClient"]
  OBVIOUS
<1>4. a \in Nat /\ b \in Nat
  BY <1>1, <1>2, <1>3
<1>5. /\ alteres'["signeSim"] = IF d = "signeSim" THEN a + 1 ELSE a
      /\ alteres'["signeClient"] = IF d = "signeClient" THEN b + 1 ELSE b
  BY <1>1, <1>2, <1>3
<1>6. Fautes = b + a /\ Fautes' = alteres'["signeClient"] + alteres'["signeSim"]
  BY <1>3 DEF Fautes
<1> QED
  BY <1>4, <1>5, <1>6

(***************************************************************************)
(* Which token becomes which.                                              *)
(***************************************************************************)
Abime(x, j, d) ==
  /\ x.sorte # "bruit" /\ j \notin Bons /\ (j.sorte = "bruit" => j.n \in 1 .. MAX_ERROR_SIZE - 1)
  /\ \/ /\ x.sorte = "paquet" /\ j.sorte \in {"paquet", "bruit"}
        /\ d \notin {"signeSim", "signeClient"}
     \/ x.sorte \in {"+", "-"} /\ j.sorte = "bruit" /\ d \in {"signeSim", "signeClient"}

LEMMA CasAbimes ==
  ASSUME Trame < MAX_ERROR_SIZE, TInv, AltererCommande \/ AltererReponse \/ AltererSigne
  PROVE  \/ /\ UNCHANGED versClient
            /\ \E i, d, j : Degat(versSim, versSim', i, d, j) /\ Abime(versSim[i], j, d)
         \/ /\ UNCHANGED versSim
            /\ \E i, d, j : Degat(versClient, versClient', i, d, j) /\ Abime(versClient[i], j, d)
<1>1. ASSUME NEW s \in Seq(Jetons), NEW i \in DOMAIN s, s[i].sorte = "paquet",
             NEW d, d \notin {"signeSim", "signeClient"}
      PROVE  Abime(s[i], [s[i] EXCEPT !.juste = FALSE], d)
  <2> DEFINE j == [s[i] EXCEPT !.juste = FALSE]
  <2>1. s[i] \in [sorte : {"paquet"}, n : 1 .. Len(Programme), juste : BOOLEAN]
    <3>1. s[i] \in Jetons
      BY FileElement
    <3> QED
      BY <1>1, <3>1, Sortes DEF Jetons
  <2>2. j.sorte = "paquet" /\ j.juste = FALSE
    BY <2>1
  <2> HIDE DEF j
  <2>3. j \notin Bons
    BY <2>2 DEF Bons
  <2> QED
    BY <1>1, <2>2, <2>3 DEF Abime, j
<1>2. ASSUME NEW x, x.sorte # "bruit", NEW n, n \in 1 .. MAX_ERROR_SIZE - 1, NEW d,
             \/ x.sorte = "paquet" /\ d \notin {"signeSim", "signeClient"}
             \/ x.sorte \in {"+", "-"} /\ d \in {"signeSim", "signeClient"}
      PROVE  Abime(x, Bruit(n), d)
  <2>1. Bruit(n).sorte = "bruit" /\ Bruit(n).n = n /\ Bruit(n) \notin Bons
    BY Formes DEF Bons
  <2> QED
    BY <1>2, <2>1, Zenon DEF Abime
<1>3. 1 \in 1 .. MAX_ERROR_SIZE - 1 /\ (Trame > 0 => Trame \in 1 .. MAX_ERROR_SIZE - 1)
  BY ProgrammeAssumption, LigneAssumption
<1>4. versSim \in Seq(Jetons) /\ versClient \in Seq(Jetons)
  BY DEF TInv, TLien
<1>5. ASSUME NEW s \in Seq(Jetons), NEW t, NEW i \in DOMAIN s, NEW d,
             d \notin {"signeSim", "signeClient"}, s[i].sorte = "paquet",
             \/ Degat(s, t, i, d, [s[i] EXCEPT !.juste = FALSE])
             \/ Trame > 0 /\ Degat(s, t, i, d, Bruit(Trame))
      PROVE  \E j : Degat(s, t, i, d, j) /\ Abime(s[i], j, d)
  <2>1. Abime(s[i], [s[i] EXCEPT !.juste = FALSE], d)
    BY <1>1, <1>5
  <2>2. Trame > 0 => Abime(s[i], Bruit(Trame), d)
    <3>1. s[i].sorte # "bruit"
      BY <1>5
    <3> QED
      BY <1>2, <1>3, <1>5, <3>1
  <2> QED
    BY <1>5, <2>1, <2>2, Zenon
<1>6. ASSUME NEW s \in Seq(Jetons), NEW t, NEW i \in DOMAIN s, NEW d,
             d \in {"signeSim", "signeClient"}, s[i].sorte \in {"+", "-"},
             Degat(s, t, i, d, Bruit(1))
      PROVE  \E j : Degat(s, t, i, d, j) /\ Abime(s[i], j, d)
  <2>1. s[i].sorte # "bruit"
    BY <1>6
  <2>2. Abime(s[i], Bruit(1), d)
    BY <1>2, <1>3, <1>6, <2>1
  <2> QED
    BY <1>6, <2>2, Zenon
<1>7. ASSUME NEW s \in Seq(Jetons), NEW t, NEW a \in {"commande", "reponse"},
             NEW b \in {"signeSim", "signeClient"},
             \E i \in DOMAIN s :
               \/ /\ s[i].sorte = "paquet" /\ s[i].juste
                  /\ \/ Degat(s, t, i, a, [s[i] EXCEPT !.juste = FALSE])
                     \/ Trame > 0 /\ Degat(s, t, i, "debut", Bruit(Trame))
               \/ /\ s[i].sorte \in {"+", "-"}
                  /\ Degat(s, t, i, b, Bruit(1))
      PROVE  \E i, d, j : Degat(s, t, i, d, j) /\ Abime(s[i], j, d)
  <2>1. PICK i \in DOMAIN s :
               \/ /\ s[i].sorte = "paquet"
                  /\ \/ Degat(s, t, i, a, [s[i] EXCEPT !.juste = FALSE])
                     \/ Trame > 0 /\ Degat(s, t, i, "debut", Bruit(Trame))
               \/ /\ s[i].sorte \in {"+", "-"}
                  /\ Degat(s, t, i, b, Bruit(1))
    BY <1>7
  <2>2. a \notin {"signeSim", "signeClient"} /\ "debut" \notin {"signeSim", "signeClient"}
    OBVIOUS
  <2>3. CASE s[i].sorte = "paquet" /\ Degat(s, t, i, a, [s[i] EXCEPT !.juste = FALSE])
    <3>1. \E j : Degat(s, t, i, a, j) /\ Abime(s[i], j, a)
      BY <1>5, <2>2, <2>3
    <3> QED
      BY <3>1, Zenon
  <2>4. CASE s[i].sorte = "paquet" /\ Trame > 0 /\ Degat(s, t, i, "debut", Bruit(Trame))
    <3>1. \E j : Degat(s, t, i, "debut", j) /\ Abime(s[i], j, "debut")
      BY <1>5, <2>2, <2>4
    <3> QED
      BY <3>1, Zenon
  <2>5. CASE s[i].sorte \in {"+", "-"} /\ Degat(s, t, i, b, Bruit(1))
    <3>1. \E j : Degat(s, t, i, b, j) /\ Abime(s[i], j, b)
      BY <1>6, <2>5
    <3> QED
      BY <3>1, Zenon
  <2> QED
    BY <2>1, <2>3, <2>4, <2>5
<1> QED
  BY <1>4, <1>7, CasDegats, Zenon

LEMMA UnAbime ==
  ASSUME TInv, NEW s, s \in Seq(Jetons), NEW t, NEW i, NEW d, NEW j,
         Degat(s, t, i, d, j), Abime(s[i], j, d)
  PROVE  /\ BruitsCourts(s) => BruitsCourts(t)
         /\ \A l : Due(l, t) <= Due(l, s)
         /\ \A n : Reste(s, t, n)
         /\ Nb(t, Demandes) <= Nb(s, Demandes)
         /\ \/ Fautes' = Fautes /\ Nb(t, Charges) = Nb(s, Charges)
            \/ Fautes' = Fautes + 1 /\ Nb(t, Charges) = Nb(s, Charges) + 1
<1>1. /\ t \in Seq(Jetons) /\ i \in DOMAIN s /\ j \in Jetons /\ t = [s EXCEPT ![i] = j]
      /\ Nb(t, Charges) + (IF s[i] \in Charges THEN 1 ELSE 0)
           = Nb(s, Charges) + (IF j \in Charges THEN 1 ELSE 0)
      /\ Nb(t, Demandes) + (IF s[i] \in Demandes THEN 1 ELSE 0)
           = Nb(s, Demandes) + (IF j \in Demandes THEN 1 ELSE 0)
  BY NbDegat
<1>2. /\ j \notin Bons /\ s[i].sorte # "bruit"
      /\ j.sorte = "bruit" => j.n \in 1 .. MAX_ERROR_SIZE - 1
  BY DEF Abime
<1>3. BruitsCourts(s) => BruitsCourts(t)
  BY <1>1, <1>2, CourtsChange
<1>4. \A l : Due(l, t) <= Due(l, s)
  BY <1>1, <1>2, DueChange
<1>5. \A n : Reste(s, t, n)
  BY <1>1, <1>2, ResteChange
<1>6. /\ Nb(t, Charges) \in Nat /\ Nb(s, Charges) \in Nat
      /\ Nb(t, Demandes) \in Nat /\ Nb(s, Demandes) \in Nat
  BY <1>1, PlacesFinies
<1>7. /\ j \in Charges <=> j.sorte \in {"paquet", "bruit"}
      /\ j \in Demandes <=> j.sorte = "-"
      /\ s[i] \in Charges <=> s[i].sorte \in {"paquet", "bruit"}
      /\ s[i] \in Demandes <=> s[i].sorte = "-"
  <2>1. s[i] \in Jetons
    BY <1>1, FileElement
  <2> QED
    BY <1>1, <2>1, Dedans
<1>8. j \notin Demandes /\ j \in Charges
  BY <1>7 DEF Abime
<1>9. Nb(t, Demandes) <= Nb(s, Demandes)
  BY <1>1, <1>6, <1>8
<1>10. \/ Fautes' = Fautes /\ Nb(t, Charges) = Nb(s, Charges)
       \/ Fautes' = Fautes + 1 /\ Nb(t, Charges) = Nb(s, Charges) + 1
  <2>1. CASE s[i].sorte = "paquet" /\ d \notin {"signeSim", "signeClient"}
    <3>1. s[i] \in Charges
      BY <1>7, <2>1
    <3>2. Nb(t, Charges) = Nb(s, Charges)
      BY <1>1, <1>6, <1>8, <3>1
    <3> QED
      BY <2>1, <3>2, FautesDegat
  <2>2. CASE s[i].sorte \in {"+", "-"} /\ d \in {"signeSim", "signeClient"}
    <3>1. s[i] \notin Charges
      BY <1>7, <2>2
    <3>2. Nb(t, Charges) = Nb(s, Charges) + 1
      BY <1>1, <1>6, <1>8, <3>1
    <3> QED
      BY <2>2, <3>2, FautesDegat
  <2> QED
    BY <2>1, <2>2 DEF Abime
<1> QED
  BY <1>3, <1>4, <1>5, <1>9, <1>10

LEMMA CompteLigne ==
  ASSUME Trame < MAX_ERROR_SIZE, TInv, TInv', Compte,
         AltererCommande \/ AltererReponse \/ AltererSigne
  PROVE  Compte'
<1>1. UNCHANGED <<phase, commande, packet, len, ouvert, journal, texte>>
  BY CasDegats DEF client, simulateur
<1>2. SUFFICES ASSUME ouvert
               PROVE  Compte'
  BY <1>1 DEF Compte
<1>3. versSim \in Seq(Jetons) /\ versClient \in Seq(Jetons) /\ BruitsCourts(versClient)
  BY <1>2 DEF TInv, TLien, Compte
<1>4. Nombres /\ Nombres'
  BY Naturels, NaturelsSuite
<1>5. Rendues' = Rendues /\ packet' = packet /\ Texte(texte') = Texte(texte)
  BY <1>1 DEF Rendues
<1>6. PICK r, p, x, f, f2, c, c2, e, e2, s, s2, d, d2, o, o2 :
        /\ r = Rendues /\ p = packet /\ x = Texte(texte) /\ f = Fautes /\ f2 = Fautes'
        /\ c = Nb(versClient, Charges) /\ c2 = Nb(versClient', Charges)
        /\ d = Nb(versClient, Demandes) /\ d2 = Nb(versClient', Demandes)
        /\ s = Nb(versSim, Charges) /\ s2 = Nb(versSim', Charges)
        /\ e = Nb(versSim, Demandes) /\ e2 = Nb(versSim', Demandes)
        /\ o = Due(len, versClient) /\ o2 = Due(len', versClient')
  OBVIOUS
<1>7. /\ r \in Nat /\ p \in Nat /\ x \in Nat /\ f \in Nat /\ f2 \in Nat /\ c \in Nat
      /\ c2 \in Nat /\ d \in Nat /\ d2 \in Nat /\ s \in Nat /\ s2 \in Nat /\ e \in Nat
      /\ e2 \in Nat /\ o \in Nat /\ o2 \in Nat
  BY <1>4, <1>6 DEF Nombres
<1>8. /\ BruitsCourts(versClient') /\ o2 <= o /\ Reste(versSim, versSim', packet')
      /\ c2 + e2 + f <= c + e + f2
      /\ c2 + e2 + s2 + d2 + f <= c + e + s + d + f2
  <2>1. CASE /\ UNCHANGED versClient
             /\ \E i, g, j : Degat(versSim, versSim', i, g, j) /\ Abime(versSim[i], j, g)
    <3>1. /\ Reste(versSim, versSim', packet') /\ e2 <= e
          /\ \/ f2 = f /\ s2 = s
             \/ f2 = f + 1 /\ s2 = s + 1
      BY <1>3, <1>6, <2>1, UnAbime
    <3>2. c2 = c /\ d2 = d /\ o2 = o /\ BruitsCourts(versClient')
      BY <1>1, <1>3, <1>6, <2>1
    <3>3. o2 <= o /\ c2 + e2 + f <= c + e + f2 /\ c2 + e2 + s2 + d2 + f <= c + e + s + d + f2
      BY <1>7, <3>1, <3>2
    <3> QED
      BY <3>1, <3>2, <3>3
  <2>2. CASE /\ UNCHANGED versSim
             /\ \E i, g, j : Degat(versClient, versClient', i, g, j) /\ Abime(versClient[i], j, g)
    <3>1. /\ BruitsCourts(versClient') /\ d2 <= d
          /\ \/ f2 = f /\ c2 = c
             \/ f2 = f + 1 /\ c2 = c + 1
      BY <1>3, <1>6, <2>2, UnAbime
    <3>2. o2 <= o
      BY <1>1, <1>3, <1>6, <2>2, UnAbime
    <3>3. e2 = e /\ s2 = s
      BY <1>6, <2>2
    <3>4. c2 + e2 + f <= c + e + f2 /\ c2 + e2 + s2 + d2 + f <= c + e + s + d + f2
      BY <1>7, <3>1, <3>3
    <3>5. Reste(versSim, versSim', packet')
      <4>1. versSim \o <<>> = versSim /\ <<>> \in Seq(Jetons)
            /\ \A k \in DOMAIN <<>> : <<>>[k] \notin Bons
        BY <1>3
      <4>2. Reste(versSim, versSim \o <<>>, packet')
        BY <1>3, <4>1, ResteAjoute
      <4> QED
        BY <2>2, <4>1, <4>2
    <3> QED
      BY <3>1, <3>2, <3>4, <3>5
  <2> QED
    BY <2>1, <2>2, CasAbimes
<1>9. /\ Avoir = r + c + o + e /\ Avoir' = r + c2 + o2 + e2
      /\ Somme = (r + c + o + e) + s + d + x
      /\ Somme' = (r + c2 + o2 + e2) + s2 + d2 + x
  BY <1>5, <1>6, Zenon DEF Avoir, Somme
<1>10. r + c2 + o2 + e2 + f <= r + c + o + e + f2
  BY <1>7, <1>8
<1>11. (r + c2 + o2 + e2) + s2 + d2 + x + p + f <= (r + c + o + e) + s + d + x + p + f2
  BY <1>7, <1>8
<1>12. Avoir' + Fautes <= Avoir + Fautes' /\ Somme' + packet + Fautes <= Somme + packet' + Fautes'
  BY <1>5, <1>6, <1>9, <1>10, <1>11, Zenon
<1>13. UNCHANGED journal /\ (phase' = "envoi" => packet' = commande' - 1)
  BY <1>1, <1>2 DEF Compte
<1> QED
  BY <1>2, <1>8, <1>12, <1>13, Bilan

LEMMA CompteInit == Init => Compte
<1> SUFFICES ASSUME Init
             PROVE  Compte
  OBVIOUS
<1>1. /\ phase = "connexion" /\ commande = 1 /\ packet = 0 /\ len = 0 /\ texte = FALSE
      /\ versSim = <<>> /\ versClient = <<>> /\ journal = <<>>
  BY DEF Init
<1>2. Rendues = 0 /\ Execute = 0 /\ Retour(len, versSim, versClient) = 0
      /\ Route(texte, versSim, versClient) = 0
  BY <1>1, NbVide DEF Rendues, Execute, Retour, Route, Due
<1>3. Fautes = 0
  BY DEF Init, Fautes, Degats
<1>4. BruitsCourts(versClient) /\ \A i \in DOMAIN versSim : versSim[i] \notin Bons
  BY <1>1 DEF BruitsCourts
<1> QED
  BY <1>1, <1>2, <1>3, <1>4 DEF Compte, Paye

LEMMA CompteSuite ==
  ASSUME Trame < MAX_ERROR_SIZE
  PROVE  TInv /\ TInv' /\ Compte /\ [Next]_vars => Compte'
<1>1. Compte /\ UNCHANGED vars => Compte'
  BY DEF vars, client, lien, simulateur, Compte, Paye, Retour, Route, Due, BruitsCourts,
         Rendues, Fautes, Execute
<1> QED
  BY <1>1, CompteClient, CompteSimulateur, CompteLigne DEF Next

(***************************************************************************)
(* Avance, whatever the program and the number of damaged tokens, as long  *)
(* as a packet that lost its first character fits the error buffer: while  *)
(* the simulator is there, gdb_get_answer comes back before its command is *)
(* carried out at most once for each damaged "+" or "-".                   *)
(***************************************************************************)
THEOREM ReponsesAvecLeursCommandes ==
  ASSUME Trame < MAX_ERROR_SIZE
  PROVE  Spec => []Avance
<1>1. TInv /\ Compte => Avance
  <2> SUFFICES ASSUME TInv, Compte, ouvert
               PROVE  Rendues <= Execute + alteres["signeClient"] + alteres["signeSim"]
    BY DEF Avance
  <2>1. PICK r, u, e, a, b : /\ r = Rendues /\ u = Retour(len, versSim, versClient) /\ e = Execute
                             /\ a = alteres["signeClient"] /\ b = alteres["signeSim"]
    OBVIOUS
  <2>2. r + u <= e + (a + b)
    BY <2>1 DEF Compte, Paye, Fautes
  <2>3. r \in Nat /\ u \in Nat /\ e \in Nat
    BY <2>1, EtatTypes, CompteTypes
  <2>4. a \in Nat /\ b \in Nat
    BY <2>1, LigneAssumption DEF TInv, TAlteres, Degats
  <2>5. r <= e + a + b
    BY <2>2, <2>3, <2>4
  <2> QED
    BY <2>1, <2>5
<1> QED
  BY <1>1, TInit, TInvSuite, CompteInit, CompteSuite, PTL DEF Spec
=============================================================================
