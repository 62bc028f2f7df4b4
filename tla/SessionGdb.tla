----------------------------- MODULE SessionGdb -----------------------------
(***************************************************************************)
(* The client of GdbClient, the simulator it drives, and the line between  *)
(* them.                                                                   *)
(*                                                                         *)
(* The simulator is a binary without source; it is taken to be what the    *)
(* client expects: it acknowledges a good packet, carries it out and       *)
(* answers, asks for a bad packet again, sends its last answer again when  *)
(* asked to, complains about text between packets like the scanner of the  *)
(* client, and exits when the program it runs is over.                     *)
(*                                                                         *)
(* The line keeps the order of what it carries.  It may damage it, which   *)
(* is what checksums and retransmission requests are for, at most          *)
(* MaxAlterations times.                                                   *)
(***************************************************************************)
EXTENDS GdbClient

CONSTANTS
  MaxAlterations,  \* bound: tokens damaged on the line
  Trame,           \* characters of a packet that lost its first one
  Pannes           \* whether the simulator may die before the end

ASSUME LigneAssumption ==
  MaxAlterations \in Nat /\ Trame \in Nat /\ Pannes \in BOOLEAN

VARIABLES
  journal,   \* the commands the simulator has carried out, in order
  reponse,   \* the command its last answer was for (0: none yet)
  texte,     \* whether its scanner holds text no rule matched
  marche,    \* whether it is running the program ("c")
  alteres    \* how many tokens of each kind the line has damaged

simulateur == <<journal, reponse, texte, marche>>
vars == <<client, ecoute, ouvert, lien, simulateur, alteres>>

(***************************************************************************)
(* What the line may damage: a command or an answer (its checksum no       *)
(* longer fits), a "+" or "-" to the simulator or to the client, the first *)
(* character of a packet.                                                  *)
(***************************************************************************)
Degats == {"commande", "reponse", "signeSim", "signeClient", "debut"}

Init ==
  /\ phase = "connexion" /\ rp = 1 /\ commande = 1 /\ packet = 0 /\ len = 0
  /\ ecoute = 0 /\ ouvert = TRUE
  /\ versSim = <<>> /\ versClient = <<>>
  /\ journal = <<>> /\ reponse = 0 /\ texte = FALSE /\ marche = FALSE
  /\ alteres = [d \in Degats |-> 0]

Client == NextClient /\ UNCHANGED <<simulateur, alteres>>

-----------------------------------------------------------------------------
(***************************************************************************)
(* The simulator (external).                                               *)
(***************************************************************************)
SimEcoute ==
  /\ ouvert /\ ecoute = 0
  /\ ecoute' \in 1 .. Adresses
  /\ UNCHANGED <<client, ouvert, lien, simulateur, alteres>>

SimLit(s) ==
  /\ ouvert /\ ~marche /\ versSim # <<>> /\ Head(versSim).sorte = s
  /\ versSim' = Tail(versSim)
  /\ UNCHANGED <<client, ecoute, ouvert, alteres>>

SimPlainte == IF texte THEN <<Signe("-")>> ELSE <<>>

SimCommande ==
  /\ SimLit("paquet") /\ Head(versSim).juste
  /\ LET n == Head(versSim).n IN
       /\ journal' = Append(journal, n)
       /\ marche' = (Programme[n] = "c")
       /\ reponse' = IF marche' THEN reponse ELSE n
       /\ versClient' = versClient \o SimPlainte \o <<Signe("+")>>
                          \o IF marche' THEN <<>> ELSE <<Paquet(n)>>
  /\ texte' = FALSE

SimRefuse ==
  /\ SimLit("paquet") /\ ~Head(versSim).juste
  /\ versClient' = versClient \o SimPlainte \o <<Signe("-")>>
  /\ texte' = FALSE
  /\ UNCHANGED <<journal, reponse, marche>>

SimAccuse ==
  /\ SimLit("+")
  /\ versClient' = versClient \o SimPlainte
  /\ texte' = FALSE
  /\ UNCHANGED <<journal, reponse, marche>>

SimDemande ==
  /\ SimLit("-")
  /\ versClient' = versClient \o SimPlainte
                     \o IF reponse = 0 THEN <<>> ELSE <<Paquet(reponse)>>
  /\ texte' = FALSE
  /\ UNCHANGED <<journal, reponse, marche>>

SimBruit ==
  /\ SimLit("bruit")
  /\ texte' = TRUE
  /\ UNCHANGED <<versClient, journal, reponse, marche>>

(***************************************************************************)
(* It exits when the program it runs is over, when the client is gone, and *)
(* when it dies; then what it had not sent yet is lost.                    *)
(***************************************************************************)
SimFin ==
  /\ ouvert
  /\ marche \/ (phase \in {"fini", "rompu"} /\ versSim = <<>>)
  /\ ouvert' = FALSE /\ marche' = FALSE
  /\ UNCHANGED <<client, ecoute, lien, journal, reponse, texte, alteres>>

SimPanne ==
  /\ Pannes /\ ouvert
  /\ ouvert' = FALSE /\ marche' = FALSE /\ ecoute' = 0
  /\ \E k \in 0 .. Len(versClient) : versClient' = SubSeq(versClient, 1, k)
  /\ UNCHANGED <<client, versSim, journal, reponse, texte, alteres>>

Simulateur ==
  \/ SimCommande \/ SimRefuse \/ SimAccuse \/ SimDemande \/ SimBruit \/ SimFin

-----------------------------------------------------------------------------
(***************************************************************************)
(* The line (external): damage to a token on its way.                      *)
(***************************************************************************)
Alterations == alteres["commande"] + alteres["reponse"] + alteres["signeSim"]
                 + alteres["signeClient"] + alteres["debut"]

Endommage(canal, i, d, jeton) ==
  /\ Alterations < MaxAlterations
  /\ alteres' = [alteres EXCEPT ![d] = @ + 1]
  /\ canal' = [canal EXCEPT ![i] = jeton]

AltererCommande ==
  /\ \E i \in DOMAIN versSim :
       /\ versSim[i].sorte = "paquet" /\ versSim[i].juste
       /\ \/ Endommage(versSim, i, "commande", [versSim[i] EXCEPT !.juste = FALSE])
          \/ Trame > 0 /\ Endommage(versSim, i, "debut", Bruit(Trame))
  /\ UNCHANGED <<client, ecoute, ouvert, versClient, simulateur>>

AltererReponse ==
  /\ \E i \in DOMAIN versClient :
       /\ versClient[i].sorte = "paquet" /\ versClient[i].juste
       /\ \/ Endommage(versClient, i, "reponse", [versClient[i] EXCEPT !.juste = FALSE])
          \/ Trame > 0 /\ Endommage(versClient, i, "debut", Bruit(Trame))
  /\ UNCHANGED <<client, ecoute, ouvert, versSim, simulateur>>

AltererSigne ==
  /\ \/ /\ \E i \in DOMAIN versSim : /\ versSim[i].sorte \in {"+", "-"}
                                     /\ Endommage(versSim, i, "signeSim", Bruit(1))
        /\ UNCHANGED versClient
     \/ /\ \E i \in DOMAIN versClient : /\ versClient[i].sorte \in {"+", "-"}
                                        /\ Endommage(versClient, i, "signeClient", Bruit(1))
        /\ UNCHANGED versSim
  /\ UNCHANGED <<client, ecoute, ouvert, simulateur>>

-----------------------------------------------------------------------------
Next ==
  \/ Client \/ SimEcoute \/ Simulateur \/ SimPanne
  \/ AltererCommande \/ AltererReponse \/ AltererSigne

Spec == Init /\ [][Next]_vars

(***************************************************************************)
(* The client runs when it can; the simulator reads, runs and exits.  The  *)
(* line owes nothing: it damages what it likes, and the simulator may die  *)
(* or live.                                                                *)
(***************************************************************************)
FairSpec == Spec /\ WF_vars(Client) /\ WF_vars(SimEcoute) /\ WF_vars(Simulateur)

-----------------------------------------------------------------------------
Jetons ==
  {Signe("+"), Signe("-")}
    \union [sorte : {"paquet"}, n : 1 .. Len(Programme), juste : BOOLEAN]
    \union {Bruit(k) : k \in 1 .. Trame + 1}

(***************************************************************************)
(* Types; the error buffer never fills its last place, where handle_error  *)
(* writes the end of the string, and yylex is never waiting for an answer  *)
(* with another command in gdb->packet than the one it waits for.          *)
(***************************************************************************)
TypeOK ==
  /\ phase \in Phases /\ rp \in 1 .. Adresses
  /\ commande \in 1 .. Len(Programme) /\ packet \in 0 .. Len(Programme)
  /\ len \in 0 .. MAX_ERROR_SIZE - 1
  /\ ecoute \in 0 .. Adresses /\ ouvert \in BOOLEAN
  /\ versSim \in Seq(Jetons) /\ versClient \in Seq(Jetons)
  /\ journal \in Seq(1 .. Len(Programme)) /\ reponse \in 0 .. Len(Programme)
  /\ texte \in BOOLEAN /\ marche \in BOOLEAN
  /\ alteres \in [Degats -> 0 .. MaxAlterations]
  /\ phase = "attente" => packet = commande

Seulement(degats) == \A d \in Degats \ degats : alteres[d] = 0

Rendues == IF phase = "fini" THEN commande ELSE commande - 1

Execute == IF journal = <<>> THEN 0 ELSE journal[Len(journal)]

(***************************************************************************)
(* Retransmission repairs damaged packets, and any damage on the way back: *)
(* every command is carried out once, in the order of the program, as long *)
(* as a damaged packet does not fill the error buffer.  (When a "+" or "-" *)
(* to the simulator is damaged too, a command may be carried out twice or  *)
(* not at all: packets have no numbers.)                                   *)
(***************************************************************************)
UneFois ==
  Seulement({"commande", "reponse", "debut"}) \/ Seulement({"reponse", "signeClient"})
    => journal = [i \in DOMAIN journal |-> i]

(***************************************************************************)
(* The answers stay with their commands: while the simulator is there, a   *)
(* call comes back before its command is done only where a "+" or "-" was  *)
(* damaged, one call for each, as long as a damaged packet does not fill   *)
(* the error buffer.  (The complaint about such text has the last answer   *)
(* sent twice, and the second copy is taken for the next one.)             *)
(***************************************************************************)
Avance ==
  ouvert => Rendues <= Execute + alteres["signeClient"] + alteres["signeSim"]

(***************************************************************************)
(* Client and simulator wait for each other only when one of them holds    *)
(* text it has not complained about yet: a "-" or the start of a packet    *)
(* was lost in it.  (Neither has a timeout.)                               *)
(***************************************************************************)
Muet == /\ phase = "attente" /\ ouvert /\ ~marche
        /\ versSim = <<>> /\ versClient = <<>>

AttenteExpliquee == Muet => len > 0 \/ texte

(***************************************************************************)
(* The client comes to an end, unless it waits that way.                   *)
(***************************************************************************)
Arrete == phase \in {"fini", "rompu"}

SessionTermine == <>Arrete \/ <>[](Muet /\ (len > 0 \/ texte))

(***************************************************************************)
(* On a line that damages nothing, a session with a simulator that lives   *)
(* ends normally with the whole program carried out; arm_run comes back    *)
(* after the simulator has exited.                                         *)
(***************************************************************************)
SessionComplete ==
  Seulement({}) /\ Arrete /\ ecoute # 0 /\ packet # 0 =>
    /\ phase = "fini" /\ journal = [i \in DOMAIN Programme |-> i]
    /\ Programme[Len(Programme)] = "c" => ~ouvert

(***************************************************************************)
(* On such a line the session is a rendez-vous between application and     *)
(* simulator; once the simulator is gone, calls come back with nothing     *)
(* done, and the application is not told.                                  *)
(***************************************************************************)
Appel == INSTANCE RendezVous WITH
  faites <- Len(journal), rendues <- Rendues, partie <- ~ouvert

RaffineRendezVous == Appel!Spec
=============================================================================
