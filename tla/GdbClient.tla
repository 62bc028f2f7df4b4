------------------------------ MODULE GdbClient ------------------------------
(***************************************************************************)
(* The client of elf_linker-1.0 that drives an ARM simulator over a socket *)
(* with the gdb remote protocol: arm_simulator_interface.c, gdb_protocol.c *)
(* and the scanner of scanner.l, called by sample_run (ARM_runner_example.c).*)
(*                                                                         *)
(* The client is one thread.  Every command is a packet followed by a call *)
(* of yylex that reads whatever the simulator sent until a packet with a   *)
(* good checksum, or the end of the stream.  Nothing in a packet says      *)
(* which command it answers, and gdb->packet holds the last packet sent    *)
(* and is what a "-" has sent again.                                       *)
(*                                                                         *)
(* The socket is one sequence of tokens per direction:                     *)
(*   [sorte |-> "paquet", n, juste]  a packet: a command or an answer      *)
(*   [sorte |-> "+" or "-", ...]     an acknowledgement, a request for     *)
(*                                   retransmission                        *)
(*   [sorte |-> "bruit", n]          n characters the scanner has no rule  *)
(*                                   for                                   *)
(***************************************************************************)
EXTENDS Integers, Sequences, FiniteSets

CONSTANTS
  Programme,       \* the commands the application issues: "X", "P", "s", "c"
  Adresses,        \* addresses getaddrinfo returns
  MAX_ERROR_SIZE   \* room for characters no rule matches (1024)

ASSUME ProgrammeAssumption ==
  /\ Programme \in Seq({"X", "P", "s", "c"}) /\ Programme # <<>>
  /\ Adresses \in Nat \ {0}
  /\ MAX_ERROR_SIZE \in Nat /\ MAX_ERROR_SIZE >= 2

VARIABLES
  phase,        \* what the client is doing
  rp,           \* the address arm_connect tries
  commande,     \* the command of Programme it has reached
  packet,       \* the command gdb->packet holds (0: none yet)
  len,          \* data.len: characters waiting in the error buffer
  ecoute,       \* whether the simulator listens, and at which address
  ouvert,       \* whether the simulator's end of the connection is open
  versSim,      \* what is on its way to the simulator
  versClient    \* what is on its way to the client

client == <<phase, rp, commande, packet, len>>
lien   == <<versSim, versClient>>

Phases == {"connexion", "envoi", "attente", "fini", "rompu"}

Signe(s)  == [sorte |-> s, n |-> 0, juste |-> TRUE]
Paquet(n) == [sorte |-> "paquet", n |-> n, juste |-> TRUE]
Bruit(n)  == [sorte |-> "bruit", n |-> n, juste |-> FALSE]

-----------------------------------------------------------------------------
(***************************************************************************)
(* Rio_writen.  The first write after the simulator is gone still          *)
(* succeeds; a write on a connection that was reset ends the program.      *)
(***************************************************************************)
Perdu == ~ouvert /\ versSim # <<>>   \* the peer left bytes unread: a reset

Ecrire(jetons, suite) ==
  \/ /\ versSim' = versSim \o jetons /\ phase' = suite
  \/ /\ Perdu /\ jetons # <<>>
     /\ phase' = "rompu" /\ UNCHANGED versSim

(***************************************************************************)
(* arm_connect: the addresses one after the other, error() when none will. *)
(***************************************************************************)
Connecter ==
  /\ phase = "connexion"
  /\ IF ecoute = rp
       THEN phase' = "envoi" /\ rp' = rp
       ELSE /\ phase' = IF rp < Adresses THEN "connexion" ELSE "rompu"
            /\ rp' = IF rp < Adresses THEN rp + 1 ELSE rp
  /\ UNCHANGED <<commande, packet, len, ecoute, ouvert, lien>>

(***************************************************************************)
(* gdb_send_buffer, for gdb_write_memory (one chunk), gdb_write_register,  *)
(* gdb_step and gdb_cont.                                                  *)
(***************************************************************************)
SuiteFautive(n) ==   \* a write to memory does not wait for its answer
  IF Programme[n] = "X" /\ n < Len(Programme) THEN "envoi" ELSE "attente"

SuiteEnvoi(n) == "attente"   \* gdb_get_answer follows every gdb_send_buffer

Envoyer ==
  /\ phase = "envoi"
  /\ packet' = commande
  /\ Ecrire(<<Paquet(commande)>>, SuiteEnvoi(commande))
  /\ UNCHANGED <<rp, commande, len, ecoute, ouvert, versClient>>

-----------------------------------------------------------------------------
(***************************************************************************)
(* handle_error, called before every rule of the scanner is obeyed.        *)
(***************************************************************************)
PlainteFautive == <<Signe("-")>>   \* data->len is not tested

Plainte == IF len > 0 THEN <<Signe("-")>> ELSE <<>>

Recu(s) ==
  /\ phase = "attente" /\ versClient # <<>> /\ Head(versClient).sorte = s
  /\ versClient' = Tail(versClient)
  /\ UNCHANGED <<rp, ecoute, ouvert>>

LireAccuse ==
  /\ Recu("+")
  /\ Ecrire(Plainte, "attente") /\ len' = 0
  /\ UNCHANGED <<commande, packet>>

RetransmetFautif(p) == <<>>   \* the request is read and forgotten

Retransmet(p) == <<Paquet(p)>>   \* gdb_transmit_packet

LireDemande ==
  /\ Recu("-")
  /\ Ecrire(Plainte \o Retransmet(packet), "attente") /\ len' = 0
  /\ UNCHANGED <<commande, packet>>

(***************************************************************************)
(* gdb_packet_check: an acknowledgement and the end of yylex, or a request *)
(* for retransmission and more of yylex.                                   *)
(***************************************************************************)
Accepte(j) == j.juste

(***************************************************************************)
(* gdb_get_answer returned, with EOF or with a packet.  gdb_write_memory   *)
(* and gdb_write_register ignore which, arm_run ends the session whatever  *)
(* came, and arm_step ends it at EOF.                                      *)
(***************************************************************************)
DerniereFautive(fin) ==   \* arm_step ends the session whatever came
  Programme[commande] \in {"c", "s"} \/ commande = Len(Programme)

Derniere(fin) ==
  \/ Programme[commande] = "c"
  \/ Programme[commande] = "s" /\ fin
  \/ commande = Len(Programme)

PhaseFautive(fin) ==   \* yylex starts again at the end of the stream
  IF fin THEN "attente" ELSE IF Derniere(fin) THEN "fini" ELSE "envoi"

PhaseApres(fin) == IF Derniere(fin) THEN "fini" ELSE "envoi"

CommandeApres(fin) == IF Derniere(fin) THEN commande ELSE commande + 1

LireReponse ==
  /\ Recu("paquet")
  /\ IF Accepte(Head(versClient))
       THEN /\ Ecrire(Plainte \o <<Signe("+")>>, PhaseApres(FALSE))
            /\ commande' = CommandeApres(FALSE)
       ELSE /\ Ecrire(Plainte \o <<Signe("-")>>, "attente")
            /\ UNCHANGED commande
  /\ len' = 0
  /\ UNCHANGED packet

(***************************************************************************)
(* add_character_to_error, one character: a full buffer is complained      *)
(* about first.                                                            *)
(***************************************************************************)
TamponFautif == len > MAX_ERROR_SIZE - 1

TamponPlein == len > MAX_ERROR_SIZE - 2

LireBruit ==
  /\ phase = "attente" /\ versClient # <<>> /\ Head(versClient).sorte = "bruit"
  /\ versClient' = IF Head(versClient).n > 1
                     THEN <<Bruit(Head(versClient).n - 1)>> \o Tail(versClient)
                     ELSE Tail(versClient)
  /\ IF TamponPlein THEN Ecrire(Plainte, "attente") /\ len' = 1
                    ELSE len' = len + 1 /\ UNCHANGED <<phase, versSim>>
  /\ UNCHANGED <<rp, commande, packet, ecoute, ouvert>>

(***************************************************************************)
(* The end of the stream, now and at every later call of yylex.            *)
(***************************************************************************)
LireFin ==
  /\ phase = "attente" /\ versClient = <<>> /\ ~ouvert
  /\ Ecrire(Plainte, PhaseApres(TRUE))
  /\ commande' = CommandeApres(TRUE) /\ len' = 0
  /\ UNCHANGED <<rp, packet, ecoute, ouvert, versClient>>

(***************************************************************************)
(* The read itself fails on a connection that was reset: flex exits.       *)
(***************************************************************************)
LireRompu ==
  /\ phase = "attente" /\ Perdu
  /\ phase' = "rompu"
  /\ UNCHANGED <<rp, commande, packet, len, ecoute, ouvert, lien>>

Lire == \/ LireAccuse \/ LireDemande \/ LireReponse
        \/ LireBruit \/ LireFin \/ LireRompu

NextClient == Connecter \/ Envoyer \/ Lire
=============================================================================
