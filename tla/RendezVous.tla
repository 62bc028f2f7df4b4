----------------------------- MODULE RendezVous -----------------------------
(***************************************************************************)
(* What the stop-and-wait client promises an application: the commands are *)
(* carried out in order, once each, and a call does not come back before   *)
(* its command is done, unless the simulator is gone.                      *)
(***************************************************************************)
EXTENDS Integers

VARIABLES
  faites,    \* commands the simulator has carried out
  rendues,   \* calls that have come back to the application
  partie     \* the simulator is gone

rvars == <<faites, rendues, partie>>

Init == faites = 0 /\ rendues = 0 /\ partie = FALSE

Executer == /\ ~partie /\ faites = rendues
            /\ faites' = faites + 1 /\ UNCHANGED <<rendues, partie>>

Rendre == /\ rendues < faites \/ partie
          /\ rendues' = rendues + 1 /\ UNCHANGED <<faites, partie>>

Partir == ~partie /\ partie' = TRUE /\ UNCHANGED <<faites, rendues>>

Next == Executer \/ Rendre \/ Partir

Spec == Init /\ [][Next]_rvars
=============================================================================
