CONSTANTS
  Programme <- PasAPas
  Adresses = 3
  MAX_ERROR_SIZE = 4
  MaxAlterations = 0
  Trame = 0
  Pannes = TRUE
SPECIFICATION Spec
CHECK_DEADLOCK FALSE
INVARIANTS SessionComplete
PROPERTIES RaffineRendezVous
