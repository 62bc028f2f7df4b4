CONSTANTS
  Programme <- PasAPas
  Adresses = 1
  MAX_ERROR_SIZE = 4
  MaxAlterations = 4
  Trame = 2
  Pannes = FALSE
SPECIFICATION Spec
CHECK_DEADLOCK FALSE
INVARIANTS UneFois Avance
