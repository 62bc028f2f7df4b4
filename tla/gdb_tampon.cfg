CONSTANTS
  Programme <- SampleRun
  Adresses = 2
  MAX_ERROR_SIZE = 4
  MaxAlterations = 3
  Trame = 5
  Pannes = TRUE
SPECIFICATION FairSpec
CHECK_DEADLOCK FALSE
INVARIANTS TypeOK AttenteExpliquee
PROPERTIES SessionTermine
