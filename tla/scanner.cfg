SPECIFICATION FairSpec
CONSTANTS
  Flots <- MCFlots
  YY_BUF_SIZE = 3
  YY_READ_BUF_SIZE = 3
  MAX_ERROR_SIZE = 4
INVARIANTS
  TypeOK
  JetonsExacts
  SansRetard
  PlaintesJustes
PROPERTIES
  Revient
CHECK_DEADLOCK FALSE
