CONSTANTS
  Noms = {1, 2, 3, 4, 5}
  MAX_FILES_NUMBER = 4
  MaxAppels = 6
SPECIFICATION FairSpec
CHECK_DEADLOCK FALSE
INVARIANTS TypeOK TableComplete RechercheExacte
PROPERTIES RechercheFinit
