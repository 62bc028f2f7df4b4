SPECIFICATION Spec
CONSTANTS
  Objets <- MCObjets
  Commandes <- MCCommandes
INVARIANTS
  TypeOK
  AffichagesExacts
  ToutAffiche
  AbandonsExpliques
  CopieExacte
CHECK_DEADLOCK FALSE
