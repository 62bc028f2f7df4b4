CONSTANT Valeurs <- MCValeurs
SPECIFICATION FairSpec
CHECK_DEADLOCK FALSE
INVARIANT ResultatExact
PROPERTY ArretExact
