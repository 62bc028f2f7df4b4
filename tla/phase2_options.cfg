CONSTANTS
  nul = nul
  text = text
  reltext = reltext
  data = data
  reldata = reldata
  grp = grp
  symtab = symtab
  strtab = strtab
  shstrtab = shstrtab
  autre = autre
  Inconnu = Inconnu
  NoExe = NoExe
  NULL = NULL
  Espace = 268435456
  BLOC = 1024
  Corps <- MCCorps
  Images <- Divers
  Lignes <- LignesDiverses
  Residus <- MCResidus
  SymResidus <- MCSymResidus
  SegResidus <- MCSegResidus
SPECIFICATION FairSpec
CHECK_DEADLOCK FALSE
INVARIANTS TypeOK Reussite
PROPERTIES Termine
