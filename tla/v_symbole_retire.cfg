CONSTANTS
  nul = nul
  text = text
  reltext = reltext
  data = data
  reldata = reldata
  grp = grp
  symtab = symtab
  strtab = strtab
  shstrtab = shstrtab
  autre = autre
  Inconnu = Inconnu
  NoExe = NoExe
  NULL = NULL
  Espace = 268435456
  BLOC = 1024
  Corps <- MCCorps
  Images <- SymboleDansRel
  Lignes <- LigneAutop2
  Residus <- MCResidus
  SymResidus <- MCSymResidus
  SegResidus <- MCSegResidus
SPECIFICATION Spec
CHECK_DEADLOCK FALSE
INVARIANTS SymbolesGardes
