CONSTANTS
  Blocs <- MCBlocs
  Bases = {88, 4093}
  Espace = 4096
  MAX_PACKET_SIZE = 28
  MaxTaille = 6
SPECIFICATION Spec
CHECK_DEADLOCK FALSE
INVARIANTS EnvoisExacts UnPaquet
