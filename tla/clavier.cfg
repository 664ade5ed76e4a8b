SPECIFICATION Spec
CONSTANTS
  Patience = 5
  Chiffres = {0, 2, 6}
  Octets = {0, 255}
  Entiers <- MinutesInitiales
INVARIANTS
  TypeOK
  PoidsFidele
  
PROPERTIES
  MenuAbandonne
