SPECIFICATION Spec
CONSTANTS
  Menus = {"A", "B", "C", "D", "*"}
  MaxVersions = 1
  MaxOrdres = 1
  MaxCoupures = 1
  MaxDemandes = 3
INVARIANTS
  TypeOK
  JamaisDeuxFois
PROPERTIES
  AttenteFinie
  
CHECK_DEADLOCK FALSE
