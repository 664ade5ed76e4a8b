SPECIFICATION Spec
CONSTANTS
  Menus = {"D"}
  MaxVersions = 0
  MaxOrdres = 0
  MaxCoupures = 1
  MaxDemandes = 2
PROPERTIES
  AttenteToujoursFinie
CHECK_DEADLOCK FALSE
