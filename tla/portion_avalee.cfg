SPECIFICATION Spec
CONSTANTS
  Menus = {"D"}
  MaxVersions = 0
  MaxOrdres = 1
  MaxCoupures = 0
  MaxDemandes = 2
PROPERTIES
  PortionsServies
CHECK_DEADLOCK FALSE
