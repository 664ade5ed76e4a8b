SPECIFICATION Spec
CONSTANTS
  HeuresJour = 3
  MinutesHeure = 2
  MaxRepas = 4
INVARIANTS
  TypeOK
  ProchainJuste
  ProchainDuServeur
PROPERTIES
  ChangeALHeure
