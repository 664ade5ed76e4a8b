SPECIFICATION Spec
CONSTANTS
  Gamelles = {g1}
  Connexions = {c1, c2}
  Requetes = {t1}
  Minuteries = {m1}
  Appli = Appli
  Rien = Rien
  Poids = {1}
  Jour = 3
  HeuresSaisies = {1, 2}
  MaxRepas = 2
  MaxId = 3
  MaxHistorique = 1
  MaxPannes = 1
  BasesInitiales <- BasesVides
  OpsGamelle <- OpsPlanningEtLecture
  OpsAppli = {"addMeal"}
  ConnexionPrecoce = FALSE
  BdFiable = TRUE
  UnALaFois = TRUE
SYMMETRY Sockets
INVARIANTS
  TypeOK
  PlanningFidele
  RelieAuDernier
  NumerosUniques
  AnnonceAJour
PROPERTIES
  SansPlantage
