SPECIFICATION Spec
CONSTANTS
  Gamelles = {g1}
  Connexions = {c1, c2}
  Requetes = {t1, t2}
  Minuteries = {m1}
  Appli = Appli
  Rien = Rien
  Poids = {1}
  Jour = 2
  HeuresSaisies <- HeureRefusee
  MaxRepas = 1
  MaxId = 3
  MaxHistorique = 3
  MaxPannes = 0
  BasesInitiales <- BasesVideOuUnRepas
  OpsGamelle = {"addMeal"}
  OpsAppli = {"eatNow", "history"}
  ConnexionPrecoce = FALSE
  BdFiable = FALSE
  UnALaFois = FALSE
SYMMETRY SocketsEtPlaces
INVARIANTS
  DepassementBorne
  DocumentsBornes
  HistoriqueSuffisant
PROPERTIES
  PortionsPromises
