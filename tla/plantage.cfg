SPECIFICATION Spec
CONSTANTS
  Gamelles = {g1}
  Connexions = {c1, c2}
  Requetes = {t1, t2}
  Minuteries = {}
  Appli = Appli
  Rien = Rien
  Poids = {1}
  Jour = 2
  HeuresSaisies = {1}
  MaxRepas = 2
  MaxId = 3
  MaxHistorique = 0
  MaxPannes = 0
  BasesInitiales <- BasesUnRepas
  OpsGamelle = {"update", "deleteMeal"}
  OpsAppli <- OpsPlanning
  ConnexionPrecoce = FALSE
  BdFiable = TRUE
  UnALaFois = FALSE
PROPERTIES
  SansPlantage
