SPECIFICATION SpecVivace
CONSTANTS
  Gamelles = {g1}
  Connexions = {c1, c2}
  Requetes = {t1}
  Minuteries = {m1}
  Appli = Appli
  Rien = Rien
  Poids = {1}
  Jour = 2
  HeuresSaisies = {1}
  MaxRepas = 1
  MaxId = 1
  MaxHistorique = 1
  MaxPannes = 1
  BasesInitiales <- BasesUnRepas
  OpsGamelle = {"addMeal", "deleteMeal", "nextMeal"}
  OpsAppli = {"history", "requestData"}
  ConnexionPrecoce = FALSE
  BdFiable = TRUE
  UnALaFois = FALSE
PROPERTIES
  
  RepriseComplete
  RepasDistribue
