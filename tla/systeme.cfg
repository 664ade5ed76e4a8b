SPECIFICATION SystemeSpec
CONSTANTS
  Gamelles = {g1, g2}
  Connexions = {c1, c2}
  Requetes = {t1}
  Minuteries = {}
  Appli = Appli
  Rien = Rien
  Poids = {1}
  Jour = 2
  HeuresSaisies = {1}
  MaxRepas = 2
  MaxId = 4
  MaxHistorique = 6
  MaxPannes = 0
  BasesInitiales <- BasesUnRepas
  OpsGamelle = {"nextMeal"}
  OpsAppli = {"requestData", "addMeal", "update", "deleteMeal", "eatNow"}
  ConnexionPrecoce = FALSE
  BdFiable = TRUE
  UnALaFois = TRUE
  Allumees = {g1}
  SansChoix = 4
  MaxEnvois = 3

  
  
PROPERTIES
  ListeObtenue
