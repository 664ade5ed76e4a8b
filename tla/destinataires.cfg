SPECIFICATION Spec
CONSTANTS
  Gamelles = {g1, g2}
  Connexions = {c1, c2, c3}
  Requetes = {t1}
  Minuteries = {m1}
  Appli = Appli
  Rien = Rien
  Poids = {1}
  Jour = 1
  HeuresSaisies = {0}
  MaxRepas = 1
  MaxId = 1
  MaxHistorique = 2
  MaxPannes = 0
  BasesInitiales <- BasesVides
  OpsGamelle = {"addMeal"}
  OpsAppli = {"eatNow"}
  ConnexionPrecoce = TRUE
  BdFiable = TRUE
  UnALaFois = FALSE
SYMMETRY ToutesSymetries
INVARIANTS
  BonDestinataire
