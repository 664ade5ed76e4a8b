SPECIFICATION Spec
CONSTANTS
  Gamelles = {g1}
  Connexions = {c1, c2}
  Requetes = {t1}
  Minuteries = {}
  Appli = Appli
  Rien = Rien
  Poids = {1}
  Jour = 2
  HeuresSaisies <- HeuresBonneOuRefusee
  MaxRepas = 2
  MaxId = 2
  MaxHistorique = 0
  MaxPannes = 0
  BasesInitiales <- BasesVides
  OpsGamelle = {"nextMeal"}
  OpsAppli = {"addMeal", "update"}
  ConnexionPrecoce = FALSE
  BdFiable = TRUE
  UnALaFois = TRUE
INVARIANTS
  HeureModifieeServie
