\* One read may take several messages.
SPECIFICATION Spec
CONSTANTS
  taillePlateau = 4
  tailleBateau = 2
  nbJoueur = 3
  INFOS_CLIENT = 99
  MAX_BATEAUX = 3
  Tirs <- TroisTirs
  Placements <- DeuxPlacements
  nbBateauInit <- Zero
  grillesInit <- GrilleVide
  bateauxInit <- ListeVide
  idsFantomes <- IdsQuelconques
  Fusion = TRUE
  Pannes = 0
PROPERTY RienPerdu
CHECK_DEADLOCK FALSE
