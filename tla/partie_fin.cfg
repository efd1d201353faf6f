\* The end of the game with one boat afloat.
SPECIFICATION Spec
CONSTANTS
  taillePlateau = 4
  tailleBateau = 2
  nbJoueur = 2
  INFOS_CLIENT = 99
  MAX_BATEAUX = 2
  Tirs <- TroisTirs
  Placements <- DeuxPlacements
  nbBateauInit <- Zero
  grillesInit <- GrilleVide
  bateauxInit <- ListeVide
  idsFantomes <- IdsQuelconques
  Fusion = FALSE
  Pannes = 0
INVARIANT FinDePartie
