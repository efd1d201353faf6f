\* The sizes init_game gives: 121 characters of board in a field of 99.
SPECIFICATION Spec
CONSTANTS
  taillePlateau = 11
  tailleBateau = 5
  nbJoueur = 2
  INFOS_CLIENT = 99
  MAX_BATEAUX = 2
  Tirs <- TirsDefaut
  Placements <- PlacementsDefaut
  nbBateauInit <- Zero
  grillesInit <- GrilleVide
  bateauxInit <- ListeVide
  idsFantomes <- IdsQuelconques
  Fusion = FALSE
  Pannes = 0
INVARIANT VueFidele
