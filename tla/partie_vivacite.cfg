\* Three players, one of which may die; fair server and clients, free operator; the
\* grid and the list of boats of the server start with what the memory holds.
SPECIFICATION FairSpec
CONSTANTS
  taillePlateau = 4
  tailleBateau = 2
  nbJoueur = 3
  INFOS_CLIENT = 99
  MAX_BATEAUX = 3
  Tirs <- DeuxTirs
  Placements <- DeuxPlacements
  nbBateauInit <- Zero
  grillesInit <- GrilleUsee
  bateauxInit <- ListeUsee
  idsFantomes <- IdJoueur
  Fusion = FALSE
  Pannes = 1
PROPERTIES PlacementAboutit TourTermine NaufrageAnnonce DialogueTenu VerdictTenu

\* A residue counted as a boat leaves the ring waiting: the program does hang.
CHECK_DEADLOCK FALSE
