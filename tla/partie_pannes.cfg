\* Two players, one of which may crash; reads may merge messages; the count, the
\* grid and the list of boats of the server start with what the memory holds.
SPECIFICATION Spec
CONSTANTS
  taillePlateau = 4
  tailleBateau = 2
  nbJoueur = 2
  INFOS_CLIENT = 99
  MAX_BATEAUX = 3
  Tirs <- DeuxTirs
  Placements <- DeuxPlacements
  nbBateauInit <- ZeroOuUn
  grillesInit <- GrilleSale
  bateauxInit <- ListeSale
  idsFantomes <- IdsQuelconques
  Fusion = TRUE
  Pannes = 1
 
PROPERTIES TirsIrreversibles
\* A message lost in a merge, or a residue counted as a boat, leaves client and
\* server each waiting for the other: the program does hang.
CHECK_DEADLOCK FALSE
