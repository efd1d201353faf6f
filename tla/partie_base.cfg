\* Three players, no failure.
SPECIFICATION Spec
CONSTANTS
  taillePlateau = 4
  tailleBateau = 2
  nbJoueur = 3
  INFOS_CLIENT = 99
  MAX_BATEAUX = 4
  Tirs <- TirsPetits
  Placements <- PlacementsPetits
  nbBateauInit <- Zero
  grillesInit <- GrilleVide
  bateauxInit <- ListeVide
  idsFantomes <- IdsQuelconques
  Fusion = FALSE
  Pannes = 0
INVARIANTS TypeOK MemoireTenue Coherence FlotteFidele ProtocoleRespecte DeuxAuPlus JamaisInterbloques VerdictJuste VueFidele
PROPERTIES CoulesSeTaisent TirsIrreversibles Avance Raffine
