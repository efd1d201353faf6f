\* The smallest board for boats of three cells; five seconds of two ticks, of which
\* the loop may take one on either side of getch.
SPECIFICATION FairClient
CONSTANTS
  taillePlateau = 6
  tailleBateau = 3
  nbJoueur = 2
  INFOS_CLIENT = 99
  timeout = 5
  TICS = 2
  DESSIN = 1
INVARIANTS TypeOK DansPlateau EnvoiFidele TypeTir DelaiTenu TirMontre
PROPERTIES TirPart
