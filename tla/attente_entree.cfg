\* Two clients in a room for three: the operator launches without waiting.
SPECIFICATION FairSpec
CONSTANTS
  c1 = c1
  c2 = c2
  c3 = c3
  c4 = c4
  personne = personne
  Clients <- DeuxClients
  Personne <- personne
  maxJoueur = 3
  FILE_ECOUTE = 2
  Pannes = 0
PROPERTIES EntreeLance
\* The server waits for a third client that does not exist.
CHECK_DEADLOCK FALSE
