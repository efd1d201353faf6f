\* Four clients for three places, one of which may crash; fair threads and
\* clients.  (No symmetry: liveness properties are checked.)
SPECIFICATION FairSpec
CONSTANTS
  c1 = c1
  c2 = c2
  c3 = c3
  c4 = c4
  personne = personne
  Clients <- QuatreClients
  Personne <- personne
  maxJoueur = 3
  FILE_ECOUTE = 3
  Pannes = 1
INVARIANTS TypeOK LancementVoulu InscritsFideles UnSeulOublie
PROPERTIES SalleComplete PseudoRepondu
