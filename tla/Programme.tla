----------------------------- MODULE Programme -----------------------------
(***************************************************************************)
(* The life of the server's process: the home screen (menu_accueil), the   *)
(* parameter menu, and what Enter starts there -- attente_joueur, which    *)
(* creates the listening socket and calls lancement_partie.  All of it is  *)
(* one thread of nested calls: ecran says in which function it is.         *)
(*                                                                         *)
(* Of the waiting room (module Attente) and the game (module Partie) only  *)
(* what outlives them is kept: the sockets that accept returned.  The      *)
(* server never closes them.  Each holds the port until its client resets  *)
(* the connection (tenues), and a descriptor until the process ends        *)
(* (ouvertes).                                                             *)
(***************************************************************************)
EXTENDS Parametrage

CONSTANT MAX_FD  \* descriptors the process may have for sockets

ASSUME MaxFdAssumption == MAX_FD \in Nat \ {0}

VARIABLES
  ecran,      \* "accueil", "parametrage", "adresse", "attente", "partie", "fin"
  choix,      \* choix of menu_accueil: 0 set up a game, 1 quit
  tenues,     \* accepted sockets that hold port 5000
  ouvertes    \* accepted sockets that are open: their descriptors

menu == <<parametre, maxJoueur, taillePlateau, tailleBateau, timeout, affchageBateau>>
sockets == <<tenues, ouvertes>>
varsProgramme == <<menu, ecran, choix, sockets>>

----------------------------------------------------------------------------

\* menu_accueil, arrow keys
AccueilFleche ==
  /\ ecran = "accueil"
  /\ choix' = 1 - choix
  /\ UNCHANGED <<menu, ecran, sockets>>

\* menu_accueil, Enter on the first line: menu_parametrage_game begins with
\* the parameters of init_game.
AccueilParametrer ==
  /\ ecran = "accueil" /\ choix = 0
  /\ ecran' = "parametrage"
  /\ InitGame(parametre', maxJoueur', taillePlateau', tailleBateau', timeout',
              affchageBateau')
  /\ UNCHANGED <<choix, sockets>>

\* menu_accueil, Enter on the second line: exit
AccueilQuitter ==
  /\ ecran = "accueil" /\ choix = 1
  /\ ecran' = "fin"
  /\ UNCHANGED <<menu, choix, sockets>>

\* menu_parametrage_game, the keys that set a parameter
Parametrer ==
  /\ ecran = "parametrage"
  /\ Next
  /\ UNCHANGED <<ecran, choix, sockets>>

\* menu_parametrage_game, 'q'
ParametrageQuitter ==
  /\ ecran = "parametrage"
  /\ ecran' = "accueil"
  /\ UNCHANGED <<menu, choix, sockets>>

\* Mutant: bind succeeds on a port that is held (SO_REUSEADDR).
EntreeReutilise ==
  /\ ecran = "parametrage"
  /\ ecran' = "adresse"
  /\ UNCHANGED <<menu, choix, sockets>>

\* menu_parametrage_game, Enter: attente_joueur begins with
\* creerSocketEcoute.  A port that is held makes bind fail, and CHECK exits.
ParametrageEntree ==
  /\ ecran = "parametrage"
  /\ ecran' = IF tenues = 0 THEN "adresse" ELSE "fin"
  /\ UNCHANGED <<menu, choix, sockets>>

\* attente_joueur: the address is shown, and the room opens with a key.
AdresseVue ==
  /\ ecran = "adresse"
  /\ ecran' = "attente"
  /\ UNCHANGED <<menu, choix, sockets>>

\* Connections that attente_joueur has taken when it launches n players: one
\* for each and, in a room that is not full, that of the client whose arrival
\* made accept return (LancementVoulu and UnSeulOublie of module Attente).
Acceptees(n) == IF n < maxJoueur THEN n + 1 ELSE n

\* The end of the waiting room: the listening socket, which had a descriptor
\* of its own, is closed; those of the connections taken are not.  Without a
\* descriptor left accept returns -1, which the loop takes for a socket: it
\* parses an unset buffer, may count a player, and goes on.
LancementPartie ==
  /\ ecran = "attente"
  /\ ecran' = "partie"
  /\ \E n \in 2 .. maxJoueur :
       LET libres == MAX_FD - 1 - ouvertes
           prises == IF Acceptees(n) <= libres THEN Acceptees(n) ELSE libres
       IN  tenues' = tenues + prises /\ ouvertes' = ouvertes + prises
  /\ UNCHANGED <<menu, choix>>

\* lancement_partie returns (its loop ends only when all the boats that were
\* left are sunk in one round), and attente_joueur with it.
Retour ==
  /\ ecran = "partie"
  /\ ecran' = "parametrage"
  /\ UNCHANGED <<menu, choix, sockets>>

\* A write to a client that has gone kills the process (EcritureFatale of the
\* modules Attente and Partie).
Tue ==
  /\ ecran \in {"attente", "partie"}
  /\ ecran' = "fin"
  /\ UNCHANGED <<menu, choix, sockets>>

\* A client that dies with something unread resets its connection: the socket
\* stays open but lets go of the port.  A client that closes in order does not
\* do that: its socket waits for a close that never comes.
Reinitialisation ==
  /\ ecran \in {"accueil", "parametrage", "partie"}
  /\ tenues > 0
  /\ tenues' = tenues - 1
  /\ UNCHANGED <<menu, ecran, choix, ouvertes>>

InitProgramme ==
  /\ ecran = "accueil" /\ choix = 0 /\ tenues = 0 /\ ouvertes = 0
  /\ Init

Fin == ecran = "fin" /\ UNCHANGED varsProgramme

NextProgramme ==
  \/ AccueilFleche \/ AccueilParametrer \/ AccueilQuitter
  \/ Parametrer \/ ParametrageQuitter \/ ParametrageEntree
  \/ AdresseVue
  \/ LancementPartie \/ Retour \/ Tue \/ Reinitialisation
  \/ Fin

SpecProgramme == InitProgramme /\ [][NextProgramme]_varsProgramme

----------------------------------------------------------------------------

\* The types of the variables.  The sockets that hold the port are those of
\* one game at most, because bind fails while one is left; the descriptors add
\* up from game to game, and one always remains for the listening socket.
TypeProgramme ==
  /\ TypeOK
  /\ ecran \in {"accueil", "parametrage", "adresse", "attente", "partie", "fin"}
  /\ choix \in {0, 1}
  /\ tenues \in 0 .. MAX_PLAYER
  /\ ouvertes \in 0 .. MAX_FD - 1
  /\ tenues <= ouvertes

\* serveur.c:259 "Lancement de l'attente des personnes" (the key Enter of the
\* parameter menu), and session.c:62 of creerSocketEcoute "socket créée avec
\* l'adressage fourni en paramètre et dans un état d'écoute": Enter opens a
\* waiting room, also when a game has been played before.
EntreeOuvreSalle ==
  [][ecran = "parametrage" => ecran' \in {"parametrage", "accueil", "adresse"}]_varsProgramme
=============================================================================
