---------------------------- MODULE Parametrage ----------------------------
(***************************************************************************)
(* The parameter menu of the server, menu_parametrage_game.  The fields of *)
(* game_t that it sets are the sizes every other part relies on: the loops *)
(* of both programs and the fixed arrays of board_t and bateau_t.          *)
(* Enter hands a copy of the fields to attente_joueur; what becomes of the *)
(* process then is in module Programme.                                    *)
(***************************************************************************)
EXTENDS Integers

CONSTANTS
  MAX_PLAYER, MAX_BOARD_SIZE, MAX_BOAT_SIZE,  \* include/serveur.h
  TIMEOUT_MAX    \* bound of the model on timeout, which the menu lets grow

ASSUME LimitesAssumption ==
  /\ MAX_PLAYER \in Nat /\ MAX_PLAYER >= 2
  /\ MAX_BOAT_SIZE \in Nat /\ MAX_BOAT_SIZE >= 5
  /\ MAX_BOARD_SIZE \in Nat /\ MAX_BOARD_SIZE >= 11
  /\ MAX_BOARD_SIZE >= 2 * MAX_BOAT_SIZE
  /\ TIMEOUT_MAX \in Nat /\ TIMEOUT_MAX >= 15

VARIABLES parametre, maxJoueur, taillePlateau, tailleBateau, timeout, affchageBateau

vars == <<parametre, maxJoueur, taillePlateau, tailleBateau, timeout, affchageBateau>>

\* The cursor p of the menu and what init_game sets in game_t: players, sides,
\* seconds, whether the boats are drawn.
InitGame(p, joueurs, plateau, bateau, secondes, affichage) ==
  /\ p = 0
  /\ joueurs = 2
  /\ plateau = 11
  /\ bateau = 5
  /\ secondes = 15
  /\ affichage = TRUE

Init == InitGame(parametre, maxJoueur, taillePlateau, tailleBateau, timeout, affchageBateau)

\* KEY_UP, KEY_DOWN
Naviguer ==
  /\ \/ parametre > 0 /\ parametre' = parametre - 1
     \/ parametre < 4 /\ parametre' = parametre + 1
  /\ UNCHANGED <<maxJoueur, taillePlateau, tailleBateau, timeout, affchageBateau>>

\* Mutant: the upper bound is passed by one.
ReglerJoueursTrop ==
  /\ parametre = 0
  /\ \/ maxJoueur > 2 /\ maxJoueur' = maxJoueur - 1
     \/ maxJoueur <= MAX_PLAYER /\ maxJoueur' = maxJoueur + 1
  /\ UNCHANGED <<parametre, taillePlateau, tailleBateau, timeout, affchageBateau>>

\* Parameter 0
ReglerJoueurs ==
  /\ parametre = 0
  /\ \/ maxJoueur > 2 /\ maxJoueur' = maxJoueur - 1
     \/ maxJoueur < MAX_PLAYER /\ maxJoueur' = maxJoueur + 1
  /\ UNCHANGED <<parametre, taillePlateau, tailleBateau, timeout, affchageBateau>>

\* Mutant: the boats keep their length when the board shrinks.
BateauInchange(t) == tailleBateau

\* The length of the boats on a board of side t.
BateauAjuste(t) == IF t < 2 * tailleBateau THEN t \div 2 ELSE tailleBateau

\* Parameter 1, KEY_LEFT and KEY_RIGHT: the boats are adjusted in every case.
ReglerPlateau ==
  /\ parametre = 1
  /\ \/ taillePlateau' = IF taillePlateau > 4 THEN taillePlateau - 1 ELSE taillePlateau
     \/ taillePlateau' = IF taillePlateau < MAX_BOARD_SIZE THEN taillePlateau + 1
                                                           ELSE taillePlateau
  /\ tailleBateau' = BateauAjuste(taillePlateau')
  /\ UNCHANGED <<parametre, maxJoueur, timeout, affchageBateau>>

\* Parameter 2: a longer boat may enlarge the board.
ReglerBateau ==
  /\ parametre = 2
  /\ \/ /\ tailleBateau > 2
        /\ tailleBateau' = tailleBateau - 1
        /\ UNCHANGED taillePlateau
     \/ /\ tailleBateau < MAX_BOAT_SIZE
        /\ tailleBateau' = tailleBateau + 1
        /\ taillePlateau' = IF taillePlateau < 2 * tailleBateau'
                            THEN 2 * tailleBateau' ELSE taillePlateau
  /\ UNCHANGED <<parametre, maxJoueur, timeout, affchageBateau>>

\* Parameter 3
ReglerTimeout ==
  /\ parametre = 3
  /\ \/ timeout > 5 /\ timeout' = timeout - 1
     \/ timeout < TIMEOUT_MAX /\ timeout' = timeout + 1
  /\ UNCHANGED <<parametre, maxJoueur, taillePlateau, tailleBateau, affchageBateau>>

\* Parameter 4, either key
ReglerAffichage ==
  /\ parametre = 4
  /\ affchageBateau' = ~affchageBateau
  /\ UNCHANGED <<parametre, maxJoueur, taillePlateau, tailleBateau, timeout>>

Next == \/ Naviguer \/ ReglerJoueurs \/ ReglerPlateau \/ ReglerBateau
        \/ ReglerTimeout \/ ReglerAffichage

Spec == Init /\ [][Next]_vars

----------------------------------------------------------------------------

\* The ranges of the fields: the sizes fit the arrays players, cell of
\* board_t and cell of bateau_t.
TypeOK ==
  /\ parametre \in 0 .. 4
  /\ maxJoueur \in 2 .. MAX_PLAYER
  /\ taillePlateau \in 4 .. MAX_BOARD_SIZE
  /\ tailleBateau \in 2 .. MAX_BOAT_SIZE
  /\ timeout \in 5 .. TIMEOUT_MAX
  /\ affchageBateau \in BOOLEAN

\* Whatever keys are typed, a boat fits twice in a line of the board: what
\* makes the placement screen of the clients right (TailleAssumption of
\* module Plateau).
BateauTient == taillePlateau >= 2 * tailleBateau
=============================================================================
