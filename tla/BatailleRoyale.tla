--------------------------- MODULE BatailleRoyale ---------------------------
(***************************************************************************)
(* What a game promises its players, without messages, programs or boards  *)
(* kept twice: every player places a boat; then, round after round, every  *)
(* player that takes part fires one shot, and when all have fired every    *)
(* player is told its fate, which the grid alone decides.  Within a round  *)
(* the players may be served in any order.                                 *)
(***************************************************************************)
EXTENDS FiniteSets

CONSTANTS
  Joueurs,   \* players
  Case,      \* cells of the board
  Tirs,      \* cells that may be aimed at
  Bateaux    \* boats that may be placed: sets of cells

VARIABLES
  etape,     \* "placement", "tirs" or "annonce"
  restants,  \* players still to be served in this step
  flotte,    \* the boat of each player, {} before it is placed
  grille,    \* status of the cells
  annonce    \* what each player has last been told

vars == <<etape, restants, flotte, grille, annonce>>

Fins == {"FIN_WIN", "FIN_LOSE"}

\* Everybody knows how the game has ended.
Finie == \A i \in Joueurs : annonce[i] \in Fins

\* Players with a cell that is not hit.
AFlot == {i \in Joueurs : \E c \in flotte[i] : grille[c] # "HIT_SHOT"}

\* The fate of player i by the grid.
Sort(i) ==
  CASE AFlot = {}                           -> "FIN_LOSE"
    [] \E k \in AFlot : AFlot = {k}         -> IF i \in AFlot THEN "FIN_WIN" ELSE "FIN_LOSE"
    [] OTHER                                -> IF i \in AFlot THEN "EN_JEU" ELSE "DEAD"

\* Player i has been served; after the last one the step suite begins.
Servir(i, suite) ==
  /\ i \in restants
  /\ IF restants = {i} THEN etape' = suite /\ restants' = Joueurs
                       ELSE etape' = etape /\ restants' = restants \ {i}

Placer(i) ==
  /\ etape = "placement"
  /\ Servir(i, "tirs")
  /\ \E b \in Bateaux :
       /\ flotte' = [flotte EXCEPT ![i] = b]
       /\ grille' = [c \in Case |-> IF c \in b THEN "BOAT" ELSE grille[c]]
  /\ UNCHANGED annonce

\* One shot per round and player in play, at any cell, shot at before or not.
Tirer(i) ==
  /\ etape = "tirs" /\ ~Finie
  /\ Servir(i, "annonce")
  /\ IF annonce[i] = "EN_JEU"
     THEN \E c \in Tirs :
            grille' = [grille EXCEPT ![c] = IF @ \in {"BOAT", "HIT_SHOT"} THEN "HIT_SHOT"
                                                                          ELSE "MISSED_SHOT"]
     ELSE UNCHANGED grille
  /\ UNCHANGED <<flotte, annonce>>

Annoncer(i) ==
  /\ etape = "annonce" /\ ~Finie
  /\ Servir(i, "tirs")
  /\ annonce' = [annonce EXCEPT ![i] = Sort(i)]
  /\ UNCHANGED <<flotte, grille>>

\* Once the end is known to all, nothing is promised of the board; what the
\* players know does not change any more.
Apres ==
  /\ Finie
  /\ UNCHANGED <<flotte, annonce>>

Init ==
  /\ etape = "placement"
  /\ restants = Joueurs
  /\ flotte  = [i \in Joueurs |-> {}]
  /\ grille  = [c \in Case |-> "EMPTY"]
  /\ annonce = [i \in Joueurs |-> "EN_JEU"]

Next == \/ \E i \in Joueurs : Placer(i) \/ Tirer(i) \/ Annoncer(i)
        \/ Apres

Spec == Init /\ [][Next]_vars

----------------------------------------------------------------------------

\* Of two players at most one is ever told that it has won.
UnSeulVainqueur ==
  \A i, j \in Joueurs : annonce[i] = "FIN_WIN" /\ annonce[j] = "FIN_WIN" => i = j

\* A player that was told it is out never takes part again, and never wins:
\* nobody that is "DEAD" becomes "EN_JEU" or "FIN_WIN", and an end is an end.
SansRetour ==
  [][\A i \in Joueurs :
       /\ annonce[i] = "DEAD" => annonce'[i] \in {"DEAD", "FIN_LOSE"}
       /\ annonce[i] \in Fins => annonce'[i] = annonce[i]]_vars
=============================================================================
