------------------------------ MODULE Plateau ------------------------------
(***************************************************************************)
(* The board of the server (board_t in include/serveur.h) and the          *)
(* operations that change or read it: placing a boat, applying a shot,     *)
(* deciding the verdict of a round, and the text form in which the board   *)
(* travels to a client and is decoded there.  Pure operators: the state    *)
(* they are applied to belongs to module Partie.                           *)
(*                                                                         *)
(* The board keeps every boat twice: as statuses of the cells of the grid  *)
(* (cell) and as a list of cells with their own status (bateaux).          *)
(***************************************************************************)
EXTENDS Integers, FiniteSets, Sequences

CONSTANTS
  taillePlateau,  \* side of the board, game.taillePlateau
  tailleBateau,   \* length of every boat, game.tailleBateau
  nbJoueur,       \* number of players of the game
  INFOS_CLIENT    \* field width with which a client scans infos ("%99s")

(***************************************************************************)
(* What the parameter menu guarantees of a game (serveur.c, function       *)
(* menu_parametrage_game) and the test nbJoueur < 2 of the waiting room.   *)
(***************************************************************************)
ASSUME TailleAssumption ==
  /\ taillePlateau \in Nat
  /\ tailleBateau \in Nat
  /\ tailleBateau >= 2
  /\ taillePlateau >= 2 * tailleBateau

ASSUME JoueurAssumption ==
  /\ nbJoueur \in Nat
  /\ nbJoueur >= 2

ASSUME InfosAssumption == INFOS_CLIENT \in Nat

Joueurs == 0 .. nbJoueur - 1
Status == {"EMPTY", "MISSED_SHOT", "HIT_SHOT", "BOAT"}

\* What a cell of the server's grid may hold: memory that was never written
\* need not be one of the values of the enum.
Contenu == Status \cup {"AUTRE"}

Direction == {"h", "b", "g", "d"}
Coord == 0 .. taillePlateau - 1

\* A cell of the grid is <<y, x>>, in the order of the array cell[y][x].
Case == Coord \X Coord

\* Indices of the cells of one boat.
Segment == 0 .. tailleBateau - 1

\* A boat: its cells, and taille, which stays 0 until the boat is placed.
Bateau == [taille : {0, tailleBateau},
           cell   : [Segment -> [pos : Case, status : Status]]]

SansBateau ==
  [taille |-> 0,
   cell   |-> [j \in Segment |-> [pos |-> <<0, 0>>, status |-> "EMPTY"]]]

----------------------------------------------------------------------------
(***************************************************************************)
(* Placing a boat: function placer_bateau.                                 *)
(***************************************************************************)

\* The i-th cell of a boat anchored at (x, y) and laid towards direction d.
Position(x, y, d, i) ==
  CASE d = "h" -> <<y - i, x>>
    [] d = "b" -> <<y + i, x>>
    [] d = "g" -> <<y, x - i>>
    [] d = "d" -> <<y, x + i>>

\* The boat record written by placer_bateau.
BateauPlace(x, y, d) ==
  [taille |-> tailleBateau,
   cell   |-> [i \in Segment |->
                 [pos |-> Position(x, y, d, i), status |-> "BOAT"]]]

\* The grid after placer_bateau.
CasesPlacees(cell, x, y, d) ==
  [c \in Case |-> IF \E i \in Segment : c = Position(x, y, d, i)
                  THEN "BOAT" ELSE cell[c]]

----------------------------------------------------------------------------
(***************************************************************************)
(* A shot: the body of recevoir_tir and function tirer_bateau.             *)
(***************************************************************************)

\* Mutant: the branch for a cell already hit is missing.
ToucheEfface(s) == IF s = "BOAT" THEN "HIT_SHOT" ELSE "MISSED_SHOT"

\* Status of a cell after a shot at it.
Touche(s) ==
  CASE s = "BOAT"     -> "HIT_SHOT"
    [] s = "HIT_SHOT" -> "HIT_SHOT"
    [] OTHER          -> "MISSED_SHOT"

\* Mutant: a shot reaches the cells of the first boat only.
TirerPremierBateau(bateaux, c, nb) ==
  [b \in DOMAIN bateaux |->
     [taille |-> bateaux[b].taille,
      cell   |-> [j \in Segment |->
        [pos    |-> bateaux[b].cell[j].pos,
         status |-> IF b = 0 /\ bateaux[b].cell[j].pos = c
                    THEN "HIT_SHOT" ELSE bateaux[b].cell[j].status]]]]

\* tirer_bateau: every cell at position c of each of the nb boats is hit.
TirerBateau(bateaux, c, nb) ==
  [b \in DOMAIN bateaux |->
     [taille |-> bateaux[b].taille,
      cell   |-> [j \in Segment |->
        [pos    |-> bateaux[b].cell[j].pos,
         status |-> IF b < nb /\ j < bateaux[b].taille /\ bateaux[b].cell[j].pos = c
                    THEN "HIT_SHOT" ELSE bateaux[b].cell[j].status]]]]

----------------------------------------------------------------------------
(***************************************************************************)
(* The verdict of a round: function verifier_fin_partie.                   *)
(***************************************************************************)

\* All cells of boat b are hit (the counting loop, over tailleBateau cells).
Coule(bateaux, b) == \A j \in Segment : bateaux[b].cell[j].status = "HIT_SHOT"

\* nbBateauCoule
NbCoules(bateaux, nb) == Cardinality({b \in 0 .. nb - 1 : Coule(bateaux, b)})

\* Player i has a cell that is not hit (the loops over bateaux[i].taille).
EnVie(bateaux, i) ==
  \E j \in Segment : /\ j < bateaux[i].taille
                     /\ bateaux[i].cell[j].status # "HIT_SHOT"

\* flag: the last player whose boat is not entirely hit, or -1.
Survivant(bateaux) ==
  LET vivants == {i \in Joueurs : EnVie(bateaux, i)}
  IN  IF vivants = {} THEN -1
      ELSE CHOOSE i \in vivants : \A j \in vivants : j <= i

\* Mutant: the winner is looked for among all players but the last one.
VerdictDecale(bateaux, nb, i) ==
  CASE NbCoules(bateaux, nb) = nb     -> 9
    [] NbCoules(bateaux, nb) = nb - 1 -> IF Survivant(bateaux) = i + 1 THEN 10 ELSE 9
    [] OTHER                          -> IF EnVie(bateaux, i) THEN 7 ELSE 8

\* The id sent to player i: 7 continue, 8 stop (sunk), 9 lost, 10 won.
Verdict(bateaux, nb, i) ==
  CASE NbCoules(bateaux, nb) = nb     -> 9
    [] NbCoules(bateaux, nb) = nb - 1 -> IF Survivant(bateaux) = i THEN 10 ELSE 9
    [] OTHER                          -> IF EnVie(bateaux, i) THEN 7 ELSE 8

----------------------------------------------------------------------------
(***************************************************************************)
(* The board as text: envoyer_plateau, decode_plateau.                     *)
(***************************************************************************)

\* The digit that stands for a cell; the position of a boat is not revealed.
Chiffre(s) == CASE s = "MISSED_SHOT" -> 1
                [] s = "HIT_SHOT"    -> 2
                [] OTHER             -> 0

\* The p-th cell in the order of the loops, cell[j][i] with p - 1 equal to
\* i * taillePlateau + j.
Parcourue(cell, p) == cell[<<(p - 1) % taillePlateau, (p - 1) \div taillePlateau>>]

\* The cells for which the switch has no case: they add nothing to the text,
\* and what is behind them moves up.
Muettes(cell) == {p \in 1 .. taillePlateau * taillePlateau : Parcourue(cell, p) \notin Status}

\* The digits, in that order.
EncoderPlateau(cell) ==
  LET nbCases == taillePlateau * taillePlateau
      muettes == Muettes(cell)
      rang(p) == p - Cardinality({q \in muettes : q <= p})
  IN  [k \in 1 .. nbCases - Cardinality(muettes) |->
         Chiffre(Parcourue(cell, CHOOSE p \in (1 .. nbCases) \ muettes : rang(p) = k))]

\* Status of a decoded digit.
Lu(n) == CASE n = 1 -> "MISSED_SHOT"
           [] n = 2 -> "HIT_SHOT"
           [] n = 3 -> "BOAT"
           [] OTHER -> "EMPTY"

\* How many characters of infos unserial_req keeps.
Gardes(infos) == IF Len(infos) <= INFOS_CLIENT THEN Len(infos) ELSE INFOS_CLIENT

\* The status read for the k-th character of infos.  Behind the characters
\* kept there is a terminating 0, which reads as an empty cell (none if there
\* was no character to convert); what follows is memory that was never
\* written, and reste is the status it decodes to.
StatusLu(infos, k, reste) ==
  CASE k <= Gardes(infos)                            -> Lu(infos[k])
    [] k = Gardes(infos) + 1 /\ Gardes(infos) > 0    -> "EMPTY"
    [] OTHER                                         -> reste

\* Mutant: rows and columns exchanged by the decoder.
DecoderTranspose(infos, bateau, reste) ==
  [c \in Case |->
     LET s == StatusLu(infos, c[1] * taillePlateau + c[2] + 1, reste)
     IN  IF s = "EMPTY" /\ \E j \in Segment : bateau[j] = c THEN "BOAT" ELSE s]

\* decode_plateau: the grid a client shows, its own boat drawn over the
\* cells that read as empty.
DecoderPlateau(infos, bateau, reste) ==
  [c \in Case |->
     LET s == StatusLu(infos, c[2] * taillePlateau + c[1] + 1, reste)
     IN  IF s = "EMPTY" /\ \E j \in Segment : bateau[j] = c THEN "BOAT" ELSE s]
============================================================================
