----------------------------- MODULE Placement -----------------------------
(***************************************************************************)
(* The two screens with which a client's player places the boat:           *)
(* choix_bateau (the cursor) and menu_placer_bateau (the direction), with  *)
(* afficher_plateau_placer_bateau, which turns a boat that does not fit.   *)
(* What these screens send is what module Partie calls Placements.         *)
(***************************************************************************)
EXTENDS Plateau

VARIABLES
  ecran,          \* "choix", "placer", "attente" of the reply, "fini"
  cursor_x, cursor_y,
  direction,
  bateau,         \* game.bateau: the cells the client will draw
  envoye          \* the last boat sent, <<>> before

vars == <<ecran, cursor_x, cursor_y, direction, bateau, envoye>>

\* Mutant: one column too many is allowed towards the bottom.
RetournerTropTard(x, y, d) ==
  CASE d = "h" -> IF y >= tailleBateau - 1 THEN "h" ELSE "b"
    [] d = "b" -> IF y <= taillePlateau - tailleBateau + 1 THEN "b" ELSE "h"
    [] d = "g" -> IF x >= tailleBateau - 1 THEN "g" ELSE "d"
    [] d = "d" -> IF x <= taillePlateau - tailleBateau THEN "d" ELSE "g"

\* The direction after afficher_plateau_placer_bateau.
Retourner(x, y, d) ==
  CASE d = "h" -> IF y >= tailleBateau - 1 THEN "h" ELSE "b"
    [] d = "b" -> IF y <= taillePlateau - tailleBateau THEN "b" ELSE "h"
    [] d = "g" -> IF x >= tailleBateau - 1 THEN "g" ELSE "d"
    [] d = "d" -> IF x <= taillePlateau - tailleBateau THEN "d" ELSE "g"

\* Mutant: the cursor leaves the board to the right.
DeplacerTrop ==
  /\ ecran = "choix"
  /\ cursor_x < taillePlateau
  /\ cursor_x' = cursor_x + 1
  /\ UNCHANGED <<ecran, cursor_y, direction, bateau, envoye>>

\* choix_bateau, arrow keys
Deplacer ==
  /\ ecran = "choix"
  /\ \/ cursor_y > 0 /\ cursor_y' = cursor_y - 1 /\ UNCHANGED cursor_x
     \/ cursor_y < taillePlateau - 1 /\ cursor_y' = cursor_y + 1 /\ UNCHANGED cursor_x
     \/ cursor_x > 0 /\ cursor_x' = cursor_x - 1 /\ UNCHANGED cursor_y
     \/ cursor_x < taillePlateau - 1 /\ cursor_x' = cursor_x + 1 /\ UNCHANGED cursor_y
  /\ UNCHANGED <<ecran, direction, bateau, envoye>>

\* choix_bateau, Enter; menu_placer_bateau starts with direction 'd'
Ouvrir ==
  /\ ecran = "choix"
  /\ ecran' = "placer"
  /\ direction' = Retourner(cursor_x, cursor_y, "d")
  /\ UNCHANGED <<cursor_x, cursor_y, bateau, envoye>>

\* menu_placer_bateau, an arrow key (or, with d = direction, any other key)
Orienter ==
  /\ ecran = "placer"
  /\ \E d \in Direction : direction' = Retourner(cursor_x, cursor_y, d)
  /\ UNCHANGED <<ecran, cursor_x, cursor_y, bateau, envoye>>

\* menu_placer_bateau, 'q'
Annuler ==
  /\ ecran = "placer"
  /\ ecran' = "choix"
  /\ direction' = Retourner(cursor_x, cursor_y, direction)
  /\ UNCHANGED <<cursor_x, cursor_y, bateau, envoye>>

\* Mutant: an upright boat is stored from its other end.
ValiderRetourne ==
  /\ ecran = "placer"
  /\ ecran' = "attente"
  /\ bateau' = [j \in Segment |->
       Position(cursor_x, cursor_y, IF direction = "h" THEN "b" ELSE direction, j)]
  /\ envoye' = <<cursor_x, cursor_y, direction>>
  /\ UNCHANGED <<cursor_x, cursor_y, direction>>

\* menu_placer_bateau, Enter: the boat is stored and sent.
Valider ==
  /\ ecran = "placer"
  /\ ecran' = "attente"
  /\ bateau' = [j \in Segment |-> Position(cursor_x, cursor_y, direction, j)]
  /\ envoye' = <<cursor_x, cursor_y, direction>>
  /\ UNCHANGED <<cursor_x, cursor_y, direction>>

\* The reply: accepted, or an error after which the screen is drawn again.
Reponse ==
  /\ ecran = "attente"
  /\ \/ ecran' = "fini" /\ UNCHANGED direction
     \/ ecran' = "placer" /\ direction' = Retourner(cursor_x, cursor_y, direction)
  /\ UNCHANGED <<cursor_x, cursor_y, bateau, envoye>>

\* game is a global of the client: its boat starts with zeroes.  direction is
\* a local of menu_placer_bateau, set when the screen opens.
Init ==
  /\ ecran = "choix"
  /\ cursor_x = 0 /\ cursor_y = 0
  /\ direction = "d"
  /\ bateau = [j \in Segment |-> <<0, 0>>]
  /\ envoye = <<>>

Fini == ecran = "fini" /\ UNCHANGED vars

Next == Deplacer \/ Ouvrir \/ Orienter \/ Annuler \/ Valider \/ Reponse \/ Fini

Spec == Init /\ [][Next]_vars

----------------------------------------------------------------------------

\* The types of the variables; the cursor stays on the board.
TypeOK ==
  /\ ecran \in {"choix", "placer", "attente", "fini"}
  /\ cursor_x \in Coord /\ cursor_y \in Coord
  /\ direction \in Direction
  /\ bateau \in [Segment -> Case]
  /\ envoye \in {<<>>} \cup (Coord \X Coord \X Direction)

\* The boat that the screen shows, and that Enter will send, lies inside the
\* board: turning it round once is enough wherever the cursor is.
DansPlateau ==
  ecran \in {"placer", "attente"} =>
    \A i \in Segment : Position(cursor_x, cursor_y, direction, i) \in Case

\* The client draws its boat on the cells where the server places it.
EnvoiFidele ==
  envoye # <<>> =>
    \A j \in Segment : /\ bateau[j] = Position(envoye[1], envoye[2], envoye[3], j)
                       /\ bateau[j] \in Case
=============================================================================
