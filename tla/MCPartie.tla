------------------------------ MODULE MCPartie ------------------------------
(***************************************************************************)
(* Values for the constants of Partie: small boards on which boats can     *)
(* overlap, meet the edge, and be missed.                                  *)
(***************************************************************************)
EXTENDS Raffinement

\* Boats of two cells.  (0,0)d and (1,0)b overlap at (1,0); the last one is
\* anchored in the corner of a 4 x 4 board and laid backwards.
PlacementsPetits == {<<0, 0, "d">>, <<1, 0, "b">>, <<3, 3, "g">>}
DeuxPlacements   == {<<0, 0, "d">>, <<1, 0, "b">>}

\* The shared cell, the two cells around it, one of the corner boat.
TirsPetits == {<<0, 0>>, <<0, 1>>, <<1, 1>>, <<3, 3>>}
TroisTirs  == {<<0, 0>>, <<0, 1>>, <<1, 1>>}
DeuxTirs   == {<<0, 1>>, <<1, 1>>}

\* On the board of the default sizes: boats in opposite corners, shots at the
\* first character of the text and at one behind its 99th.
PlacementsDefaut == {<<0, 0, "b">>, <<10, 10, "g">>}
TirsDefaut       == {<<0, 0>>, <<5, 9>>}

Zero      == {0}
ZeroOuUn  == {0, 1}

\* Memory that happens to be clean, and memory that is not: a grid with a hit
\* and a boat, and in one cell what the enum does not name; a boat nobody has
\* placed, half of it hit.
GrilleVide == {[c \in Case |-> "EMPTY"]}
GrilleUsee == {[c \in Case |-> CASE c = <<1, 1>> -> "HIT_SHOT"
                                [] c = <<2, 0>> -> "BOAT"
                                [] OTHER        -> "EMPTY"]}
GrilleSale == {[g EXCEPT ![<<1, 1>>] = "AUTRE"] : g \in GrilleUsee}
ListeVide == {SansBateau}
Epave     == [taille |-> tailleBateau,
              cell   |-> [j \in Segment |->
                            [pos |-> <<1, j>>, status |-> IF j = 0 THEN "HIT_SHOT" ELSE "BOAT"]]]
ListeUsee == {Epave}
ListeSale == {SansBateau, Epave}

\* Ids of the slots beyond the players: a player's, one behind the players,
\* and one outside the list of boats.
IdsQuelconques == {1, nbJoueur, MAX_BATEAUX}
IdJoueur == {1}
=============================================================================
