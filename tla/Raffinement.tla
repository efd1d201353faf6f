---------------------------- MODULE Raffinement ----------------------------
(***************************************************************************)
(* The game of module Partie as an implementation of BatailleRoyale.  The  *)
(* boats and the grid are those of the server, what a player has been told *)
(* is the state its own program keeps.                                     *)
(***************************************************************************)
EXTENDS Partie

\* The server stands between the reply of client idx and the next player, or,
\* in phase etat_ack, waits for a client that has not read its verdict yet.
Instruit == phase = "etat_ack" /\ s2c[idx] = <<>>

\* The last player has just learnt its fate.
TourFini == Instruit /\ idx = nbJoueur - 1

etapeAbs ==
  CASE phase \in {"infos", "infos_ack", "bateaux", "poll"}               -> "placement"
    [] phase \in {"pause", "plateau", "plateau_ack", "go", "go_ack", "tir"} \/ TourFini
                                                                         -> "tirs"
    [] OTHER                                                             -> "annonce"

\* Players the server has not come to: in the placement those without a boat.
restantsAbs ==
  CASE etapeAbs = "placement"                          -> {i \in Joueurs : bateaux[i].taille = 0}
    [] phase \in {"tir", "etat", "etat_ack"} /\ ~TourFini
                                -> {i \in Joueurs : i > idx \/ (i = idx /\ ~Instruit)}
    [] OTHER                                           -> Joueurs

flotteAbs == [i \in Joueurs |-> {bateaux[i].cell[j].pos : j \in {k \in Segment : k < bateaux[i].taille}}]

Bataille == INSTANCE BatailleRoyale WITH
  Bateaux  <- {{Position(p[1], p[2], p[3], j) : j \in Segment} : p \in Placements},
  etape    <- etapeAbs,
  restants <- restantsAbs,
  flotte   <- flotteAbs,
  grille   <- cell,
  annonce  <- cetat

\* Two programs per player, their messages and the two records of the boats
\* together play the abstract game: every shot is one of a player that takes
\* part, counts once, and what a client tells its player is what the grid says.
Raffine == Bataille!Spec
=============================================================================
