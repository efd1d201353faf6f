----------------------------- MODULE MCAttente -----------------------------
(***************************************************************************)
(* Values for the constants of Attente.                                    *)
(***************************************************************************)
EXTENDS Attente

CONSTANTS c1, c2, c3, c4, personne

DeuxClients   == {c1, c2}
QuatreClients == {c1, c2, c3, c4}
=============================================================================
