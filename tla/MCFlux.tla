------------------------------- MODULE MCFlux -------------------------------
(***************************************************************************)
(* Values for the constants of Flux: texts of which one is the beginning   *)
(* of another and one is the end of another, so that a mixture shows.      *)
(***************************************************************************)
EXTENDS Flux

Trois  == {"ok", "coup", "plateau"}
Textes == [ok |-> <<1>>, coup |-> <<2, 3>>, plateau |-> <<1, 2, 3>>]

\* Anything that the bytes of the texts can make.
Tout == [1 .. MAX_BUFFER -> 0 .. 3]
=============================================================================
