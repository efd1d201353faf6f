------------------------------- MODULE Canal -------------------------------
(***************************************************************************)
(* What recevoir and recevoir_non_block (lib/data.c) promise the two       *)
(* programs about one direction of a connection.  A call whose read begins *)
(* with a message and takes all of it returns this message, and may        *)
(* swallow what lies behind it; a read that begins or ends inside the      *)
(* first message may return anything, and so may one at the end of the     *)
(* stream.                                                                 *)
(***************************************************************************)
EXTENDS Transport

CONSTANTS
  Messages,      \* what either side may write
  Rien,          \* result -1 of recevoir_non_block
  Melange        \* a text nobody wrote

VARIABLES
  file,     \* messages written and not read to their end
  entame,   \* whether a part of the first of them was read
  etat,     \* "ouverte", or "fermee" by the writer
  recu      \* result of the reader's last call

vars == <<file, entame, etat, recu>>

Resultats == Messages \cup {Melange}

Init == file = <<>> /\ ~entame /\ etat = "ouverte" /\ recu = Rien

\* The other side writes m.
Ecrire(m) ==
  /\ etat = "ouverte"
  /\ file' = Append(file, m)
  /\ UNCHANGED <<entame, etat, recu>>

\* The other side closes its end.
Fermer ==
  /\ etat = "ouverte"
  /\ etat' = "fermee"
  /\ UNCHANGED <<file, entame, recu>>

\* The read begins with a message, if there is one, and takes all of it.
Recevoir ==
  /\ ~entame
  /\ \E r \in Lecture(file, etat, Resultats) : recu' = r.m /\ file' = r.reste
  /\ entame' \in {FALSE, file' # <<>>}
  /\ UNCHANGED etat

\* The read begins or ends inside the first message.
RecevoirPartie ==
  /\ file # <<>>
  /\ \E n \in 0 .. Len(file) : file' = SubSeq(file, n + 1, Len(file))
  /\ entame' \in {FALSE, file' # <<>>}
  /\ entame \/ (entame' /\ file' = file)
  /\ recu' \in Resultats
  /\ UNCHANGED etat

\* recevoir_non_block with nothing to read
RecevoirRien ==
  /\ file = <<>> /\ etat = "ouverte"
  /\ recu' = Rien
  /\ UNCHANGED <<file, entame, etat>>

Entier == (\E m \in Messages : Ecrire(m)) \/ Fermer \/ Recevoir \/ RecevoirRien

Next == Entier \/ RecevoirPartie

Spec == Init /\ [][Next]_vars

\* The channel on which module Partie models the game: no message is split.
SpecEntier == Init /\ [][Entier /\ ~entame']_vars
=============================================================================
