----------------------------- MODULE Transport -----------------------------
(***************************************************************************)
(* What one call of recevoir (lib/data.c) takes from a TCP connection, as  *)
(* the programs that use it see it: a queue of whole messages.  Module     *)
(* Flux shows the byte stream and the buffer behind this operator.         *)
(***************************************************************************)
EXTENDS Integers, Sequences

CONSTANT Fusion  \* whether one read may take several messages

ASSUME FusionAssumption == Fusion \in BOOLEAN

\* Results of recevoir on a queue q of a connection in state c: the message
\* parsed and the queue left.  A read may take several messages and keep the
\* first of them only.  With an empty queue the call blocks, unless the peer
\* has closed: then it returns at once and parses what the buffer held.
Lecture(q, c, residus) ==
  IF q # <<>>
  THEN {[m |-> Head(q), reste |-> SubSeq(q, n + 1, Len(q))] :
          n \in IF Fusion THEN 1 .. Len(q) ELSE {1}}
  ELSE IF c = "ouverte" THEN {} ELSE {[m |-> m, reste |-> <<>>] : m \in residus}
=============================================================================
