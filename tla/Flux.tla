-------------------------------- MODULE Flux --------------------------------
(***************************************************************************)
(* The transport layer (lib/data.c, mode STREAM) as bytes: envoyer writes  *)
(* the text of a message and its NUL; a call of recevoir or                *)
(* recevoir_non_block makes one read into a buffer on the stack, which     *)
(* stores some of the bytes that have arrived, and the parser reads the    *)
(* buffer up to the first NUL.  The buffer is not initialised and each     *)
(* call has its own: it may hold anything.  One direction of one           *)
(* connection; a byte of a text is a number other than 0.                  *)
(*                                                                         *)
(* Module Canal is what the callers see of it.                             *)
(***************************************************************************)
EXTENDS Integers, SequencesExt

CONSTANTS
  Messages, Texte,  \* the text a serialiser makes of a message
  MAX_BUFFER,       \* lib/data.h
  Souvenirs,        \* what an unset buffer may hold
  Rien, Melange     \* nothing read; a text nobody wrote

ASSUME MessagesAssumption == Rien \notin Messages /\ Melange \notin Messages \cup {Rien}

ASSUME TexteAssumption ==
  /\ Texte \in [Messages -> Seq(Nat \ {0})]
  /\ \A m, n \in Messages : Texte[m] = Texte[n] => m = n

\* serialiser writes into a buffer too: a text and its NUL fit.
ASSUME TamponAssumption ==
  /\ MAX_BUFFER \in Nat
  /\ \A m \in Messages : Len(Texte[m]) + 1 <= MAX_BUFFER
  /\ Souvenirs \subseteq [1 .. MAX_BUFFER -> Nat]

VARIABLES
  file,   \* the messages under way: written, and not read to their end
  lu,     \* bytes of the first of them that were read
  pris,   \* bytes the last read has stored
  etat,   \* "ouverte", or "fermee" by the writer
  recu    \* result of the reader's last call

vars == <<file, lu, pris, etat, recu>>

----------------------------------------------------------------------------

\* Mutant: write takes strlen(buff) bytes.
EcritSansNul(m) == Texte[m]

\* The bytes envoyerMessSTREAM writes: strlen(buff) + 1.
Ecrit(m) == Append(Texte[m], 0)

\* The bytes of the messages q, one write after the other.
Ecrits(q) == FlattenSeq([i \in 1 .. Len(q) |-> Ecrit(q[i])])

\* The bytes under way.
Octets == SubSeq(Ecrits(file), lu + 1, Len(Ecrits(file)))

\* The buffer b after the bytes s were stored at its beginning.
Remplir(b, s) == [i \in 1 .. MAX_BUFFER |-> IF i <= Len(s) THEN s[i] ELSE b[i]]

\* The message a parser takes the text t for.
MessageDe(t) ==
  IF \E m \in Messages : Texte[m] = t THEN CHOOSE m \in Messages : Texte[m] = t ELSE Melange

\* What a parser may find in buffer b: the text up to the first NUL, or, where
\* there is none, one that runs on in the memory behind the buffer.
Analyses(b) ==
  LET Fin(i) == b[i] = 0 /\ \A k \in 1 .. i - 1 : b[k] # 0
  IN  IF \E i \in 1 .. MAX_BUFFER : b[i] = 0
      THEN {MessageDe(SubSeq(b, 1, i - 1)) : i \in {i \in 1 .. MAX_BUFFER : Fin(i)}}
      ELSE Messages \cup {Melange}

\* Mutant: one byte more than the buffer has.
TailleLueTrop == MAX_BUFFER + 1

\* Size of a read: sizeof(buff).
TailleLue == MAX_BUFFER

----------------------------------------------------------------------------

\* envoyer of the other side, never with more than two messages under way
\* (DeuxAuPlus of module Partie)
Ecrire(m) ==
  /\ etat = "ouverte"
  /\ Len(file) < 2
  /\ file' = Append(file, m)
  /\ UNCHANGED <<lu, pris, etat, recu>>

\* The other side closes its end.
Fermer ==
  /\ etat = "ouverte"
  /\ etat' = "fermee"
  /\ UNCHANGED <<file, lu, pris, recu>>

\* n bytes leave the stream, and with them the first k messages.
Avancer(k, n) ==
  LET debut == Len(Ecrits(SubSeq(file, 1, k)))
  IN  /\ debut <= lu + n
      /\ k < Len(file) => lu + n < debut + Len(Ecrit(file[k + 1]))
      /\ file' = SubSeq(file, k + 1, Len(file))
      /\ lu' = lu + n - debut

\* recevoir, or recevoir_non_block after select: the read stores n bytes, as
\* many as have arrived or as the buffer takes, and its result is not looked
\* at beyond its sign.
Lire(n) ==
  /\ n <= Len(Octets) /\ n <= TailleLue
  /\ \E b \in Souvenirs : recu' \in Analyses(Remplir(b, SubSeq(Octets, 1, n)))
  /\ \E k \in 0 .. Len(file) : Avancer(k, n)
  /\ pris' = n
  /\ UNCHANGED etat

\* The same at the end of the stream: read stores nothing and returns 0, which
\* recevoir does not look at and recevoir_non_block does not take for an error.
LireFin ==
  /\ file = <<>> /\ etat = "fermee"
  /\ \E b \in Souvenirs : recu' \in Analyses(b)
  /\ pris' = 0
  /\ UNCHANGED <<file, lu, etat>>

\* recevoir_non_block, select reports nothing to read: -1
RecevoirRien ==
  /\ file = <<>> /\ etat = "ouverte"
  /\ recu' = Rien
  /\ pris' = 0
  /\ UNCHANGED <<file, lu, etat>>

Init == file = <<>> /\ lu = 0 /\ pris = 0 /\ etat = "ouverte" /\ recu = Rien

Next ==
  \/ \E m \in Messages : Ecrire(m)
  \/ \E n \in 1 .. Len(Octets) : Lire(n)
  \/ Fermer \/ LireFin \/ RecevoirRien

Spec == Init /\ [][Next]_vars

----------------------------------------------------------------------------

\* The types of the variables: the reader stands at a byte of a message that
\* is under way, and no read stores more than the buffer takes.
TypeOK ==
  /\ file \in Seq(Messages) /\ Len(file) <= 2
  /\ lu \in Nat
  /\ IF file = <<>> THEN lu = 0 ELSE lu < Len(Ecrit(Head(file)))
  /\ pris \in 0 .. MAX_BUFFER
  /\ etat \in {"ouverte", "fermee"}
  /\ recu \in Messages \cup {Rien, Melange}

Vu == INSTANCE Canal WITH Fusion <- TRUE, entame <- lu # 0

\* The bytes, the unset buffer and the parser together are the channel Canal:
\* a read that begins with a message and takes all of it returns exactly this
\* message, whatever the buffer held, whatever lies behind it and however full
\* the buffer gets; and no read, short or not, loses the place in the stream.
Raffine == Vu!Spec
=============================================================================
