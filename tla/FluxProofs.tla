----------------------------- MODULE FluxProofs -----------------------------
(***************************************************************************)
(* Proofs that the bytes of a connection, the unset buffers of the calls   *)
(* and the parser are the channel Canal, for any messages with different   *)
(* texts, any buffer that holds each of them, and whatever the memory of a *)
(* buffer holds.                                                           *)
(***************************************************************************)
EXTENDS Flux, SequenceTheorems, TLAPS

----------------------------------------------------------------------------
(***************************************************************************)
(* What the writer makes of a message, and the parser of a buffer.         *)
(***************************************************************************)

Tampon == [1 .. MAX_BUFFER -> Nat]

\* The bytes s begin with those of message m and its NUL.
Debute(s, m) ==
  /\ \A i \in 1 .. Len(Texte[m]) : s[i] = Texte[m][i]
  /\ s[Len(Texte[m]) + 1] = 0

LEMMA TexteType ==
  ASSUME NEW m \in Messages
  PROVE  /\ Texte[m] \in Seq(Nat) /\ Len(Texte[m]) \in Nat
         /\ \A i \in 1 .. Len(Texte[m]) : Texte[m][i] \in Nat \ {0}
         /\ Len(Texte[m]) + 1 <= MAX_BUFFER
<1>1. Texte[m] \in Seq(Nat \ {0})
  BY TexteAssumption
<1> QED
  BY <1>1, TamponAssumption, ElementOfSeq, SeqMonotonic

LEMMA EcritType ==
  ASSUME NEW m \in Messages
  PROVE  /\ Ecrit(m) \in Seq(Nat)
         /\ Len(Ecrit(m)) = Len(Texte[m]) + 1
         /\ Len(Ecrit(m)) \in Nat \ {0}
         /\ Debute(Ecrit(m), m)
BY TexteType DEF Ecrit, Debute

LEMMA MessageDuTexte ==
  ASSUME NEW m \in Messages
  PROVE  MessageDe(Texte[m]) = m
BY TexteAssumption DEF MessageDe

\* The parser finds the message a buffer begins with, and no other.
LEMMA Analyse ==
  ASSUME NEW b \in Tampon, NEW m \in Messages, Debute(b, m)
  PROVE  Analyses(b) = {m}
<1> DEFINE Fin(i) == b[i] = 0 /\ \A k \in 1 .. i - 1 : b[k] # 0
           fins == {i \in 1 .. MAX_BUFFER : Fin(i)}
           n == Len(Texte[m])
<1>0. MAX_BUFFER \in Nat /\ n \in Nat
  BY TamponAssumption, TexteType
<1>1. n + 1 \in fins
  BY <1>0, TexteType DEF Debute
<1>2. ASSUME NEW i \in fins
      PROVE  i = n + 1
  <2>1. i \in Nat /\ b[n + 1] = 0 /\ b[i] = 0
    BY <1>0, <1>1, <1>2
  <2>2. ~(i < n + 1)
    BY <1>0, <2>1, <1>1, <1>2
  <2>3. ~(n + 1 < i)
    BY <1>0, <2>1, <1>1, <1>2
  <2> QED
    BY <1>0, <2>1, <2>2, <2>3
<1>3. SubSeq(b, 1, n) = Texte[m]
  <2>1. \A i \in 1 .. n : b[i] \in Nat /\ b[i] = Texte[m][i]
    BY TexteType DEF Debute
  <2>2. /\ SubSeq(b, 1, n) \in Seq(Nat)
        /\ Len(SubSeq(b, 1, n)) = n
        /\ \A i \in 1 .. n : SubSeq(b, 1, n)[i] = b[i]
    BY <2>1, <1>0, SubSeqProperties
  <2> QED
    BY <2>1, <2>2, TexteType, SeqEqual
<1>4. Analyses(b) = {MessageDe(SubSeq(b, 1, i - 1)) : i \in fins}
  <2>1. \E i \in 1 .. MAX_BUFFER : b[i] = 0
    BY <1>1
  <2> QED
    BY <2>1 DEF Analyses
<1>5. MessageDe(SubSeq(b, 1, (n + 1) - 1)) = m
  <2>1. (n + 1) - 1 = n
    BY <1>0
  <2> QED
    BY <2>1, <1>3, MessageDuTexte
<1> HIDE DEF fins, n
<1> QED
  BY <1>1, <1>2, <1>4, <1>5

\* Whatever a buffer holds, a parser finds a message in it or a text nobody
\* wrote.
LEMMA AnalysesType ==
  ASSUME NEW b
  PROVE  Analyses(b) \subseteq Messages \cup {Melange}
<1>1. \A t : MessageDe(t) \in Messages \cup {Melange}
  BY DEF MessageDe
<1> QED
  BY <1>1 DEF Analyses

\* A buffer begins with the message that the bytes stored in it begin with.
LEMMA Rempli ==
  ASSUME NEW b \in Tampon, NEW s \in Seq(Nat), NEW m \in Messages,
         Len(Texte[m]) + 1 <= Len(s), Debute(s, m)
  PROVE  Remplir(b, s) \in Tampon /\ Debute(Remplir(b, s), m)
<1>1. MAX_BUFFER \in Nat /\ Len(s) \in Nat
  BY TamponAssumption
<1>2. Remplir(b, s) \in Tampon
  BY <1>1, ElementOfSeq DEF Remplir, Tampon
<1>3. \A i \in 1 .. Len(Texte[m]) + 1 : Remplir(b, s)[i] = s[i]
  BY <1>1, TexteType DEF Remplir
<1>4. Debute(Remplir(b, s), m)
  BY <1>3, TexteType DEF Debute
<1> QED
  BY <1>2, <1>4

----------------------------------------------------------------------------
(***************************************************************************)
(* The bytes of the messages under way, of which there are two at most.    *)
(***************************************************************************)

LEMMA AplatirUn ==
  ASSUME NEW a
  PROVE  FlattenSeq(<<a>>) = a
<1> DEFINE f == [i \in 1 .. 1 |-> IF i = 1 THEN <<a>>[i] ELSE <<>>]
<1> QED
  BY DEF FlattenSeq

LEMMA AplatirDeux ==
  ASSUME NEW a \in Seq(Nat), NEW b \in Seq(Nat)
  PROVE  FlattenSeq(<<a, b>>) = a \o b
<1> DEFINE s == <<a, b>>
           Pas(f) == f = [i \in 1 .. Len(s) |-> IF i = 1 THEN s[i] ELSE f[i - 1] \o s[i]]
           g == [i \in 1 .. 2 |-> IF i = 1 THEN a ELSE a \o b]
           aplati == CHOOSE f : Pas(f)
<1>1. Len(s) = 2 /\ s[1] = a /\ s[2] = b
  OBVIOUS
<1>2. Pas(g)
  <2>1. \A i \in 1 .. 2 : g[i] = IF i = 1 THEN s[i] ELSE g[i - 1] \o s[i]
    BY <1>1
  <2> QED
    BY <1>1, <2>1
<1>3. Pas(aplati)
  BY <1>2
<1>4. FlattenSeq(s) = aplati[Len(s)]
  BY <1>1 DEF FlattenSeq
<1> HIDE DEF aplati
<1>5. aplati[2] = aplati[1] \o s[2] /\ aplati[1] = s[1]
  <2>1. aplati = [i \in 1 .. 2 |-> IF i = 1 THEN s[i] ELSE aplati[i - 1] \o s[i]]
    BY <1>1, <1>3
  <2> DEFINE suite(i) == IF i = 1 THEN s[i] ELSE aplati[i - 1] \o s[i]
  <2>2. aplati = [i \in 1 .. 2 |-> suite(i)]
    BY <2>1
  <2>3. suite(1) = s[1] /\ suite(2) = aplati[1] \o s[2]
    OBVIOUS
  <2> HIDE DEF suite, s
  <2>4. aplati[1] = suite(1) /\ aplati[2] = suite(2)
    BY <2>2
  <2> QED
    BY <2>3, <2>4
<1> QED
  BY <1>1, <1>4, <1>5

LEMMA EcritsVide == Ecrits(<<>>) = <<>>
BY DEF Ecrits, FlattenSeq

LEMMA EcritsUn ==
  ASSUME NEW q \in Seq(Messages), Len(q) = 1
  PROVE  Ecrits(q) = Ecrit(q[1])
<1> DEFINE s == [i \in 1 .. Len(q) |-> Ecrit(q[i])]
           t == <<Ecrit(q[1])>>
<1>1. q[1] \in Messages
  BY ElementOfSeq
<1>2. s \in Seq(Seq(Nat)) /\ Len(s) = 1 /\ s[1] = Ecrit(q[1])
  BY <1>1, EcritType
<1>3. t \in Seq(Seq(Nat)) /\ Len(t) = 1 /\ t[1] = Ecrit(q[1])
  BY <1>1, EcritType
<1>4. Ecrits(q) = FlattenSeq(s)
  BY DEF Ecrits
<1> HIDE DEF s, t
<1>5. s = t
  BY <1>2, <1>3, SeqEqual
<1> QED
  BY <1>4, <1>5, AplatirUn DEF t

LEMMA EcritsDeux ==
  ASSUME NEW q \in Seq(Messages), Len(q) = 2
  PROVE  Ecrits(q) = Ecrit(q[1]) \o Ecrit(q[2])
<1> DEFINE s == [i \in 1 .. Len(q) |-> Ecrit(q[i])]
           t == <<Ecrit(q[1]), Ecrit(q[2])>>
<1>1. q[1] \in Messages /\ q[2] \in Messages
  <2>1. 1 \in 1 .. Len(q) /\ 2 \in 1 .. Len(q)
    OBVIOUS
  <2> QED
    BY <2>1, ElementOfSeq
<1>2. s \in Seq(Seq(Nat)) /\ Len(s) = 2 /\ s[1] = Ecrit(q[1]) /\ s[2] = Ecrit(q[2])
  BY <1>1, EcritType
<1>3. t \in Seq(Seq(Nat)) /\ Len(t) = 2 /\ t[1] = Ecrit(q[1]) /\ t[2] = Ecrit(q[2])
  BY <1>1, EcritType
<1>4. Ecrits(q) = FlattenSeq(s)
  BY DEF Ecrits
<1> HIDE DEF s, t
<1>5. \A i \in 1 .. Len(s) : s[i] = t[i]
  BY <1>2, <1>3
<1>6. s = t
  BY <1>2, <1>3, <1>5, SeqEqual
<1> QED
  BY <1>1, <1>4, <1>6, EcritType, AplatirDeux DEF t

\* They begin with those of the first message.
LEMMA EcritsType ==
  ASSUME NEW q \in Seq(Messages), Len(q) <= 2
  PROVE  /\ Ecrits(q) \in Seq(Nat) /\ Len(Ecrits(q)) \in Nat
         /\ q # <<>> =>
              /\ q[1] \in Messages /\ Head(q) = q[1]
              /\ Len(Ecrit(q[1])) <= Len(Ecrits(q))
              /\ \A i \in 1 .. Len(Ecrit(q[1])) : Ecrits(q)[i] = Ecrit(q[1])[i]
<1>0. Len(q) \in Nat /\ (Len(q) = 0 => q = <<>>)
  BY EmptySeq
<1>1. CASE q = <<>>
  <2>1. <<>> \in Seq(Nat) /\ Len(<<>>) \in Nat
    BY EmptySeq
  <2>2. Ecrits(q) = <<>>
    BY <1>1, EcritsVide
  <2> QED
    BY <1>1, <2>1, <2>2
<1>2. CASE Len(q) = 1
  <2>1. q[1] \in Messages /\ Head(q) = q[1]
    BY <1>2, ElementOfSeq
  <2> QED
    BY <1>2, <2>1, EcritsUn, EcritType
<1>3. CASE Len(q) = 2
  <2>0. 1 \in 1 .. Len(q) /\ 2 \in 1 .. Len(q) /\ Head(q) = q[1]
    BY <1>3
  <2>1. q[1] \in Messages /\ q[2] \in Messages /\ Head(q) = q[1]
    BY <2>0, ElementOfSeq
  <2> DEFINE a == Ecrit(q[1])
             b == Ecrit(q[2])
  <2>2. a \in Seq(Nat) /\ b \in Seq(Nat) /\ Len(a) \in Nat /\ Len(b) \in Nat
    BY <2>1, EcritType
  <2>3. Ecrits(q) = a \o b
    BY <1>3, EcritsDeux
  <2> HIDE DEF a, b
  <2>4. /\ a \o b \in Seq(Nat) /\ Len(a \o b) = Len(a) + Len(b)
        /\ \A i \in 1 .. Len(a) : (a \o b)[i] = a[i]
    BY <2>2, ConcatProperties
  <2>5. Len(a) <= Len(a \o b) /\ Len(a \o b) \in Nat
    BY <2>2, <2>4
  <2> QED
    BY <2>1, <2>3, <2>4, <2>5 DEF a
<1>4. q = <<>> \/ Len(q) = 1 \/ Len(q) = 2
  <2> DEFINE l == Len(q)
  <2>1. l \in Nat /\ l <= 2
    BY <1>0
  <2> HIDE DEF l
  <2>2. l = 0 \/ l = 1 \/ l = 2
    BY <2>1
  <2> QED
    BY <1>0, <2>2 DEF l
<1> QED
  BY <1>1, <1>2, <1>3, <1>4

\* The end of the first k messages in the stream.
LEMMA Debuts ==
  ASSUME NEW q \in Seq(Messages), Len(q) <= 2, NEW k \in 0 .. Len(q)
  PROVE  /\ Len(Ecrits(SubSeq(q, 1, k))) \in Nat
         /\ k = 0 => Len(Ecrits(SubSeq(q, 1, k))) = 0
         /\ k = Len(q) => Len(Ecrits(SubSeq(q, 1, k))) = Len(Ecrits(q))
         /\ k > 0 => Len(Ecrit(q[1])) <= Len(Ecrits(SubSeq(q, 1, k)))
<1> DEFINE r == SubSeq(q, 1, k)
<1>1. r \in Seq(Messages) /\ Len(r) = k /\ Len(r) <= 2 /\ \A i \in 1 .. k : r[i] = q[i]
  OBVIOUS
<1>2. k = Len(q) => r = q
  BY <1>1, SeqEqual
<1> HIDE DEF r
<1>3. Len(Ecrits(r)) \in Nat
  BY <1>1, EcritsType
<1>4. k = 0 => r = <<>> /\ Len(Ecrits(r)) = 0
  BY <1>1, EcritsVide
<1>5. k > 0 => r # <<>> /\ r[1] = q[1]
  BY <1>1
<1>6. k > 0 => Len(Ecrit(q[1])) <= Len(Ecrits(r))
  BY <1>1, <1>5, EcritsType
<1> QED
  BY <1>2, <1>3, <1>4, <1>6 DEF r

LEMMA OctetsType ==
  ASSUME TypeOK
  PROVE  /\ Octets \in Seq(Nat) /\ Len(Octets) \in Nat
         /\ lu + Len(Octets) = Len(Ecrits(file))
         /\ file = <<>> => Octets = <<>>
         /\ lu = 0 => Octets = Ecrits(file)
<1> DEFINE e == Ecrits(file)
<1>1. /\ e \in Seq(Nat) /\ Len(e) \in Nat /\ lu \in Nat
      /\ file = <<>> => e = <<>>
      /\ lu <= Len(e)
  <2>1. e \in Seq(Nat) /\ Len(e) \in Nat /\ lu \in Nat
    BY EcritsType DEF TypeOK
  <2>2. CASE file = <<>>
    BY <2>1, <2>2, EcritsVide DEF TypeOK
  <2>3. CASE file # <<>>
    <3>1. /\ file[1] \in Messages /\ Head(file) = file[1]
          /\ Len(Ecrit(file[1])) <= Len(e)
      BY <2>3, EcritsType DEF TypeOK
    <3>2. lu < Len(Ecrit(file[1])) /\ Len(Ecrit(file[1])) \in Nat
      BY <2>3, <3>1, EcritType DEF TypeOK
    <3> HIDE DEF e
    <3> QED
      BY <2>1, <2>3, <3>1, <3>2
  <2> QED
    BY <2>2, <2>3
<1>2. Octets = SubSeq(e, lu + 1, Len(e))
  BY DEF Octets
<1> HIDE DEF e
<1>3. \A i \in lu + 1 .. Len(e) : e[i] \in Nat
  BY <1>1, ElementOfSeq
<1>4. Octets \in Seq(Nat) /\ Len(Octets) = Len(e) - lu
  BY <1>1, <1>2, <1>3, SubSeqProperties
<1>5. lu = 0 => Octets = e
  BY <1>1, <1>2
<1>6. file = <<>> => Octets = <<>>
  <2>1. SUFFICES ASSUME file = <<>> PROVE Len(Octets) = 0
    BY <1>4, EmptySeq
  <2>2. Len(e) = 0
    BY <1>1, <2>1, EmptySeq
  <2> QED
    BY <1>1, <1>4, <2>2
<1> QED
  BY <1>1, <1>4, <1>5, <1>6 DEF e

----------------------------------------------------------------------------
(***************************************************************************)
(* What one read does.                                                     *)
(***************************************************************************)

\* It leaves the reader at a byte of a message that is under way.
LEMMA Avance ==
  ASSUME TypeOK, NEW n \in 1 .. Len(Octets), NEW k \in 0 .. Len(file), Avancer(k, n)
  PROVE  /\ file # <<>> /\ Head(file) = file[1]
         /\ file' = SubSeq(file, k + 1, Len(file))
         /\ file' \in Seq(Messages) /\ Len(file') <= 2
         /\ lu' \in Nat
         /\ IF file' = <<>> THEN lu' = 0 ELSE lu' < Len(Ecrit(Head(file')))
         /\ k = 0 => file' = file /\ lu' # 0
         /\ k > 0 => Len(Ecrit(file[1])) <= lu + n
<1> DEFINE debut == Len(Ecrits(SubSeq(file, 1, k)))
<1>1. /\ file \in Seq(Messages) /\ Len(file) \in Nat /\ Len(file) <= 2
      /\ lu \in Nat
  BY DEF TypeOK
<1>2. /\ Len(Octets) \in Nat /\ lu + Len(Octets) = Len(Ecrits(file))
      /\ file # <<>>
  <2>1. Octets \in Seq(Nat) /\ lu + Len(Octets) = Len(Ecrits(file))
    BY OctetsType
  <2>2. file # <<>>
    BY OctetsType
  <2> QED
    BY <2>1, <2>2
<1>3. /\ debut \in Nat
      /\ k = 0 => debut = 0
      /\ k = Len(file) => debut = Len(Ecrits(file))
      /\ k > 0 => Len(Ecrit(file[1])) <= debut
  BY <1>1, Debuts
<1>4. /\ debut <= lu + n
      /\ k < Len(file) => lu + n < debut + Len(Ecrit(file[k + 1]))
      /\ file' = SubSeq(file, k + 1, Len(file))
      /\ lu' = lu + n - debut
  BY DEF Avancer
<1> HIDE DEF debut
<1>5. file[1] \in Messages /\ Head(file) = file[1]
  BY <1>1, <1>2
<1>6. /\ file' \in Seq(Messages) /\ Len(file') = Len(file) - k
      /\ k < Len(file) => Head(file') = file[k + 1]
  BY <1>1, <1>4
<1>7. lu' \in Nat
  BY <1>1, <1>3, <1>4
<1>8. IF file' = <<>> THEN lu' = 0 ELSE lu' < Len(Ecrit(Head(file')))
  <2>1. CASE k = Len(file)
    <3>1. file' = <<>>
      BY <1>1, <1>6, <2>1
    <3>2. lu' = 0
      BY <1>1, <1>2, <1>3, <1>4, <2>1
    <3> QED
      BY <3>1, <3>2
  <2>2. CASE k < Len(file)
    <3>1. file' # <<>>
      BY <1>1, <1>6, <2>2
    <3>2. Len(Ecrit(file[k + 1])) \in Nat
      <4>1. file[k + 1] \in Messages
        BY <1>1, <2>2, ElementOfSeq
      <4> QED
        BY <4>1, EcritType
    <3>3. lu' < Len(Ecrit(Head(file')))
      BY <1>1, <1>3, <1>4, <1>6, <2>2, <3>2
    <3> QED
      BY <3>1, <3>3
  <2> QED
    BY <1>1, <2>1, <2>2
<1>9. k = 0 => file' = file /\ lu' # 0
  BY <1>1, <1>3, <1>4
<1>10. k > 0 => Len(Ecrit(file[1])) <= lu + n
  <2>1. Len(Ecrit(file[1])) \in Nat
    BY <1>5, EcritType
  <2> QED
    BY <1>1, <1>3, <1>4, <2>1
<1>11. file' \in Seq(Messages) /\ Len(file') <= 2
  BY <1>1, <1>6
<1> QED
  BY <1>2, <1>4, <1>5, <1>7, <1>8, <1>9, <1>10, <1>11

\* One that begins with a message and takes all of it returns this message,
\* whatever the buffer held and whatever else was stored.
LEMMA LectureTete ==
  ASSUME TypeOK, lu = 0, file # <<>>, NEW n \in 1 .. Len(Octets),
         Len(Ecrit(file[1])) <= n, NEW b \in Souvenirs
  PROVE  Analyses(Remplir(b, SubSeq(Octets, 1, n))) = {file[1]}
<1> DEFINE m == file[1]
           s == SubSeq(Octets, 1, n)
<1>1. /\ m \in Messages /\ Octets \in Seq(Nat)
      /\ \A i \in 1 .. Len(Ecrit(m)) : Octets[i] = Ecrit(m)[i]
  BY OctetsType, EcritsType DEF TypeOK
<1>2. s \in Seq(Nat) /\ Len(s) = n /\ \A i \in 1 .. n : s[i] = Octets[i]
  BY <1>1
<1> HIDE DEF s
<1>3. Len(Ecrit(m)) = Len(Texte[m]) + 1 /\ Len(Texte[m]) \in Nat /\ Debute(Ecrit(m), m)
  BY <1>1, EcritType, TexteType
<1> HIDE DEF m
<1>4. Len(Texte[m]) + 1 <= Len(s)
  BY <1>2, <1>3 DEF m
<1>5. Debute(s, m)
  <2>1. n \in Nat
    BY <1>1
  <2>2. ASSUME NEW i \in 1 .. Len(Texte[m]) + 1
        PROVE  s[i] = Ecrit(m)[i]
    <3>1. i \in 1 .. n /\ i \in 1 .. Len(Ecrit(m))
      BY <1>2, <1>3, <1>4, <2>1
    <3> QED
      BY <1>1, <1>2, <3>1
  <2>3. /\ \A i \in 1 .. Len(Texte[m]) : i \in 1 .. Len(Texte[m]) + 1
        /\ Len(Texte[m]) + 1 \in 1 .. Len(Texte[m]) + 1
    BY <1>3
  <2> QED
    BY <1>3, <2>2, <2>3 DEF Debute
<1>6. b \in Tampon
  BY TamponAssumption DEF Tampon
<1>7. Remplir(b, s) \in Tampon /\ Debute(Remplir(b, s), m)
  BY <1>1, <1>2, <1>4, <1>5, <1>6, Rempli
<1> QED
  BY <1>1, <1>7, Analyse DEF s, m

----------------------------------------------------------------------------
(***************************************************************************)
(* The invariant.                                                          *)
(***************************************************************************)

LEMMA TypeInit == ASSUME Init PROVE TypeOK
  BY TamponAssumption DEF Init, TypeOK

LEMMA TypeNext == ASSUME TypeOK, [Next]_vars PROVE TypeOK'
<1>1. ASSUME NEW m \in Messages, Ecrire(m)
      PROVE  TypeOK'
  <2>1. /\ file' = Append(file, m) /\ UNCHANGED <<lu, pris, etat, recu>>
        /\ file' \in Seq(Messages) /\ Len(file') <= 2 /\ file' # <<>>
    BY <1>1 DEF Ecrire, TypeOK
  <2>2. lu < Len(Ecrit(Head(file')))
    <3>1. CASE file = <<>>
      <4>1. Head(file') = m /\ lu = 0
        BY <2>1, <3>1 DEF TypeOK
      <4> QED
        BY <4>1, EcritType
    <3>2. CASE file # <<>>
      <4>1. Head(file') = Head(file)
        BY <2>1, <3>2 DEF TypeOK
      <4> QED
        BY <3>2, <4>1 DEF TypeOK
    <3> QED
      BY <3>1, <3>2
  <2> QED
    BY <2>1, <2>2 DEF TypeOK
<1>2. ASSUME NEW n \in 1 .. Len(Octets), Lire(n)
      PROVE  TypeOK'
  <2>1. PICK k \in 0 .. Len(file) : Avancer(k, n)
    BY <1>2 DEF Lire
  <2>2. /\ file' \in Seq(Messages) /\ Len(file') <= 2 /\ lu' \in Nat
        /\ IF file' = <<>> THEN lu' = 0 ELSE lu' < Len(Ecrit(Head(file')))
    BY <2>1, Avance
  <2>3. recu' \in Messages \cup {Melange}
    BY <1>2, AnalysesType DEF Lire
  <2>4. pris' \in 0 .. MAX_BUFFER
    BY <1>2, TamponAssumption DEF Lire, TailleLue
  <2> QED
    BY <1>2, <2>2, <2>3, <2>4 DEF Lire, TypeOK
<1>3. CASE Fermer
  BY <1>3 DEF Fermer, TypeOK
<1>4. CASE LireFin
  <2>1. recu' \in Messages \cup {Melange}
    BY <1>4, AnalysesType DEF LireFin
  <2> QED
    BY <1>4, <2>1, TamponAssumption DEF LireFin, TypeOK
<1>5. CASE RecevoirRien
  BY <1>5, TamponAssumption DEF RecevoirRien, TypeOK
<1>6. CASE UNCHANGED vars
  BY <1>6 DEF vars, TypeOK
<1> QED
  BY <1>1, <1>2, <1>3, <1>4, <1>5, <1>6 DEF Next

\* The reader always stands at a byte of a message that is under way, wherever
\* reads have begun and ended before, and no read stores more than the buffer
\* takes.
THEOREM FluxTypeOK == Spec => []TypeOK
<1> QED
  BY TypeInit, TypeNext, PTL DEF Spec

----------------------------------------------------------------------------
(***************************************************************************)
(* The refinement.                                                         *)
(***************************************************************************)

LEMMA RaffineInit == ASSUME Init PROVE Vu!Init
  BY DEF Init, Vu!Init

\* A read that begins with a message and takes it whole is a read of a whole
\* message; every other is one of a part.
LEMMA RaffineLire ==
  ASSUME TypeOK, NEW n \in 1 .. Len(Octets), Lire(n)
  PROVE  Vu!Recevoir \/ (Vu!RecevoirPartie /\ (lu # 0 \/ lu' # 0))
<1>1. PICK k \in 0 .. Len(file) : Avancer(k, n)
  BY DEF Lire
<1>2. /\ file # <<>> /\ Head(file) = file[1]
      /\ file' = SubSeq(file, k + 1, Len(file))
      /\ file' = <<>> => lu' = 0
      /\ k = 0 => file' = file /\ lu' # 0
      /\ k > 0 => Len(Ecrit(file[1])) <= lu + n
  BY <1>1, Avance
<1>3. (lu' # 0) \in {FALSE, file' # <<>>} /\ etat' = etat
  BY <1>2 DEF Lire
<1>4. CASE lu = 0 /\ k > 0
  <2>1. Len(Ecrit(file[1])) <= n
    BY <1>2, <1>4
  <2>2. recu' = Head(file)
    BY <1>2, <1>4, <2>1, LectureTete DEF Lire
  <2>3. k \in 1 .. Len(file)
    BY <1>4
  <2>4. [m |-> Head(file), reste |-> SubSeq(file, k + 1, Len(file))]
          \in Vu!Lecture(file, etat, Vu!Resultats)
    BY <1>2, <2>3 DEF Vu!Lecture
  <2>5. \E r \in Vu!Lecture(file, etat, Vu!Resultats) : recu' = r.m /\ file' = r.reste
    BY <1>2, <2>2, <2>4
  <2> QED
    BY <1>3, <1>4, <2>5 DEF Vu!Recevoir
<1>5. CASE lu # 0 \/ k = 0
  <2>1. recu' \in Vu!Resultats
    BY AnalysesType DEF Lire, Vu!Resultats
  <2>2. \E j \in 0 .. Len(file) : file' = SubSeq(file, j + 1, Len(file))
    BY <1>2
  <2>3. lu # 0 \/ (lu' # 0 /\ file' = file)
    BY <1>2, <1>5
  <2> QED
    BY <1>2, <1>3, <2>1, <2>2, <2>3 DEF Vu!RecevoirPartie
<1> QED
  BY <1>4, <1>5

LEMMA RaffineNext ==
  ASSUME TypeOK, [Next]_vars
  PROVE  Vu!Entier \/ (Vu!RecevoirPartie /\ (lu # 0 \/ lu' # 0)) \/ UNCHANGED Vu!vars
<1>1. ASSUME NEW m \in Messages, Ecrire(m)
      PROVE  Vu!Ecrire(m)
  BY <1>1 DEF Ecrire, Vu!Ecrire
<1>2. ASSUME NEW n \in 1 .. Len(Octets), Lire(n)
      PROVE  Vu!Recevoir \/ (Vu!RecevoirPartie /\ (lu # 0 \/ lu' # 0))
  BY <1>2, RaffineLire
<1>3. CASE Fermer
  BY <1>3 DEF Fermer, Vu!Fermer, Vu!Entier
<1>4. CASE LireFin
  <2>1. recu' \in Vu!Resultats
    BY <1>4, AnalysesType DEF LireFin, Vu!Resultats
  <2>2. file = <<>> /\ lu = 0 /\ etat = "fermee" /\ UNCHANGED <<file, lu, etat>>
    BY <1>4 DEF LireFin, TypeOK
  <2>3. [m |-> recu', reste |-> <<>>] \in Vu!Lecture(file, etat, Vu!Resultats)
    BY <2>1, <2>2 DEF Vu!Lecture
  <2>4. \E r \in Vu!Lecture(file, etat, Vu!Resultats) : recu' = r.m /\ file' = r.reste
    BY <2>2, <2>3
  <2> QED
    BY <2>2, <2>4 DEF Vu!Recevoir, Vu!Entier
<1>5. CASE RecevoirRien
  BY <1>5 DEF RecevoirRien, Vu!RecevoirRien, Vu!Entier
<1>6. CASE UNCHANGED vars
  BY <1>6 DEF vars, Vu!vars
<1>7. CASE Next
  BY <1>7, <1>1, <1>2, <1>3, <1>4, <1>5 DEF Next, Vu!Entier
<1> QED
  BY <1>6, <1>7

\* The bytes, the unset buffers and the parser are the channel Canal: a read
\* that begins with a message and takes all of it returns this message and no
\* other, whatever the memory of the buffer held.
THEOREM FluxRaffine == Spec => Raffine
<1>1. Spec => []TypeOK
  BY FluxTypeOK
<1>2. Init => Vu!Init
  BY RaffineInit
<1>3. TypeOK /\ [Next]_vars => [Vu!Next]_(Vu!vars)
  BY RaffineNext DEF Vu!Next
<1> QED
  BY <1>1, <1>2, <1>3, PTL DEF Spec, Raffine, Vu!Spec

\* The condition on which module Partie models the game: as long as no read
\* ends inside a message, the callers see a channel of whole messages.
THEOREM FluxEntier == Spec /\ [](lu = 0) => Vu!SpecEntier
<1>1. Spec => []TypeOK
  BY FluxTypeOK
<1>2. Init => Vu!Init
  BY RaffineInit
<1>3. TypeOK /\ lu = 0 /\ (lu = 0)' /\ [Next]_vars => [Vu!Entier /\ ~(lu # 0)']_(Vu!vars)
  BY RaffineNext
<1> QED
  BY <1>1, <1>2, <1>3, PTL DEF Spec, Vu!SpecEntier
=============================================================================
