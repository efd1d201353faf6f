---------------------------- MODULE VerdictProofs ----------------------------
(***************************************************************************)
(* Proofs that the players of a game know how it stands, for any number of *)
(* players and any sizes, even when others die after the placement: the    *)
(* verdicts they were told and, where the text of the board fits the       *)
(* client's field, the boards they see; and that, without failures, for    *)
(* any boats and any shots too, this game is the one they are promised     *)
(* (module BatailleRoyale).                                                *)
(***************************************************************************)
EXTENDS ProtocoleProofs, Raffinement, FiniteSetTheorems

----------------------------------------------------------------------------
(***************************************************************************)
(* The invariant, besides the stages of the dialogue.                      *)
(***************************************************************************)

\* A client starts the game in play; one that has left its loop of rounds
\* knows why, or a client has died; nobody is out before the rounds.
Ages(i) ==
  /\ cpc[i] \in {"acceptation", "infos", "ordre", "placer", "bateau_rep"} => cetat[i] = "EN_JEU"
  /\ cpc[i] = "fin" => cetat[i] \in Fins
  /\ cpc[i] = "ferme" => cetat[i] \in Fins \/ pannes < Pannes
  /\ phase \in AvantJeu => cetat[i] = "EN_JEU"

\* A boat that was received has its length.
Longueur(i) ==
  (phase = "poll" /\ i < idx) \/ phase \notin AvantJeu => bateaux[i].taille = tailleBateau

\* The server's two records of the boat of player i: intact once it has come in,
\* in accord with the grid in the rounds.
Registre(i) ==
  /\ phase = "poll" /\ i < idx => Intact(cell, bateaux[i])
  /\ phase \notin AvantJeu => Accord(cell, bateaux[i])

\* A board or a verdict under way to player i is that of the board as it is.
Courrier(i) ==
  \A k \in 1 .. Len(s2c[i]) :
    /\ s2c[i][k].id = 2 => s2c[i][k].infos = EncoderPlateau(cell)
    /\ s2c[i][k].id \in 7 .. 10 => s2c[i][k].id = Verdict(bateaux, nbBateau, i)

\* Player i has been told the verdict on the boats as they are.
AuCourant(i) ==
  /\ cpc[i] # "ferme"
  /\ \/ phase \in {"pause", "plateau", "plateau_ack", "go", "go_ack", "retour"}
     \/ phase \in {"etat", "etat_ack"} /\ i < idx
     \/ phase = "etat_ack" /\ i = idx /\ cpc[i] \in {"plateau", "fin"}

\* The other players whose boats float.
Autres(i) == {j \in Joueurs \ {i} : ~Coule(bateaux, j)}

\* What player i, told e, was told is what the boats say.
Juste(e, i) ==
  CASE e = "EN_JEU"   -> ~Coule(bateaux, i) /\ Autres(i) # {}
    [] e = "DEAD"     -> Coule(bateaux, i) /\ Cardinality(Autres(i)) >= 2
    [] e = "FIN_WIN"  -> ~Coule(bateaux, i) /\ Autres(i) = {}
    [] e = "FIN_LOSE" -> Coule(bateaux, i) /\ Cardinality(Autres(i)) <= 1

Jugement(i) ==
  /\ cetat[i] = "DEAD" => Coule(bateaux, i)
  /\ AuCourant(i) => Juste(cetat[i], i)

\* A client that has read the board of this round shows it.
Affichage(i) ==
  phase \in {"plateau", "plateau_ack", "go", "go_ack"}
    /\ cpc[i] \in {"go", "go_mort", "jouer", "coup_rep", "mort", "mort_rep"}
  => vue[i] = VuePublique(i)

\* The text of the board fits the field of the client, and the memory of the
\* grid held values of the enum (others add nothing to the text and shift it).
Lisible ==
  /\ taillePlateau * taillePlateau <= INFOS_CLIENT
  /\ grillesInit \subseteq [Case -> Status]

Nette == cell \in [Case -> Status]

InvV ==
  /\ Lisible => Nette
  /\ \A i \in Joueurs :
       /\ Ages(i) /\ Longueur(i) /\ Registre(i) /\ Courrier(i) /\ Jugement(i)
       /\ Lisible => Affichage(i)

----------------------------------------------------------------------------
(***************************************************************************)
(* The verdict.                                                            *)
(***************************************************************************)

\* The players whose boats float.
Aflot == {j \in Joueurs : ~Coule(bateaux, j)}

LEMMA Flottants ==
  ASSUME nbBateau = nbJoueur
  PROVE  /\ IsFiniteSet(Aflot) /\ Cardinality(Aflot) \in Nat
         /\ NbCoules(bateaux, nbBateau) = nbJoueur - Cardinality(Aflot)
<1> DEFINE B == {b \in 0 .. nbBateau - 1 : Coule(bateaux, b)}
<1>1. IsFiniteSet(Joueurs) /\ Cardinality(Joueurs) = nbJoueur
  BY FS_Interval, JoueurAssumption DEF Joueurs
<1>2. Aflot = Joueurs \ B /\ Joueurs \cap B = B
  BY DEF Aflot, Joueurs
<1>3. IsFiniteSet(B)
  BY <1>1, <1>2, FS_Intersection
<1>4. IsFiniteSet(Aflot) /\ Cardinality(Aflot) = nbJoueur - Cardinality(B)
  BY <1>1, <1>2, FS_Difference
<1>5. Cardinality(Aflot) \in Nat /\ Cardinality(B) \in Nat
  BY <1>3, <1>4, FS_CardinalityType
<1>6. NbCoules(bateaux, nbBateau) = Cardinality(B)
  BY DEF NbCoules
<1> HIDE DEF B
<1> QED
  BY <1>4, <1>5, <1>6, JoueurAssumption

\* The two loops of verifier_fin_partie, over the length of the board and over
\* that of the boat, agree on who is sunk.
LEMMA EnVieAflot ==
  ASSUME NEW k \in Joueurs, bateaux[k].taille = tailleBateau
  PROVE  EnVie(bateaux, k) <=> k \in Aflot
  BY TailleAssumption DEF EnVie, Coule, Segment, Aflot

\* The last one afloat is the one the loop finds.
LEMMA SeulAflot ==
  ASSUME \A k \in Joueurs : bateaux[k].taille = tailleBateau, NEW s, Aflot = {s}
  PROVE  Survivant(bateaux) = s
<1> DEFINE V == {k \in Joueurs : EnVie(bateaux, k)}
<1>1. V = {s}
  BY EnVieAflot DEF Aflot
<1>2. s \in Joueurs
  BY DEF Aflot
<1>3. s <= s
  BY <1>2 DEF Joueurs
<1>4. Survivant(bateaux) = CHOOSE k \in V : \A j \in V : j <= k
  BY <1>1 DEF Survivant
<1> HIDE DEF V
<1> QED
  BY <1>1, <1>3, <1>4

\* A client in state e takes the verdict on its boat: it then knows how it
\* stands with the boats.
LEMMA VerdictDit ==
  ASSUME nbBateau = nbJoueur, \A k \in Joueurs : bateaux[k].taille = tailleBateau,
         NEW i \in Joueurs, NEW e \in {"EN_JEU", "DEAD"}, e = "DEAD" => Coule(bateaux, i)
  PROVE  Juste(EtatApres(e, Verdict(bateaux, nbBateau, i)), i)
<1> DEFINE v == Verdict(bateaux, nbBateau, i)
           n == Cardinality(Aflot)
<1>1. /\ IsFiniteSet(Aflot) /\ n \in Nat
      /\ NbCoules(bateaux, nbBateau) = nbBateau - n /\ nbBateau \in Nat
  BY Flottants, JoueurAssumption
<1>2. EnVie(bateaux, i) <=> i \in Aflot
  BY EnVieAflot
<1>3. i \in Aflot <=> ~Coule(bateaux, i)
  BY DEF Aflot
<1>4. /\ Autres(i) = Aflot \ {i}
      /\ Cardinality(Autres(i)) = IF i \in Aflot THEN n - 1 ELSE n
  <2>1. Autres(i) = Aflot \ {i}
    BY DEF Autres, Aflot
  <2> QED
    BY <1>1, <2>1, FS_RemoveElement
<1>5. CASE n = 0
  <2>1. Aflot = {}
    BY <1>1, <1>5, FS_EmptySet
  <2>2. v = 9
    BY <1>1, <1>5 DEF Verdict
  <2>3. EtatApres(e, v) = "FIN_LOSE"
    BY <2>2 DEF EtatApres
  <2>4. Coule(bateaux, i) /\ Cardinality(Autres(i)) <= 1
    BY <1>3, <1>4, <1>5, <2>1
  <2> HIDE DEF v, n
  <2> QED
    BY <2>3, <2>4 DEF Juste, v
<1>6. CASE n = 1
  <2>1. PICK s : Aflot = {s}
    BY <1>1, <1>6, FS_Singleton
  <2>2. v = IF s = i THEN 10 ELSE 9
    <3>1. NbCoules(bateaux, nbBateau) # nbBateau /\ NbCoules(bateaux, nbBateau) = nbBateau - 1
      BY <1>1, <1>6
    <3>2. Survivant(bateaux) = s
      BY <2>1, SeulAflot
    <3> QED
      BY <3>1, <3>2 DEF Verdict
  <2>3. CASE s = i
    <3>1. EtatApres(e, v) = "FIN_WIN"
      BY <2>2, <2>3 DEF EtatApres
    <3>2. ~Coule(bateaux, i) /\ Autres(i) = {}
      BY <1>3, <1>4, <2>1, <2>3
    <3> HIDE DEF v, n
    <3> QED
      BY <3>1, <3>2 DEF Juste, v
  <2>4. CASE s # i
    <3>1. EtatApres(e, v) = "FIN_LOSE"
      BY <2>2, <2>4 DEF EtatApres
    <3>2. Coule(bateaux, i) /\ Cardinality(Autres(i)) <= 1
      BY <1>3, <1>4, <1>6, <2>1, <2>4
    <3> HIDE DEF v, n
    <3> QED
      BY <3>1, <3>2 DEF Juste, v
  <2> QED
    BY <2>3, <2>4
<1>7. CASE n >= 2
  <2>1. v = IF EnVie(bateaux, i) THEN 7 ELSE 8
    <3>1. NbCoules(bateaux, nbBateau) # nbBateau /\ NbCoules(bateaux, nbBateau) # nbBateau - 1
      BY <1>1, <1>7
    <3> QED
      BY <3>1 DEF Verdict
  <2>2. CASE i \in Aflot
    <3>1. EtatApres(e, v) = "EN_JEU"
      BY <1>2, <1>3, <2>1, <2>2 DEF EtatApres
    <3>2. Cardinality(Autres(i)) # 0
      BY <1>1, <1>4, <1>7, <2>2
    <3>3. ~Coule(bateaux, i) /\ Autres(i) # {}
      BY <1>3, <2>2, <3>2, FS_EmptySet
    <3> HIDE DEF v, n
    <3> QED
      BY <3>1, <3>3 DEF Juste, v
  <2>3. CASE i \notin Aflot
    <3>1. EtatApres(e, v) = "DEAD"
      BY <1>2, <2>1, <2>3 DEF EtatApres
    <3>2. Coule(bateaux, i) /\ Cardinality(Autres(i)) >= 2
      BY <1>1, <1>3, <1>4, <1>7, <2>3
    <3> HIDE DEF v, n
    <3> QED
      BY <3>1, <3>2 DEF Juste, v
  <2> QED
    BY <2>2, <2>3
<1> QED
  BY <1>1, <1>5, <1>6, <1>7

\* Before the first shot everybody is in play.
LEMMA ToutesAFlot ==
  ASSUME \A k \in Joueurs : ~Coule(bateaux', k), NEW i \in Joueurs
  PROVE  Juste("EN_JEU", i)'
<1>1. PICK j \in Joueurs : j # i
  <2>1. 0 \in Joueurs /\ 1 \in Joueurs /\ 0 # 1
    BY JoueurAssumption DEF Joueurs
  <2> QED
    BY <2>1
<1>2. j \in Autres(i)'
  BY <1>1 DEF Autres
<1> QED
  BY <1>2 DEF Juste

----------------------------------------------------------------------------
(***************************************************************************)
(* The text of the board.                                                  *)
(***************************************************************************)

\* The number of a cell in the text, and back.
LEMMA Numero ==
  ASSUME NEW x \in Coord, NEW y \in Coord
  PROVE  LET n == x * taillePlateau + y
         IN  /\ n \in 0 .. taillePlateau * taillePlateau - 1
             /\ n % taillePlateau = y /\ n \div taillePlateau = x
<1> DEFINE T == taillePlateau
           n == x * T + y
           q == n \div T
           r == n % T
<1>1. T \in Nat /\ T > 0 /\ x \in 0 .. T - 1 /\ y \in 0 .. T - 1
  BY TailleAssumption DEF Coord
<1>2. x * T \in Nat /\ (T - 1) * T = T * T - T /\ x * T <= (T - 1) * T
  BY <1>1
<1>3. n \in Nat /\ n <= T * T - 1
  BY <1>1, <1>2
<1>4. q \in Int /\ r \in 0 .. T - 1 /\ n = q * T + r
  BY <1>1, <1>3
<1> HIDE DEF T, q, r
<1>5. (x - q) * T = r - y
  BY <1>1, <1>4 DEF n
<1>6. x - q < 1
  <2>1. CASE x - q >= 1
    <3>1. (x - q) * T >= T
      BY <1>1, <1>4, <2>1
    <3> QED
      BY <1>1, <1>4, <1>5, <3>1
  <2> QED
    BY <1>1, <1>4, <2>1
<1>7. x - q > -1
  <2>1. CASE q - x >= 1
    <3>1. (q - x) * T >= T
      BY <1>1, <1>4, <2>1
    <3>2. (q - x) * T = y - r
      BY <1>1, <1>4 DEF n
    <3> QED
      BY <1>1, <1>4, <3>1, <3>2
  <2> QED
    BY <1>1, <1>4, <2>1
<1>8. q = x /\ r = y
  BY <1>1, <1>4, <1>5, <1>6, <1>7
<1> QED
  BY <1>3, <1>8 DEF q, r, T

\* The loops of envoyer_plateau stay on the board.
LEMMA SurLePlateau ==
  ASSUME NEW p \in 1 .. taillePlateau * taillePlateau
  PROVE  <<(p - 1) % taillePlateau, (p - 1) \div taillePlateau>> \in Case
<1> DEFINE T == taillePlateau
           q == (p - 1) \div T
           r == (p - 1) % T
<1>1. T \in Nat /\ T > 0 /\ T * T \in Nat /\ p - 1 \in Nat /\ p - 1 < T * T
  BY TailleAssumption
<1>2. q \in Int /\ r \in 0 .. T - 1 /\ p - 1 = q * T + r
  BY <1>1
<1> HIDE DEF T, q, r
<1>3. q < T
  <2>1. CASE q >= T
    <3>1. q * T >= T * T
      BY <1>1, <1>2, <2>1
    <3> QED
      BY <1>1, <1>2, <3>1
  <2> QED
    BY <1>1, <1>2, <2>1
<1>4. q >= 0
  <2>1. CASE q <= -1
    <3>1. q * T <= -T
      BY <1>1, <1>2, <2>1
    <3> QED
      BY <1>1, <1>2, <3>1
  <2> QED
    BY <1>1, <1>2, <2>1
<1>5. r \in 0 .. T - 1 /\ q \in 0 .. T - 1
  BY <1>1, <1>2, <1>3, <1>4
<1> QED
  BY <1>5 DEF T, q, r, Case, Coord

\* Of a grid that holds values of the enum only every cell has its digit.
LEMMA TexteEntier ==
  ASSUME NEW g \in [Case -> Status]
  PROVE  EncoderPlateau(g) =
           [k \in 1 .. taillePlateau * taillePlateau |-> Chiffre(Parcourue(g, k))]
<1> DEFINE n == taillePlateau * taillePlateau
           rang(p) == p - Cardinality({q \in Muettes(g) : q <= p})
<1>1. n \in Nat
  BY TailleAssumption
<1>2. Muettes(g) = {}
  BY SurLePlateau DEF Muettes, Parcourue
<1>3. Cardinality(Muettes(g)) = 0 /\ \A p : Cardinality({q \in Muettes(g) : q <= p}) = 0
  BY <1>2, FS_EmptySet
<1>4. ASSUME NEW k \in 1 .. n
      PROVE  (CHOOSE p \in (1 .. n) \ Muettes(g) : rang(p) = k) = k
  <2>1. \A p \in 1 .. n : rang(p) = p
    BY <1>1, <1>3
  <2> HIDE DEF rang
  <2> QED
    BY <1>2, <2>1
<1>5. n - Cardinality(Muettes(g)) = n
  BY <1>1, <1>3
<1>6. EncoderPlateau(g) =
        [k \in 1 .. n - Cardinality(Muettes(g)) |->
           Chiffre(Parcourue(g, CHOOSE p \in (1 .. n) \ Muettes(g) : rang(p) = k))]
  BY DEF EncoderPlateau
<1> HIDE DEF n, rang
<1>7. EncoderPlateau(g) = [k \in 1 .. n |-> Chiffre(Parcourue(g, k))]
  BY <1>4, <1>5, <1>6
<1> QED
  BY <1>7 DEF n

\* What decode_plateau makes of the text of envoyer_plateau: rows and columns
\* agree.
LEMMA BoardLu ==
  ASSUME Lisible, NEW g \in [Case -> Status], NEW b, NEW reste
  PROVE  DecoderPlateau(EncoderPlateau(g), b, reste) =
           [c \in Case |-> IF g[c] \in {"MISSED_SHOT", "HIT_SHOT"} THEN g[c]
                           ELSE IF \E j \in Segment : b[j] = c THEN "BOAT" ELSE "EMPTY"]
<1> DEFINE k(c) == c[2] * taillePlateau + c[1] + 1
           s(c) == StatusLu(EncoderPlateau(g), k(c), reste)
<1>1. ASSUME NEW c \in Case
      PROVE  s(c) = IF g[c] \in {"MISSED_SHOT", "HIT_SHOT"} THEN g[c] ELSE "EMPTY"
  <2>1. c[1] \in Coord /\ c[2] \in Coord /\ c = <<c[1], c[2]>>
    BY DEF Case
  <2>2. /\ k(c) - 1 = c[2] * taillePlateau + c[1]
        /\ k(c) \in 1 .. taillePlateau * taillePlateau
        /\ (k(c) - 1) % taillePlateau = c[1] /\ (k(c) - 1) \div taillePlateau = c[2]
    <3> DEFINE n == c[2] * taillePlateau + c[1]
    <3>1. /\ n \in 0 .. taillePlateau * taillePlateau - 1
          /\ n % taillePlateau = c[1] /\ n \div taillePlateau = c[2]
      BY <2>1, Numero
    <3>2. k(c) = n + 1 /\ taillePlateau * taillePlateau \in Nat
      BY TailleAssumption
    <3> HIDE DEF n, k
    <3>3. k(c) - 1 = n /\ k(c) \in 1 .. taillePlateau * taillePlateau
      BY <3>1, <3>2
    <3> QED
      BY <3>1, <3>3 DEF n
  <2> HIDE DEF k
  <2>3. EncoderPlateau(g)[k(c)] = Chiffre(g[c])
    BY <2>1, <2>2, TexteEntier DEF Parcourue
  <2>4. k(c) <= Gardes(EncoderPlateau(g)) /\ k(c) # Gardes(EncoderPlateau(g)) + 1
    <3>1. taillePlateau * taillePlateau \in Nat
      BY TailleAssumption
    <3>2. Len(EncoderPlateau(g)) = taillePlateau * taillePlateau
      BY <3>1, TexteEntier
    <3> QED
      BY <2>2, <3>1, <3>2, InfosAssumption DEF Lisible, Gardes
  <2>5. s(c) = Lu(Chiffre(g[c]))
    BY <2>3, <2>4 DEF StatusLu
  <2>6. g[c] \in Status
    OBVIOUS
  <2> QED
    BY <2>5, <2>6 DEF Lu, Chiffre, Status
<1>2. DecoderPlateau(EncoderPlateau(g), b, reste) =
        [c \in Case |-> IF s(c) = "EMPTY" /\ \E j \in Segment : b[j] = c THEN "BOAT" ELSE s(c)]
  BY DEF DecoderPlateau
<1> HIDE DEF s
<1> QED
  BY <1>1, <1>2

----------------------------------------------------------------------------
(***************************************************************************)
(* The steps of the clients.                                               *)
(***************************************************************************)

\* A read takes the first message of the queue.
LEMMA Defile ==
  ASSUME NEW S, NEW q \in Seq(S), q # <<>>
  PROVE  /\ 1 \in 1 .. Len(q) /\ Head(q) = q[1]
         /\ \A k \in 1 .. Len(SubSeq(q, 2, Len(q))) :
              k + 1 \in 1 .. Len(q) /\ SubSeq(q, 2, Len(q))[k] = q[k + 1]
<1>1. Len(q) \in Nat /\ Len(q) >= 1 /\ Head(q) = q[1]
  OBVIOUS
<1>2. \A k \in 2 .. Len(q) : q[k] \in S
  BY <1>1, ElementOfSeq
<1>3. /\ Len(SubSeq(q, 2, Len(q))) = IF 2 <= Len(q) THEN Len(q) - 2 + 1 ELSE 0
      /\ \A k \in 1 .. Len(q) - 2 + 1 : SubSeq(q, 2, Len(q))[k] = q[2 + k - 1]
  <2>1. 2 \in Int /\ Len(q) \in Int
    BY <1>1
  <2> QED
    BY <1>2, <2>1, SubSeqProperties
<1> DEFINE n == Len(q)
           t == SubSeq(q, 2, n)
<1>4. /\ Len(t) = IF 2 <= n THEN n - 2 + 1 ELSE 0
      /\ \A k \in 1 .. n - 2 + 1 : t[k] = q[2 + k - 1]
  BY <1>3, Zenon
<1>5. n \in Nat /\ n >= 1
  BY <1>1
<1> HIDE DEF n, t
<1>6. Len(t) = n - 1
  BY <1>4, <1>5
<1>7. ASSUME NEW k \in 1 .. Len(t) PROVE k + 1 \in 1 .. n /\ t[k] = q[k + 1]
  <2>1. k \in 1 .. n - 2 + 1 /\ 2 + k - 1 = k + 1 /\ k + 1 \in 1 .. n
    BY <1>5, <1>6
  <2> QED
    BY <1>4, <2>1
<1> QED
  BY <1>1, <1>5, <1>7 DEF n, t

LEMMA ClientDefile ==
  ASSUME TypeOK, Fiable, NEW i \in Joueurs, NEW r \in Lectures(i)
  PROVE  /\ \A k \in 1 .. Len(r.reste) : k + 1 \in 1 .. Len(s2c[i]) /\ r.reste[k] = s2c[i][k + 1]
         /\ s2c[i] # <<>> /\ 1 \in 1 .. Len(s2c[i]) /\ r.m = s2c[i][1]
<1>1. s2c[i] # <<>> /\ s2c[i] \in Seq(MsgServeur)
  BY ClientAttend DEF TypeOK
<1>2. r = [m |-> Head(s2c[i]), reste |-> SubSeq(s2c[i], 2, Len(s2c[i]))]
  BY <1>1 DEF Lectures, Lecture, Fiable
<1>3. r.m = Head(s2c[i]) /\ r.reste = SubSeq(s2c[i], 2, Len(s2c[i]))
  BY <1>2
<1> QED
  BY <1>1, <1>3, Defile

\* What a client does with its queue: nothing, a read, or it closes it.
LEMMA ClientFile ==
  ASSUME TypeOK, NEW i \in Joueurs, Client(i)
  PROVE  \/ s2c'[i] = s2c[i] \/ s2c'[i] = <<>>
         \/ \E r \in Lectures(i) : s2c'[i] = r.reste
<1> USE DEF TypeOK, Lire
<1>1. CASE Acceptation(i) \/ AttentePartie(i) \/ EnvoyerBateau(i)
  BY <1>1 DEF Acceptation, AttentePartie, EnvoyerBateau
<1>2. CASE BateauRep(i) \/ RecevoirPlateau(i) \/ JouerCoup(i)
  BY <1>2 DEF BateauRep, RecevoirPlateau, JouerCoup
<1>3. CASE CoupRep(i) \/ GoMort(i) \/ MortRep(i) \/ RecevoirEtat(i)
  BY <1>3 DEF CoupRep, GoMort, MortRep, RecevoirEtat
<1>4. CASE FinTimer(i) \/ EnvoyerMort(i) \/ MenuPlacerBateau(i)
  BY <1>4 DEF FinTimer, EnvoyerMort, MenuPlacerBateau
<1>5. CASE Quitter(i) \/ Panne(i)
  BY <1>5 DEF Quitter, Panne, Fermer
<1> QED
  BY <1>1, <1>2, <1>3, <1>4, <1>5 DEF Client, ClientAuto

\* Which leaves of the messages under way those it had.
LEMMA CourrierClient ==
  ASSUME TypeOK, Fiable, NEW i \in Joueurs, Client(i), NEW j \in Joueurs, Courrier(j)
  PROVE  Courrier(j)'
<1>1. UNCHANGED plateau
  BY ClientSeul
<1>2. CASE s2c'[j] = s2c[j]
  BY <1>1, <1>2 DEF Courrier, plateau
<1>3. CASE s2c'[j] = <<>>
  BY <1>3 DEF Courrier
<1>4. CASE j = i /\ \E r \in Lectures(i) : s2c'[i] = r.reste
  <2>1. PICK r \in Lectures(i) : s2c'[i] = r.reste
    BY <1>4
  <2>2. \A k \in 1 .. Len(r.reste) : k + 1 \in 1 .. Len(s2c[i]) /\ r.reste[k] = s2c[i][k + 1]
    BY <2>1, ClientDefile
  <2> QED
    BY <1>1, <1>4, <2>1, <2>2 DEF Courrier, plateau
<1>5. j # i => s2c'[j] = s2c[j]
  BY ClientSeul DEF Intouche
<1> QED
  BY <1>2, <1>3, <1>4, <1>5, ClientFile

\* Where a client can be.
LEMMA Lieux ==
  ASSUME TypeOK, EnCours \/ JeuFini, NEW i \in Joueurs
  PROVE  /\ cpc[i] # "sortie"
         /\ phase \in AvantJeu => cpc[i] # "etat"
         /\ phase = "etat_ack" => cpc[i] # "bateau_rep"
<1>1. CASE Etape(i)
  <2>1. Etape(i) /\ phase \in Phases
    BY <1>1 DEF TypeOK
  <2> QED
    BY <2>1 DEF Phases, AvantJeu, Etape, Inscrit, Avise, Informe, Demande, Pret, Montre, Voit,
       Appele, Vise, Tire, Juge, Sait, Ailleurs, AttendGo, ApresPlateau, Joue, AJoue
<1>2. CASE JeuFini
  <2>1. Apres(i) /\ phase \in Phases
    BY <1>2 DEF JeuFini, TypeOK
  <2> QED
    BY <2>1 DEF Phases, AvantJeu, Apres, Calme, Prevenu, Parti, Final
<1>3. CASE Eteint(i)
  BY <1>3 DEF Eteint, Ferme
<1> QED
  BY <1>1, <1>2, <1>3 DEF EnCours

\* The deaths that were.
LEMMA PannesClient ==
  ASSUME TypeOK, NEW i \in Joueurs, Client(i)
  PROVE  /\ pannes \in Int /\ pannes' \in Int /\ pannes' <= pannes
         /\ Panne(i) => pannes' < Pannes
<1>1. pannes \in Int /\ pannes <= Pannes /\ Pannes \in Int
  BY PannesAssumption DEF TypeOK
<1>2. CASE Panne(i)
  BY <1>1, <1>2 DEF Panne
<1>3. CASE ~Panne(i)
  BY <1>1, <1>3, ClientSeul
<1> QED
  BY <1>2, <1>3

\* The position and the state of a client after its step.
LEMMA ClientEtat ==
  ASSUME TypeOK, EnCours \/ JeuFini, NEW i \in Joueurs, Client(i), Ages(i),
         ~RecevoirEtat(i)
  PROVE  /\ cetat'[i] = cetat[i]
         /\ cpc'[i] # "fin"
         /\ cpc'[i] = "ferme" => cpc[i] = "fin" \/ Panne(i)
         /\ cpc'[i] = "plateau" => cpc[i] = "bateau_rep"
         /\ cpc'[i] \in {"infos", "ordre", "placer", "bateau_rep"} =>
              cpc[i] \in {"acceptation", "infos", "ordre", "placer", "bateau_rep"}
         /\ cpc'[i] # "acceptation" /\ cpc[i] # "ferme"
<1>0. cpc[i] # "sortie" /\ cpc[i] # "ferme"
  BY Lieux, Garde DEF Panne
<1> USE DEF TypeOK, Lire
<1>1. CASE Acceptation(i)
  BY <1>0, <1>1 DEF Acceptation
<1>2. CASE AttentePartie(i)
  BY <1>0, <1>2 DEF AttentePartie
<1>3. CASE EnvoyerBateau(i) \/ MenuPlacerBateau(i)
  BY <1>0, <1>3 DEF EnvoyerBateau, MenuPlacerBateau
<1>4. CASE BateauRep(i)
  BY <1>0, <1>4 DEF BateauRep, Ages
<1>5. CASE RecevoirPlateau(i)
  BY <1>0, <1>5 DEF RecevoirPlateau, ApresPlateau
<1>6. CASE JouerCoup(i) \/ FinTimer(i) \/ CoupRep(i)
  BY <1>0, <1>6 DEF JouerCoup, FinTimer, CoupRep
<1>7. CASE GoMort(i) \/ EnvoyerMort(i) \/ MortRep(i)
  BY <1>0, <1>7 DEF GoMort, EnvoyerMort, MortRep
<1>8. CASE Quitter(i)
  BY <1>0, <1>8 DEF Quitter, Fermer
<1>9. CASE Panne(i)
  BY <1>0, <1>9 DEF Panne, Fermer
<1> QED
  BY <1>1, <1>2, <1>3, <1>4, <1>5, <1>6, <1>7, <1>8, <1>9 DEF Client, ClientAuto

\* A client that reads a verdict reads its own, on the boats as they are.
LEMMA EtatLu ==
  ASSUME TypeOK, Fiable, EnCours \/ JeuFini, NEW i \in Joueurs, RecevoirEtat(i), Courrier(i)
  PROVE  /\ phase = "etat_ack" /\ i = idx /\ cetat[i] \in {"EN_JEU", "DEAD"} /\ cpc[i] = "etat"
         /\ cetat'[i] = EtatApres(cetat[i], Verdict(bateaux, nbBateau, i))
         /\ cpc'[i] = IF cetat'[i] \in Fins THEN "fin" ELSE "plateau"
<1>1. cpc[i] = "etat"
  BY DEF RecevoirEtat
<1>2. PICK r \in Lectures(i) :
        /\ cetat'[i] = EtatApres(cetat[i], r.m.id)
        /\ cpc'[i] = IF cetat'[i] \in Fins THEN "fin" ELSE "plateau"
  <2>1. PICK r \in Lectures(i) :
          /\ Lire(i, r, IF EtatApres(cetat[i], r.m.id) \in {"FIN_WIN", "FIN_LOSE"}
                        THEN "fin" ELSE "plateau")
          /\ cetat' = [cetat EXCEPT ![i] = EtatApres(cetat[i], r.m.id)]
    BY DEF RecevoirEtat
  <2> QED
    BY <2>1 DEF Lire, TypeOK, Fins
<1>3. s2c[i] # <<>>
  BY <1>2, ClientAttend
<1>4. Etape(i)
  BY <1>1 DEF EnCours, Eteint, Ferme, JeuFini, Apres, AvantJeu, Calme, Prevenu, Parti, Final,
     TypeOK, Phases
<1>5. phase = "etat_ack" /\ i = idx /\ Juge(i)
  <2>1. Etape(i) /\ phase \in Phases /\ idx \in Int
    BY <1>4 DEF TypeOK
  <2> QED
    BY <1>1, <1>3, <2>1 DEF Phases, Etape, Inscrit, Avise, Informe, Demande, Pret, Montre, Voit,
       Appele, Vise, Tire, Sait, Ailleurs, AttendGo, ApresPlateau, Joue, AJoue
<1>6. Un(s2c[i], Sorts) /\ cetat[i] \in {"EN_JEU", "DEAD"}
  BY <1>1, <1>3, <1>5 DEF Juge, AJoue, Ailleurs, Present
<1>7. r.m = s2c[i][1] /\ 1 \in 1 .. Len(s2c[i])
  BY <1>3, ClientDefile
<1>8. r.m.id \in 7 .. 10
  BY <1>6, <1>7 DEF Un, Sorts, DId
<1>9. r.m.id = Verdict(bateaux, nbBateau, i)
  BY <1>7, <1>8 DEF Courrier
<1> QED
  BY <1>1, <1>2, <1>5, <1>6, <1>9

LEMMA AgesClient ==
  ASSUME TypeOK, Fiable, EnCours \/ JeuFini, NEW i \in Joueurs, Client(i),
         NEW j \in Joueurs, Ages(j), Courrier(j)
  PROVE  Ages(j)'
<1>1. /\ phase' = phase
      /\ pannes < Pannes => pannes' < Pannes
  BY ClientSeul, PannesClient, PannesAssumption DEF serveur
<1>2. CASE j # i
  BY <1>1, <1>2, ClientSeul DEF Intouche, Ages
<1>3. CASE j = i /\ RecevoirEtat(i)
  BY <1>1, <1>3, EtatLu DEF Ages, AvantJeu
<1>4. CASE j = i /\ ~RecevoirEtat(i)
  BY <1>1, <1>4, ClientEtat, PannesClient DEF Ages
<1> QED
  BY <1>2, <1>3, <1>4

LEMMA JugementClient ==
  ASSUME TypeOK, Fiable, EnCours \/ JeuFini, nbBateau = nbJoueur \/ phase \in AvantJeu,
         \A k \in Joueurs : Longueur(k),
         NEW i \in Joueurs, Client(i), NEW j \in Joueurs, Ages(j), Courrier(j), Jugement(j)
  PROVE  Jugement(j)'
<1>1. UNCHANGED <<phase, idx, bateaux>>
  BY ClientSeul DEF serveur, plateau
<1>2. \A e : (Coule(bateaux, j)' <=> Coule(bateaux, j)) /\ (Juste(e, j)' <=> Juste(e, j))
  BY <1>1 DEF Juste, Autres
<1>3. CASE j # i
  BY <1>1, <1>2, <1>3, ClientSeul DEF Intouche, Jugement, AuCourant
<1>4. CASE j = i /\ RecevoirEtat(i)
  <2>1. /\ phase = "etat_ack" /\ cetat[i] \in {"EN_JEU", "DEAD"}
        /\ cetat'[i] = EtatApres(cetat[i], Verdict(bateaux, nbBateau, i))
    BY <1>4, EtatLu
  <2>2. nbBateau = nbJoueur /\ \A k \in Joueurs : bateaux[k].taille = tailleBateau
    BY <2>1 DEF AvantJeu, Longueur
  <2>3. Juste(cetat'[i], i)
    BY <1>4, <2>1, <2>2, VerdictDit DEF Jugement
  <2>4. cetat'[i] = "DEAD" => Coule(bateaux, i)
    BY <2>3 DEF Juste
  <2> QED
    BY <1>2, <1>4, <2>3, <2>4 DEF Jugement
<1>5. CASE j = i /\ ~RecevoirEtat(i)
  <2>1. AuCourant(i)' => AuCourant(i)
    BY <1>1, <1>5, ClientEtat, Lieux DEF AuCourant
  <2> QED
    BY <1>2, <1>5, <2>1, ClientEtat DEF Jugement
<1> QED
  BY <1>3, <1>4, <1>5

\* The client that reads a board reads the one of this round.
LEMMA AffichageClient ==
  ASSUME TypeOK, Fiable, Lisible, Nette, EnCours \/ JeuFini, NEW i \in Joueurs, Client(i),
         NEW j \in Joueurs, Courrier(j), Affichage(j)
  PROVE  Affichage(j)'
<1>1. UNCHANGED phase /\ UNCHANGED plateau
  BY ClientSeul DEF serveur
<1>2. CASE RecevoirPlateau(i) /\ j = i
  <2>1. PICK r \in Lectures(i) :
          r.m.id = 2 => \E reste \in Reste(r.m.infos) :
            vue' = [vue EXCEPT ![i] = DecoderPlateau(r.m.infos, bateau[i], reste)]
    BY <1>2 DEF RecevoirPlateau
  <2>2. s2c[i] # <<>> /\ cpc[i] = "plateau" /\ s2c[i] \in Seq(MsgServeur)
    BY <1>2, <2>1, ClientAttend DEF RecevoirPlateau, TypeOK
  <2>3. Descend(i)
    BY EnRoute
  <2>4. Un(s2c[i], DId({2}))
    BY <2>2, <2>3 DEF Descend, AttenduClient
  <2>5. r.m = s2c[i][1] /\ 1 \in 1 .. Len(s2c[i])
    BY ClientDefile
  <2>6. r.m.id = 2 /\ r.m.infos = EncoderPlateau(cell)
    BY <1>2, <2>4, <2>5 DEF Un, DId, Courrier
  <2>7. PICK reste : vue'[i] = DecoderPlateau(EncoderPlateau(cell), bateau[i], reste)
    BY <2>1, <2>6 DEF TypeOK
  <2>8. vue'[i] = VuePublique(i)
    BY <2>7, BoardLu DEF VuePublique, Nette
  <2>9. cell' = cell /\ bateau' = bateau
    BY <1>1, <1>2 DEF plateau, RecevoirPlateau
  <2> QED
    BY <1>2, <2>8, <2>9 DEF Affichage, VuePublique
<1>3. CASE ~RecevoirPlateau(i) \/ j # i
  <2> DEFINE A == {"go", "go_mort", "jouer", "coup_rep", "mort", "mort_rep"}
  <2>1. cpc'[j] \in A => cpc[j] \in A /\ vue'[j] = vue[j] /\ bateau'[j] = bateau[j]
    <3> USE DEF TypeOK, Lire
    <3>1. CASE Acceptation(i) \/ EnvoyerBateau(i) \/ BateauRep(i)
      BY <3>1 DEF Acceptation, EnvoyerBateau, BateauRep
    <3>2. CASE AttentePartie(i)
      BY <3>2 DEF AttentePartie
    <3>3. CASE MenuPlacerBateau(i)
      BY <3>3 DEF MenuPlacerBateau
    <3>4. CASE RecevoirPlateau(i)
      BY <1>3, <3>4 DEF RecevoirPlateau
    <3>5. CASE JouerCoup(i) \/ FinTimer(i) \/ CoupRep(i)
      BY <3>5 DEF JouerCoup, FinTimer, CoupRep
    <3>6. CASE GoMort(i) \/ EnvoyerMort(i) \/ MortRep(i)
      BY <3>6 DEF GoMort, EnvoyerMort, MortRep
    <3>7. CASE RecevoirEtat(i)
      BY <3>7 DEF RecevoirEtat
    <3>8. CASE Quitter(i) \/ Panne(i)
      BY <3>8 DEF Quitter, Panne, Fermer
    <3> QED
      BY <3>1, <3>2, <3>3, <3>4, <3>5, <3>6, <3>7, <3>8 DEF Client, ClientAuto
  <2>2. cell' = cell
    BY <1>1 DEF plateau
  <2> QED
    BY <1>1, <2>1, <2>2 DEF Affichage, VuePublique
<1> QED
  BY <1>2, <1>3

----------------------------------------------------------------------------
(***************************************************************************)
(* The steps of the server.                                                *)
(***************************************************************************)

\* Only the boats and the shots change the board.
LEMMA PlateauFixe ==
  ASSUME Serveur \/ Lancer, ~RecevoirBateau, ~RecevoirTir
  PROVE  UNCHANGED plateau
<1>1. CASE EnvoyerInfos \/ EnvoyerPlateau \/ EnvoyerGo \/ EnvoyerEtat
  BY <1>1 DEF EnvoyerInfos, EnvoyerPlateau, EnvoyerGo, EnvoyerEtat, EnvoyerPuis
<1>2. CASE InfosAck \/ PlateauAck \/ GoAck \/ EtatAck
  BY <1>2 DEF InfosAck, PlateauAck, GoAck, EtatAck, RecevoirAck
<1>3. CASE Lancer \/ DemanderBateaux \/ VerifierFinPartie \/ EcritureFatale
  BY <1>3 DEF Lancer, DemanderBateaux, VerifierFinPartie, EcritureFatale
<1> QED
  BY <1>1, <1>2, <1>3 DEF Serveur

\* Every boat that was received keeps its length.
LEMMA LongueurServeur ==
  ASSUME TypeOK, Fiable, Anneau, EnCours \/ JeuFini \/ Arret, Serveur \/ Lancer,
         NEW i \in Joueurs, Longueur(i)
  PROVE  Longueur(i)'
<1>1. CASE phase \notin AvantJeu
  <2>1. CASE RecevoirTir
    <3>1. i \in 0 .. MAX_BATEAUX - 1
      BY BateauxAssumption, JoueurAssumption DEF Joueurs
    <3>2. i \in DOMAIN bateaux
      BY <3>1 DEF TypeOK
    <3>3. \A c : TirerBateau(bateaux, c, nbBateau)[i].taille = bateaux[i].taille
      BY <3>2 DEF TirerBateau
    <3>4. bateaux' = bateaux \/ \E c : bateaux' = TirerBateau(bateaux, c, nbBateau)
      BY <2>1 DEF RecevoirTir, Tirer
    <3> QED
      BY <1>1, <3>3, <3>4 DEF Longueur
  <2>2. CASE ~RecevoirTir
    BY <1>1, <2>2, ApresPlacement DEF Longueur
  <2> QED
    BY <2>1, <2>2
<1>2. CASE phase = "poll"
  <2>1. EnPas /\ RecevoirBateau
    BY <1>2, Debut, PollServeur DEF AvantJeu
  <2>2. PICK k \in Joueurs : k = idx
    BY <2>1 DEF RecevoirBateau
  <2>3. PICK p \in Placements :
          /\ bateaux' = [bateaux EXCEPT ![k] = BateauPlace(p[1], p[2], p[3])]
          /\ k \in DOMAIN bateaux
          /\ IF k + 1 = nbJoueur THEN phase' = "pause" ELSE phase' = "poll" /\ idx' = k + 1
    BY <2>1, <2>2, BateauCompte
  <2>4. CASE i = k
    BY <2>3, <2>4 DEF Longueur, BateauPlace
  <2>5. CASE i < k
    <3>1. bateaux'[i] = bateaux[i]
      BY <2>3, <2>5 DEF Joueurs
    <3> QED
      BY <1>2, <2>2, <2>5, <3>1 DEF Longueur
  <2>6. CASE k < i
    BY <2>3, <2>6, JoueurAssumption DEF Longueur, Joueurs, AvantJeu
  <2> QED
    BY <2>4, <2>5, <2>6 DEF Joueurs
<1>3. CASE phase \in AvantJeu /\ phase # "poll"
  <2>1. EnPas /\ phase \in {"infos", "infos_ack", "bateaux"}
    BY <1>3, Debut DEF AvantJeu
  <2> QED
    BY <2>1, AvantPlacement DEF Longueur, AvantJeu, Joueurs
<1> QED
  BY <1>1, <1>2, <1>3 DEF AvantJeu

\* The two records of a boat are kept equal: by a boat that is placed over it,
\* which leaves its cells boat cells, and by the shots.
LEMMA RegistreServeur ==
  ASSUME TypeOK, Fiable, Anneau, EnCours \/ JeuFini \/ Arret, Serveur \/ Lancer,
         NEW i \in Joueurs, Registre(i)
  PROVE  Registre(i)'
<1>0. /\ cell \in [Case -> Contenu] /\ bateaux \in [0 .. MAX_BATEAUX - 1 -> Bateau]
      /\ i \in 0 .. MAX_BATEAUX - 1
  BY BateauxAssumption, JoueurAssumption DEF TypeOK, Joueurs
<1>1. CASE phase \notin AvantJeu
  <2>1. phase' \notin AvantJeu /\ i < nbBateau
    <3>1. nbBateau = nbJoueur
      BY <1>1 DEF Anneau
    <3>2. i < nbJoueur
      BY JoueurAssumption DEF Joueurs
    <3> QED
      BY <1>1, <3>1, <3>2, ApresPlacement
  <2>2. Accord(cell, bateaux[i])
    BY <1>1 DEF Registre
  <2>3. Accord(cell', bateaux'[i])
    <3>1. CASE RecevoirTir
      <4>1. PICK r \in Lecture(c2s[idx], conn[idx], Residus) :
              IF EstTir(r.m) THEN Tirer(<<r.m.infos[2], r.m.infos[1]>>)
                             ELSE UNCHANGED <<cell, bateaux>>
        BY <3>1 DEF RecevoirTir
      <4>2. CASE EstTir(r.m)
        <5> DEFINE c == <<r.m.infos[2], r.m.infos[1]>>
        <5>1. c \in Case
          BY <4>2 DEF EstTir
        <5>2. /\ cell' = [cell EXCEPT ![c] = Touche(@)]
              /\ bateaux' = IF cell[c] = "BOAT" THEN TirerBateau(bateaux, c, nbBateau) ELSE bateaux
          BY <4>1, <4>2 DEF Tirer
        <5> HIDE DEF c
        <5>3. CASE cell[c] = "BOAT"
          BY <1>0, <2>1, <2>2, <5>1, <5>2, <5>3, TirerTouche
        <5>4. CASE cell[c] # "BOAT"
          BY <1>0, <2>2, <5>1, <5>2, <5>4, TirerEau
        <5> QED
          BY <5>3, <5>4
      <4> QED
        BY <2>2, <4>1, <4>2
    <3>2. CASE ~RecevoirTir
      <4>1. UNCHANGED plateau
        BY <1>1, <3>2, PlateauFixe DEF RecevoirBateau, AvantJeu
      <4> QED
        BY <2>2, <4>1 DEF plateau
    <3> QED
      BY <3>1, <3>2
  <2> QED
    BY <2>1, <2>3 DEF Registre, AvantJeu
<1>2. CASE phase = "poll"
  <2>1. EnPas /\ RecevoirBateau
    BY <1>2, Debut, PollServeur DEF AvantJeu
  <2>2. PICK k \in Joueurs : k = idx
    BY <2>1 DEF RecevoirBateau
  <2>3. PICK p \in Placements :
          /\ bateaux' = [bateaux EXCEPT ![k] = BateauPlace(p[1], p[2], p[3])]
          /\ cell' = CasesPlacees(cell, p[1], p[2], p[3])
          /\ k \in DOMAIN bateaux
          /\ IF k + 1 = nbJoueur THEN phase' = "pause" ELSE phase' = "poll" /\ idx' = k + 1
    BY <2>1, <2>2, BateauCompte
  <2>4. /\ p[1] \in Coord /\ p[2] \in Coord /\ p[3] \in Direction
        /\ \A n \in Segment : Position(p[1], p[2], p[3], n) \in Case
    BY PlacementsAssumption
  <2>5. i <= k => Intact(cell', bateaux'[i])
    <3>1. CASE i = k
      <4>1. bateaux'[i] = BateauPlace(p[1], p[2], p[3])
        BY <2>3, <3>1
      <4> QED
        BY <1>0, <2>3, <2>4, <4>1, PlacerType
    <3>2. CASE i < k
      <4>1. bateaux'[i] = bateaux[i] /\ bateaux[i] \in Bateau
        BY <1>0, <2>3, <3>2 DEF Joueurs
      <4>2. Intact(cell, bateaux[i])
        BY <1>2, <2>2, <3>2 DEF Registre
      <4> QED
        BY <1>0, <2>3, <4>1, <4>2, PlacerIntact
    <3> QED
      BY <3>1, <3>2 DEF Joueurs
  <2>6. CASE k + 1 = nbJoueur
    <3>1. phase' = "pause" /\ i <= k
      BY <2>3, <2>6, JoueurAssumption DEF Joueurs
    <3> QED
      BY <2>5, <3>1, IntactAccord DEF Registre
  <2>7. CASE k + 1 # nbJoueur
    BY <2>3, <2>5, <2>7 DEF Registre, Joueurs, AvantJeu
  <2> QED
    BY <2>6, <2>7
<1>3. CASE phase \in AvantJeu /\ phase # "poll"
  <2>1. EnPas /\ phase \in {"infos", "infos_ack", "bateaux"}
    BY <1>3, Debut DEF AvantJeu
  <2> QED
    BY <2>1, AvantPlacement DEF Registre, AvantJeu, Joueurs
<1> QED
  BY <1>1, <1>2, <1>3 DEF AvantJeu

\* Boats and shots write values of the enum.
LEMMA NetteServeur ==
  ASSUME TypeOK, Fiable, Anneau, EnCours \/ JeuFini \/ Arret, Serveur \/ Lancer, Nette
  PROVE  Nette'
<1>1. CASE RecevoirBateau
  <2>1. EnPas
    BY <1>1, Debut DEF AvantJeu, RecevoirBateau
  <2>2. PICK k \in Joueurs : k = idx
    BY <1>1 DEF RecevoirBateau
  <2>3. PICK p \in Placements : cell' = CasesPlacees(cell, p[1], p[2], p[3])
    BY <1>1, <2>1, <2>2, BateauCompte
  <2> QED
    BY <2>3 DEF Nette, CasesPlacees, Status
<1>2. CASE RecevoirTir
  <2>1. PICK r \in Lecture(c2s[idx], conn[idx], Residus) :
          IF EstTir(r.m) THEN Tirer(<<r.m.infos[2], r.m.infos[1]>>)
                         ELSE UNCHANGED <<cell, bateaux>>
    BY <1>2 DEF RecevoirTir
  <2>2. \A s : Touche(s) \in Status
    BY DEF Touche, Status
  <2> QED
    BY <2>1, <2>2 DEF Tirer, Nette
<1>3. CASE ~RecevoirBateau /\ ~RecevoirTir
  BY <1>3, PlateauFixe DEF plateau, Nette
<1> QED
  BY <1>1, <1>2, <1>3

\* The ages of the clients: the placement does not come again.
LEMMA AgesServeur ==
  ASSUME TypeOK, Anneau, Serveur \/ Lancer, NEW i \in Joueurs, Ages(i)
  PROVE  Ages(i)'
<1>1. cpc' = cpc /\ cetat' = cetat /\ pannes' = pannes
  BY ServeurSeul DEF clients
<1>2. phase' \in AvantJeu => phase \in AvantJeu
  BY ApresPlacement
<1> QED
  BY <1>1, <1>2 DEF Ages

\* A write, as the queue of player j sees it.
LEMMA EnvoyerFile ==
  ASSUME TypeOK, NEW k, NEW m, Envoyer(k, m), NEW j \in Joueurs
  PROVE  s2c'[j] = s2c[j] \/ (j = k /\ s2c'[j] = Append(s2c[j], m))
  BY DEF Envoyer, TypeOK

\* What a message m behind the others has to say for the mail of player j to
\* stay true.
Vrai(j, m) ==
  /\ m.id = 2 => m.infos = EncoderPlateau(cell)
  /\ m.id \in 7 .. 10 => m.id = Verdict(bateaux, nbBateau, j)

LEMMA CourrierAjout ==
  ASSUME TypeOK, UNCHANGED plateau, NEW j \in Joueurs, Courrier(j),
         NEW m \in MsgServeur, Vrai(j, m), s2c'[j] = Append(s2c[j], m)
  PROVE  Courrier(j)'
<1> DEFINE q == s2c[j]
<1>1. q \in Seq(MsgServeur)
  BY DEF TypeOK
<1>2. /\ Len(Append(q, m)) = Len(q) + 1 /\ Append(q, m)[Len(q) + 1] = m
      /\ \A k \in 1 .. Len(q) : Append(q, m)[k] = q[k]
  BY <1>1, AppendProperties
<1>3. Len(q) \in Nat
  BY <1>1
<1>4. ASSUME NEW k \in 1 .. Len(s2c'[j])
      PROVE  Vrai(j, s2c'[j][k])
  <2>1. k \in 1 .. Len(q) \/ k = Len(q) + 1
    BY <1>2, <1>3
  <2>2. CASE k \in 1 .. Len(q)
    BY <1>2, <2>2 DEF Courrier, Vrai
  <2>3. CASE k = Len(q) + 1
    BY <1>2, <2>3
  <2> QED
    BY <2>1, <2>2, <2>3
<1> QED
  BY <1>4 DEF Vrai, Courrier, plateau

\* Nothing under way says anything of the board.
LEMMA SansCourrier ==
  ASSUME NEW j, s2c'[j] = <<>> \/ Un(s2c'[j], {Ok}) \/ Un(s2c'[j], DId({3}))
  PROVE  Courrier(j)'
<1>1. \A k \in 1 .. Len(s2c'[j]) : s2c'[j][k].id \in {0, 3}
  BY DEF Un, DId, Ok, Req
<1> QED
  BY <1>1 DEF Courrier

\* The server writes what its board says.
LEMMA EcritVrai ==
  ASSUME TypeOK, Serveur \/ Lancer, ~RecevoirBateau, ~RecevoirTir, NEW j \in Joueurs
  PROVE  \/ s2c'[j] = s2c[j]
         \/ \E m \in MsgServeur : Vrai(j, m) /\ s2c'[j] = Append(s2c[j], m)
<1>1. CASE EnvoyerInfos
  <2> DEFINE m == Req(4, "infos", <<nbJoueur, taillePlateau, tailleBateau>>)
  <2>1. m \in MsgServeur /\ Vrai(j, m)
    BY TailleAssumption, JoueurAssumption DEF Req, MsgServeur, Vrai
  <2> QED
    BY <1>1, <2>1, EnvoyerFile DEF EnvoyerInfos, EnvoyerPuis
<1>2. CASE DemanderBateaux
  <2> DEFINE m == Req(3, "bateaux", <<>>)
  <2>1. m \in MsgServeur /\ Vrai(j, m)
    BY EmptySeq DEF Req, MsgServeur, Vrai
  <2> QED
    BY <1>2, <2>1, EnvoyerFile DEF DemanderBateaux
<1>3. CASE EnvoyerPlateau
  <2> DEFINE m == Req(2, "plateau", EncoderPlateau(cell))
  <2>1. m \in MsgServeur
    BY EncoderType DEF Req, MsgServeur, TypeOK
  <2>2. Vrai(j, m)
    BY DEF Req, Vrai
  <2> HIDE DEF m
  <2>3. Envoyer(idx, m)
    BY <1>3 DEF EnvoyerPlateau, EnvoyerPuis, m
  <2> QED
    BY <2>1, <2>2, <2>3, EnvoyerFile
<1>4. CASE EnvoyerGo
  <2> DEFINE m == Req(5, "go", <<>>)
  <2>1. m \in MsgServeur /\ Vrai(j, m)
    BY EmptySeq DEF Req, MsgServeur, Vrai
  <2> QED
    BY <1>4, <2>1, EnvoyerFile DEF EnvoyerGo, EnvoyerPuis
<1>5. CASE EnvoyerEtat
  <2> DEFINE v == Verdict(bateaux, nbBateau, idx)
             m == Req(v, NomEtat(v), <<>>)
  <2>1. m \in MsgServeur /\ v \in Int /\ v # 2
    BY VerdictSort DEF Verdict
  <2>2. j = idx => Vrai(j, m)
    BY <2>1 DEF Req, Vrai
  <2> HIDE DEF m
  <2>3. Envoyer(idx, m)
    BY <1>5 DEF EnvoyerEtat, EnvoyerPuis, m
  <2> QED
    BY <2>1, <2>2, <2>3, EnvoyerFile
<1>6. CASE InfosAck \/ PlateauAck \/ GoAck \/ EtatAck
  BY <1>6 DEF InfosAck, PlateauAck, GoAck, EtatAck, RecevoirAck
<1>7. CASE Lancer \/ VerifierFinPartie \/ EcritureFatale
  BY <1>7 DEF Lancer, VerifierFinPartie, EcritureFatale, reseau
<1> QED
  BY <1>1, <1>2, <1>3, <1>4, <1>5, <1>6, <1>7 DEF Serveur

LEMMA CourrierServeur ==
  ASSUME TypeOK, Fiable, Anneau, EnCours \/ JeuFini \/ Arret, Serveur \/ Lancer,
         NEW j \in Joueurs, Courrier(j)
  PROVE  Courrier(j)'
<1>1. CASE RecevoirBateau
  <2>1. EnPas
    BY <1>1, Debut DEF AvantJeu, RecevoirBateau
  <2>2. Etape(j)'
    BY <1>1, <2>1, RecevoirBateauEnPas DEF EnPas
  <2>3. phase' \in {"poll", "pause"}
    <3>1. PICK k \in Joueurs : k = idx
      BY <1>1 DEF RecevoirBateau
    <3> QED
      BY <1>1, <2>1, <3>1, BateauCompte
  <2>4. (Pret(j) \/ Demande(j))'
    BY <2>2, <2>3 DEF Etape
  <2> QED
    BY <2>4, SansCourrier DEF Pret, Demande
<1>2. CASE RecevoirTir
  <2>1. phase' \in {"tir", "verif"} /\ ~EcritureFatale
    <3>1. phase = "tir" /\ Boucler("tir", "verif")
      BY <1>2, PasTrop DEF RecevoirTir, AvantJeu
    <3> QED
      BY <3>1 DEF Boucler, EcritureFatale
  <2>2. (Tire(j) \/ Vise(j) \/ Parti(j) \/ Ferme(j))'
    <3>1. CASE Etape(j)
      <4>1. Etape(j)'
        BY <1>2, <3>1, RecevoirTirEtape
      <4> QED
        BY <2>1, <4>1 DEF Etape
    <3>2. CASE JeuFini
      <4>1. Apres(j)'
        BY <1>2, <3>2, TourSeul DEF JeuFini
      <4> QED
        BY <2>1, <4>1 DEF Apres
    <3>3. CASE Eteint(j)
      BY <2>1, <3>3, EteintServeur DEF Eteint
    <3> QED
      BY <3>1, <3>2, <3>3, ArretFini DEF EnCours
  <2> QED
    BY <2>2, SansCourrier DEF Tire, Vise, Parti, Ferme
<1>3. CASE ~RecevoirBateau /\ ~RecevoirTir
  <2>1. UNCHANGED plateau
    BY <1>3, PlateauFixe
  <2>2. CASE s2c'[j] = s2c[j]
    BY <2>1, <2>2 DEF Courrier, plateau
  <2>3. CASE \E m \in MsgServeur : Vrai(j, m) /\ s2c'[j] = Append(s2c[j], m)
    BY <2>1, <2>3, CourrierAjout
  <2> QED
    BY <1>3, <2>2, <2>3, EcritVrai
<1> QED
  BY <1>1, <1>2, <1>3

\* The rounds begin with every boat afloat.
LEMMA FlotteNeuve ==
  ASSUME TypeOK, Fiable, Anneau, EnPas, RecevoirBateau, phase' = "pause",
         \A k \in Joueurs : Longueur(k) /\ Registre(k), NEW i \in Joueurs
  PROVE  ~Coule(bateaux', i)
<1>1. PICK k \in Joueurs : k = idx
  BY DEF RecevoirBateau
<1>2. PICK p \in Placements :
        /\ bateaux' = [bateaux EXCEPT ![k] = BateauPlace(p[1], p[2], p[3])]
        /\ k \in DOMAIN bateaux
        /\ IF k + 1 = nbJoueur THEN phase' = "pause" ELSE phase' = "poll" /\ idx' = k + 1
  BY <1>1, BateauCompte
<1>3. phase = "poll" /\ k + 1 = nbJoueur
  BY <1>2 DEF RecevoirBateau
<1>4. 0 \in Segment
  BY TailleAssumption DEF Segment
<1>5. CASE i = k
  <2>1. bateaux'[i].cell[0].status = "BOAT"
    BY <1>2, <1>4, <1>5 DEF BateauPlace
  <2> QED
    BY <1>4, <2>1 DEF Coule
<1>6. CASE i # k
  <2>1. bateaux'[i] = bateaux[i] /\ i < k
    BY <1>2, <1>3, <1>6, JoueurAssumption DEF Joueurs
  <2>2. bateaux[i].taille = tailleBateau
    BY <1>1, <1>3, <2>1 DEF Longueur
  <2>4. Intact(cell, bateaux[i])
    BY <1>1, <1>3, <2>1 DEF Registre
  <2>5. bateaux[i].cell[0].status = "BOAT"
    BY <1>4, <2>2, <2>4, TailleAssumption DEF Intact
  <2> QED
    BY <1>4, <2>1, <2>5 DEF Coule
<1> QED
  BY <1>5, <1>6

\* A boat stays sunk.
LEMMA CouleReste ==
  ASSUME TypeOK, Anneau, Serveur \/ Lancer, phase \notin AvantJeu,
         NEW i \in Joueurs, Coule(bateaux, i)
  PROVE  Coule(bateaux', i)
<1>1. CASE RecevoirTir
  <2>1. i \in 0 .. MAX_BATEAUX - 1
    BY BateauxAssumption, JoueurAssumption DEF Joueurs
  <2>2. i \in DOMAIN bateaux
    BY <2>1 DEF TypeOK
  <2>3. \A c : Coule(TirerBateau(bateaux, c, nbBateau), i)
    BY <2>2 DEF TirerBateau, Coule
  <2>4. bateaux' = bateaux \/ \E c : bateaux' = TirerBateau(bateaux, c, nbBateau)
    BY <1>1 DEF RecevoirTir, Tirer
  <2> QED
    BY <2>3, <2>4
<1>2. CASE ~RecevoirTir
  BY <1>2, ApresPlacement
<1> QED
  BY <1>1, <1>2

\* A step of the server makes nobody count as told who was not: the
\* acknowledgement it reads was sent when the verdict had been read.
LEMMA AuCourantServeur ==
  ASSUME TypeOK, Fiable, Anneau, EnCours \/ JeuFini \/ Arret, Serveur \/ Lancer,
         ~RecevoirBateau, ~RecevoirTir, NEW j \in Joueurs, AuCourant(j)'
  PROVE  AuCourant(j)
<1>0. cpc' = cpc
  BY ServeurSeul DEF clients
<1>1. CASE EnvoyerInfos \/ DemanderBateaux \/ EcritureFatale
  BY <1>1 DEF EnvoyerInfos, EnvoyerPuis, DemanderBateaux, Boucler, EcritureFatale, AuCourant
<1>2. CASE InfosAck
  BY <1>2 DEF InfosAck, RecevoirAck, Boucler, AuCourant
<1>3. CASE Lancer \/ EnvoyerPlateau \/ EnvoyerGo
  BY <1>0, <1>3 DEF Lancer, EnvoyerPlateau, EnvoyerGo, EnvoyerPuis, AuCourant
<1>4. CASE PlateauAck \/ GoAck
  BY <1>0, <1>4 DEF PlateauAck, GoAck, RecevoirAck, AuCourant
<1>5. CASE VerifierFinPartie
  BY <1>5 DEF VerifierFinPartie, Anneau, AuCourant, Joueurs
<1>6. CASE EnvoyerEtat
  <2>1. phase = "etat" /\ phase' = "etat_ack" /\ idx' = idx
    BY <1>6 DEF EnvoyerEtat, EnvoyerPuis
  <2>2. j = idx => cpc[j] \notin {"plateau", "fin"} \/ cpc[j] = "ferme"
    <3>1. CASE Etape(j) /\ j = idx
      <4>1. Tire(j)
        BY <2>1, <3>1 DEF Etape, Joueurs
      <4> QED
        BY <4>1 DEF Tire, AJoue
    <3>2. CASE JeuFini
      BY <2>1, <3>2 DEF JeuFini, Apres, Parti
    <3>3. CASE Eteint(j)
      BY <3>3 DEF Eteint, Ferme
    <3> QED
      BY <3>1, <3>2, <3>3, ArretFini DEF EnCours
  <2> QED
    BY <1>0, <2>1, <2>2 DEF AuCourant
<1>7. CASE EtatAck
  <2>1. PICK i \in Joueurs : i = idx
    BY DEF Anneau
  <2>2. /\ phase = "etat_ack"
        /\ \/ phase' = "etat" /\ idx' = i + 1
           \/ phase' \in {"retour", "plateau"} /\ i = nbJoueur - 1
        /\ \E r \in Lecture(c2s[i], conn[i], Residus) : c2s'[i] = r.reste
    BY <1>7, <2>1, RecevoirAckSeul DEF EtatAck
  <2>3. j <= i /\ cpc[j] # "ferme"
    BY <1>0, <2>2, JoueurAssumption DEF AuCourant, Joueurs
  <2>4. j = i => cpc[j] \in {"plateau", "fin"}
    <3>1. CASE Etape(j) /\ j = i
      <4>1. Juge(j)
        BY <2>1, <2>2, <3>1 DEF Etape, Joueurs
      <4>2. Ailleurs(j)
        BY <2>2, <3>1, <4>1, LitRien DEF Juge, Present
      <4> QED
        BY <2>3, <4>2 DEF Ailleurs
    <3>2. CASE JeuFini
      BY <2>2, <2>3, <3>2 DEF JeuFini, Apres, Parti
    <3>3. CASE Eteint(j)
      BY <2>3, <3>3 DEF Eteint, Ferme
    <3> QED
      BY <3>1, <3>2, <3>3, ArretFini DEF EnCours
  <2> QED
    BY <2>1, <2>2, <2>3, <2>4 DEF AuCourant, Joueurs
<1> QED
  BY <1>1, <1>2, <1>3, <1>4, <1>5, <1>6, <1>7 DEF Serveur

LEMMA JugementServeur ==
  ASSUME TypeOK, Fiable, Anneau, EnCours \/ JeuFini \/ Arret, Serveur \/ Lancer,
         \A k \in Joueurs : Longueur(k) /\ Registre(k), NEW j \in Joueurs, Ages(j), Jugement(j)
  PROVE  Jugement(j)'
<1>0. cpc' = cpc /\ cetat' = cetat
  BY ServeurSeul DEF clients
<1>1. cetat[j] = "DEAD" => Coule(bateaux', j)
  BY CouleReste DEF Ages, Jugement
<1>2. ASSUME AuCourant(j)' PROVE Juste(cetat[j], j)'
  <2>1. CASE RecevoirBateau
    <3>1. phase = "poll" /\ phase' = "pause"
      BY <1>2, <2>1 DEF AuCourant, RecevoirBateau, CompterBateau
    <3>2. EnPas
      BY <3>1, Debut DEF AvantJeu
    <3>3. \A k \in Joueurs : ~Coule(bateaux', k)
      BY <2>1, <3>1, <3>2, FlotteNeuve
    <3>4. cetat[j] = "EN_JEU"
      BY <3>1 DEF Ages, AvantJeu
    <3> QED
      BY <1>0, <3>3, <3>4, ToutesAFlot
  <2>2. ~RecevoirTir
    BY <1>2, PasTrop DEF RecevoirTir, Boucler, AuCourant, AvantJeu
  <2>3. CASE ~RecevoirBateau
    <3>1. AuCourant(j) /\ UNCHANGED plateau
      BY <1>2, <2>2, <2>3, AuCourantServeur, PlateauFixe
    <3>2. Juste(cetat[j], j)
      BY <3>1 DEF Jugement
    <3> QED
      BY <1>0, <3>1, <3>2 DEF Juste, Autres, plateau
  <2> QED
    BY <2>1, <2>3
<1> QED
  BY <1>0, <1>1, <1>2 DEF Jugement

\* No client shows a board of another round when the server begins to send it.
LEMMA AffichageServeur ==
  ASSUME TypeOK, Fiable, Anneau, EnCours \/ JeuFini \/ Arret, Serveur \/ Lancer,
         NEW j \in Joueurs, Affichage(j)
  PROVE  Affichage(j)'
<1> DEFINE P == {"plateau", "plateau_ack", "go", "go_ack"}
<1>0. cpc' = cpc /\ vue' = vue /\ bateau' = bateau
  BY ServeurSeul DEF clients
<1>1. CASE phase \in P
  <2>1. cell' = cell
    BY <1>1, PlateauFixe DEF RecevoirBateau, RecevoirTir, plateau
  <2> QED
    BY <1>0, <1>1, <2>1 DEF Affichage, VuePublique
<1>2. CASE phase \notin P /\ phase' \in P
  <2>1. phase' = "plateau" /\ idx' = 0
    <3>1. Lancer \/ EtatAck
      BY <1>2 DEF Serveur, EnvoyerInfos, InfosAck, DemanderBateaux, RecevoirBateau,
        EnvoyerPlateau, PlateauAck, EnvoyerGo, GoAck, RecevoirTir, VerifierFinPartie,
        EnvoyerEtat, EcritureFatale, EnvoyerPuis, RecevoirAck, Boucler, CompterBateau
    <3>2. CASE Lancer
      BY <3>2 DEF Lancer, Anneau
    <3>3. CASE EtatAck
      BY <1>2, <3>3 DEF EtatAck, RecevoirAck, Boucler
    <3> QED
      BY <3>1, <3>2, <3>3
  <2>2. (EnCours \/ JeuFini \/ Arret)'
    BY EnCoursServeur, JeuFiniServeur, ArretFini
  <2>3. (Pret(j) \/ Calme(j) \/ Ferme(j))'
    <3>1. ~(j < idx')
      BY <2>1 DEF Joueurs
    <3> QED
      BY <2>1, <2>2, <3>1 DEF EnCours, Eteint, Etape, JeuFini, Apres, Arret
  <2>4. cpc'[j] \in {"bateau_rep", "plateau", "fin", "ferme"}
    BY <2>3 DEF Pret, Calme, Parti, Final, Ferme
  <2> QED
    BY <2>4 DEF Affichage
<1>3. CASE phase' \notin P
  BY <1>3 DEF Affichage
<1> QED
  BY <1>1, <1>2, <1>3

----------------------------------------------------------------------------
(***************************************************************************)
(* The invariant, and what it says.                                        *)
(***************************************************************************)

LEMMA InvVInit == ASSUME Init PROVE InvV
<1>0. Lisible => Nette
  BY DEF Init, Lisible, Nette
<1>1. phase = "infos" /\ \A i \in Joueurs : cetat[i] = "EN_JEU"
  BY DEF Init
<1>2. ASSUME NEW i \in Joueurs
      PROVE  cpc[i] \in {"acceptation", "infos"} /\ \A k \in 1 .. Len(s2c[i]) : s2c[i][k] = Ok
  <2>1. PICK tard \in SUBSET Joueurs :
          /\ cpc = [j \in Joueurs |-> IF j \in tard THEN "acceptation" ELSE "infos"]
          /\ s2c = [j \in Joueurs |-> IF j \in tard THEN <<Ok>> ELSE <<>>]
    BY DEF Init
  <2>2. CASE i \in tard
    BY <2>1, <2>2
  <2>3. CASE i \notin tard
    BY <2>1, <2>3
  <2> QED
    BY <2>2, <2>3
<1>3. ASSUME NEW i \in Joueurs
      PROVE  Ages(i) /\ Longueur(i) /\ Registre(i) /\ Jugement(i) /\ Affichage(i)
  BY <1>1, <1>2 DEF Ages, Longueur, Registre, AvantJeu, Jugement, AuCourant, Affichage
<1>4. ASSUME NEW i \in Joueurs PROVE Courrier(i)
  BY <1>2 DEF Courrier, Ok, Req
<1> QED
  BY <1>0, <1>3, <1>4 DEF InvV

LEMMA InvVStep == ASSUME Fiable, Inv, InvD, InvV, [Next]_vars PROVE InvV'
<1> SUFFICES ASSUME NEW j \in Joueurs
             PROVE  /\ (Lisible => Nette)'
                    /\ (Ages(j) /\ Longueur(j) /\ Registre(j) /\ Courrier(j) /\ Jugement(j)
                        /\ (Lisible => Affichage(j)))'
  BY ZeroJoueur DEF InvV
<1>0. /\ TypeOK /\ Anneau /\ (EnCours \/ JeuFini \/ Arret)
      /\ nbBateau = nbJoueur \/ phase \in AvantJeu
  BY DEF Inv, InvD, Anneau
<1>1. /\ Ages(j) /\ Courrier(j) /\ Jugement(j) /\ (Lisible => Affichage(j) /\ Nette)
      /\ \A k \in Joueurs : Longueur(k) /\ Registre(k)
  BY DEF InvV
<1>2. Lisible' <=> Lisible
  BY DEF Lisible
<1>3. CASE Serveur \/ Lancer
  BY <1>0, <1>1, <1>2, <1>3, AgesServeur, LongueurServeur, RegistreServeur, CourrierServeur,
     JugementServeur, AffichageServeur, NetteServeur
<1>4. CASE ~Perdu /\ \E i \in Joueurs : Client(i)
  <2>0. EnCours \/ JeuFini
    BY <1>0, <1>4 DEF Arret, Perdu
  <2>1. PICK i \in Joueurs : Client(i)
    BY <1>4
  <2>2. Longueur(j)' /\ Registre(j)' /\ (Nette' <=> Nette)
    BY <1>0, <1>1, <2>1, ClientSeul DEF Longueur, Registre, Nette, serveur, plateau
  <2> QED
    BY <1>0, <1>1, <1>2, <2>0, <2>1, <2>2, AgesClient, CourrierClient,
       JugementClient, AffichageClient
<1>5. ~RecevoirFantome
  BY <1>0, PasDeFantome
<1>6. CASE Termine \/ UNCHANGED vars
  <2>1. UNCHANGED <<phase, idx, cell, bateaux, nbBateau, cpc, cetat, vue, bateau, s2c,
                  pannes>>
    BY <1>6 DEF Termine, vars
  <2>2. (Ages(j) /\ Longueur(j) /\ Registre(j) /\ Courrier(j))' /\ (Nette' <=> Nette)
    BY <1>1, <2>1 DEF Ages, Longueur, Registre, Courrier, Nette
  <2>3. Jugement(j)'
    BY <1>1, <2>1 DEF Jugement, AuCourant, Juste, Autres
  <2>4. Lisible => Affichage(j)'
    BY <1>1, <2>1 DEF Affichage, VuePublique
  <2> QED
    BY <1>1, <1>2, <2>2, <2>3, <2>4
<1> QED
  BY <1>3, <1>4, <1>5, <1>6 DEF Next

LEMMA InvVToujours ==
  ASSUME Fiable PROVE Spec /\ PannesTardives => [](Inv /\ InvD /\ InvV)
<1>1. Init => InvV
  BY InvVInit
<1>2. (Inv /\ InvD /\ InvV) /\ [Next]_vars => InvV'
  BY InvVStep
<1> QED
  BY <1>1, <1>2, InvDToujours, PTL DEF Spec

LEMMA InvVSain == ASSUME Sain PROVE Spec => [](Inv /\ InvP /\ InvV)
<1>1. Fiable
  BY DEF Sain
<1>2. Spec => []InvV
  BY <1>1, SainTardif, InvVToujours, PTL
<1> QED
  BY <1>2, InvPToujours, PTL

LEMMA InvVJuste == InvV => VerdictJuste
<1> SUFFICES ASSUME InvV, phase \in {"plateau", "plateau_ack", "go", "go_ack", "retour"},
                    NEW i \in Joueurs, cpc[i] # "ferme"
             PROVE  Juste(cetat[i], i)
  BY DEF VerdictJuste, Juste, Autres
<1> QED
  BY DEF InvV, Jugement, AuCourant

LEMMA InvVCoherence == InvV => Coherence
<1> SUFFICES ASSUME InvV, phase \notin AvantJeu, NEW i \in Joueurs, NEW j \in Segment
             PROVE  bateaux[i].cell[j].status = cell[bateaux[i].cell[j].pos]
  BY DEF Coherence
<1>1. Accord(cell, bateaux[i]) /\ bateaux[i].taille = tailleBateau
  BY DEF InvV, Registre, Longueur
<1>2. j < tailleBateau
  BY TailleAssumption DEF Segment
<1> QED
  BY <1>1, <1>2 DEF Accord

LEMMA InvVFidele == ASSUME InvD, InvV, Lisible PROVE VueFidele
<1> SUFFICES ASSUME phase \in {"go", "go_ack"}, NEW i \in Joueurs, cpc[i] # "ferme"
             PROVE  vue[i] = VuePublique(i)
  BY DEF VueFidele
<1>1. Affichage(i)
  BY DEF InvV
<1>2. Etape(i)
  BY DEF InvD, EnCours, Eteint, Ferme, JeuFini, Apres, Parti, Arret
<1>3. Voit(i) \/ Appele(i) \/ Vise(i)
  BY <1>2 DEF Etape
<1>4. cpc[i] \in {"go", "go_mort", "jouer", "coup_rep", "mort", "mort_rep"}
  BY <1>3 DEF Voit, Appele, Vise, AttendGo, Joue, AJoue, ApresPlateau
<1> QED
  BY <1>1, <1>4 DEF Affichage

\* However many clients die after the placement, those that live stay faithful
\* to the server's board: their boats are where they placed them, what they
\* were told at the end of a round is what all the boats say, those of the dead
\* included, and what they see when they are called is the board of this round.
\* (For a board whose text fits the field of the client.)
THEOREM VerdictTenuToujours == ASSUME Fiable, Lisible PROVE Spec => VerdictTenu
<1>1. Inv /\ InvD /\ InvV => FlotteFidele /\ Coherence /\ VerdictJuste /\ VueFidele
  BY InvDFlotte, InvVCoherence, InvVJuste, InvVFidele
<1> QED
  BY <1>1, InvVToujours, PTL DEF VerdictTenu

\* placer_bateau, recevoir_tir and tirer_bateau write the two records of a boat,
\* its cells of the grid and its own list of cells, to the same effect: for the
\* boat of every player, whatever boats overlap, whatever shots are fired and
\* whatever the residue of a dead player is taken for.
THEOREM CoherenceTardive == ASSUME Fiable PROVE Spec /\ PannesTardives => []Coherence
<1>1. Inv /\ InvD /\ InvV => Coherence
  BY InvVCoherence
<1> QED
  BY <1>1, InvVToujours, PTL

\* Without failures the same holds of every game.
THEOREM CoherenceToujours == ASSUME Sain PROVE Spec => []Coherence
<1>1. Inv /\ InvP /\ InvV => Coherence
  BY InvVCoherence
<1> QED
  BY <1>1, InvVSain, PTL

\* In a game without failures, whatever the boats and the shots, what a client
\* knows of the state of the game when a round begins is what the boats on the
\* server say: verifier_fin_partie has found the survivors and counted the
\* sunk boats right, recevoir_etat has drawn the conclusion, and no verdict
\* was read a round late.
THEOREM VerdictJusteToujours == ASSUME Sain PROVE Spec => []VerdictJuste
<1>1. Inv /\ InvP /\ InvV => VerdictJuste
  BY InvVJuste
<1> QED
  BY <1>1, InvVSain, PTL

\* In a game without failures whose board fits the field of the client, what a
\* player sees when it is called to shoot is the board of this very round,
\* every shot on it and no boat but its own: the rows and columns of
\* envoyer_plateau and decode_plateau agree for every size.
THEOREM VueFideleToujours == ASSUME Sain, Lisible PROVE Spec => []VueFidele
<1>1. Inv /\ InvP /\ InvV => VueFidele
  BY InvPInvD, InvVFidele
<1> QED
  BY <1>1, InvVSain, PTL

----------------------------------------------------------------------------
(***************************************************************************)
(* The game is the game its players are promised (module BatailleRoyale).  *)
(***************************************************************************)

\* The memory of the grid and of the list held zeroes: the grid reads as empty,
\* no boat has a length.
Vierge ==
  /\ grillesInit = {[c \in Case |-> "EMPTY"]}
  /\ bateauxInit = {SansBateau}

----------------------------------------------------------------------------
(***************************************************************************)
(* The invariant, besides what the players know.                           *)
(***************************************************************************)

\* A boat that has not come has no length.
Vacant(i) ==
  phase \in AvantJeu /\ ~(phase = "poll" /\ i < idx) => bateaux[i].taille = 0

\* The server counts all the boats as sunk before it returns.
Bilan ==
  /\ phase = "retour" => etat = 2
  /\ etat = 2 => /\ phase \in {"etat", "etat_ack", "retour", "tue"}
                 /\ NbCoules(bateaux, nbBateau) = nbBateau

InvR == Bilan /\ \A i \in Joueurs : Vacant(i)

LEMMA InvRInit == ASSUME Vierge, Init PROVE InvR
<1>1. phase = "infos" /\ etat = 1 /\ bateaux \in [0 .. MAX_BATEAUX - 1 -> {SansBateau}]
  BY DEF Init, Vierge
<1>2. \A i \in Joueurs : i \in 0 .. MAX_BATEAUX - 1
  BY BateauxAssumption, JoueurAssumption DEF Joueurs
<1>3. \A i \in Joueurs : bateaux[i] = SansBateau
  BY <1>1, <1>2
<1> QED
  BY <1>1, <1>3 DEF InvR, Bilan, Vacant, SansBateau

\* While the boats come in.
LEMMA VacantServeur ==
  ASSUME TypeOK, Fiable, Anneau, EnCours \/ JeuFini \/ Arret, Serveur \/ Lancer,
         NEW i \in Joueurs, Vacant(i)
  PROVE  Vacant(i)'
<1>1. CASE phase \notin AvantJeu
  BY <1>1, ApresPlacement DEF Vacant
<1>2. CASE phase = "poll"
  <2>1. EnPas /\ RecevoirBateau
    BY <1>2, Debut, PollServeur DEF AvantJeu
  <2>2. PICK k \in Joueurs : k = idx
    BY <2>1 DEF RecevoirBateau
  <2>3. PICK p \in Placements :
          /\ bateaux' = [bateaux EXCEPT ![k] = BateauPlace(p[1], p[2], p[3])]
          /\ k \in DOMAIN bateaux
          /\ IF k + 1 = nbJoueur THEN phase' = "pause" ELSE phase' = "poll" /\ idx' = k + 1
    BY <2>1, <2>2, BateauCompte
  <2>4. CASE phase' = "pause"
    BY <2>4 DEF Vacant, AvantJeu
  <2>5. CASE phase' = "poll" /\ idx' = k + 1
    <3>1. CASE i <= k
      BY <2>5, <3>1 DEF Vacant, Joueurs
    <3>2. CASE ~(i <= k)
      <4>1. bateaux'[i] = bateaux[i] /\ ~(i < idx)
        BY <2>2, <2>3, <3>2 DEF Joueurs
      <4> QED
        BY <1>2, <4>1 DEF Vacant, AvantJeu
    <3> QED
      BY <3>1, <3>2
  <2> QED
    BY <2>3, <2>4, <2>5
<1>3. CASE phase \in AvantJeu /\ phase # "poll"
  <2>1. EnPas /\ phase \in {"infos", "infos_ack", "bateaux"}
    BY <1>3, Debut DEF AvantJeu
  <2>2. UNCHANGED bateaux
    BY <2>1, PlateauFixe DEF RecevoirBateau, RecevoirTir, plateau
  <2> QED
    BY <1>3, <2>2 DEF Vacant
<1> QED
  BY <1>1, <1>2, <1>3

LEMMA BilanServeur ==
  ASSUME TypeOK, Anneau, Serveur \/ Lancer, Bilan
  PROVE  Bilan'
<1>1. CASE EnvoyerInfos \/ EnvoyerPlateau \/ EnvoyerGo \/ EnvoyerEtat
  BY <1>1 DEF EnvoyerInfos, EnvoyerPlateau, EnvoyerGo, EnvoyerEtat, EnvoyerPuis, plateau, Bilan
<1>2. CASE InfosAck \/ PlateauAck \/ GoAck
  BY <1>2 DEF InfosAck, PlateauAck, GoAck, RecevoirAck, Boucler, plateau, Bilan
<1>3. CASE EtatAck
  BY <1>3 DEF EtatAck, RecevoirAck, Boucler, plateau, Bilan
<1>4. CASE Lancer \/ DemanderBateaux \/ EcritureFatale
  BY <1>4 DEF Lancer, DemanderBateaux, Boucler, EcritureFatale, plateau, Bilan
<1>5. CASE VerifierFinPartie
  <2>1. phase' = "etat"
    BY <1>5, PasTrop DEF VerifierFinPartie, AvantJeu
  <2> QED
    BY <1>5, <2>1 DEF VerifierFinPartie, plateau, Bilan
<1>6. CASE RecevoirBateau
  BY <1>6 DEF RecevoirBateau, CompterBateau, Bilan
<1>7. CASE RecevoirTir
  <2>1. phase = "tir" /\ phase' \in {"tir", "verif"} /\ etat' = etat
    BY <1>7, PasTrop DEF RecevoirTir, Boucler, AvantJeu
  <2> QED
    BY <2>1 DEF Bilan
<1> QED
  BY <1>1, <1>2, <1>3, <1>4, <1>5, <1>6, <1>7 DEF Serveur

LEMMA InvRStep == ASSUME Fiable, Inv, InvD, InvR, [Next]_vars PROVE InvR'
<1>0. TypeOK /\ Anneau /\ (EnCours \/ JeuFini \/ Arret)
  BY DEF Inv, InvD
<1>1. CASE Serveur \/ Lancer
  BY <1>0, <1>1, VacantServeur, BilanServeur DEF InvR
<1>2. CASE \E i \in Joueurs : Client(i)
  <2>1. UNCHANGED serveur /\ UNCHANGED plateau
    BY <1>0, <1>2, ClientSeul
  <2> QED
    BY <2>1 DEF InvR, Bilan, Vacant, serveur, plateau
<1>3. ~RecevoirFantome
  BY <1>0, PasDeFantome
<1>4. CASE Termine \/ UNCHANGED vars
  BY <1>4 DEF InvR, Bilan, Vacant, Termine, vars
<1> QED
  BY <1>1, <1>2, <1>3, <1>4 DEF Next

----------------------------------------------------------------------------
(***************************************************************************)
(* The fate of a player.                                                   *)
(***************************************************************************)

\* Who is afloat, by the list of boats and by the grid.
LEMMA MemesFlots ==
  ASSUME phase \notin AvantJeu, \A k \in Joueurs : Longueur(k) /\ Registre(k)
  PROVE  Bataille!AFlot = Aflot
<1>1. ASSUME NEW k \in Joueurs
      PROVE  (\E c \in flotteAbs[k] : cell[c] # "HIT_SHOT") <=> ~Coule(bateaux, k)
  <2>1. bateaux[k].taille = tailleBateau
    BY DEF Longueur
  <2>2. \A j \in Segment : j < bateaux[k].taille
    BY <2>1, TailleAssumption DEF Segment
  <2>3. flotteAbs[k] = {bateaux[k].cell[j].pos : j \in Segment}
    BY <2>2 DEF flotteAbs
  <2>4. \A j \in Segment : bateaux[k].cell[j].status = cell[bateaux[k].cell[j].pos]
    BY <2>2 DEF Registre, Accord
  <2> QED
    BY <2>3, <2>4 DEF Coule
<1> QED
  BY <1>1 DEF Bataille!AFlot, Aflot

\* What a player was told is its fate.
LEMMA JusteSort ==
  ASSUME Bataille!AFlot = Aflot, IsFiniteSet(Aflot), NEW i \in Joueurs, NEW e,
         e \in {"EN_JEU", "DEAD"} \cup Fins, Juste(e, i)
  PROVE  e = Bataille!Sort(i)
<1>1. Autres(i) = Aflot \ {i} /\ (i \in Aflot <=> ~Coule(bateaux, i))
  BY DEF Autres, Aflot
<1>2. CASE e = "EN_JEU"
  <2>1. i \in Aflot /\ \E k \in Aflot : k # i
    BY <1>1, <1>2 DEF Juste
  <2> QED
    BY <1>2, <2>1 DEF Bataille!Sort
<1>3. CASE e = "DEAD"
  <2>1. i \notin Aflot /\ Aflot \ {i} = Aflot /\ Cardinality(Aflot) >= 2
    BY <1>1, <1>3 DEF Juste
  <2>2. Aflot # {} /\ \A k : Aflot # {k}
    BY <2>1, FS_EmptySet, FS_Singleton
  <2> QED
    BY <1>3, <2>1, <2>2 DEF Bataille!Sort
<1>4. CASE e = "FIN_WIN"
  <2>1. Aflot = {i}
    BY <1>1, <1>4 DEF Juste
  <2> QED
    BY <1>4, <2>1 DEF Bataille!Sort
<1>5. CASE e = "FIN_LOSE"
  <2>1. i \notin Aflot /\ Aflot \ {i} = Aflot /\ Cardinality(Aflot) <= 1
    BY <1>1, <1>5 DEF Juste
  <2>2. Cardinality(Aflot) = 0 \/ Cardinality(Aflot) = 1
    BY <2>1, FS_CardinalityType
  <2>3. Aflot = {} \/ \E k : Aflot = {k}
    BY <2>2, FS_EmptySet, FS_Singleton
  <2> QED
    BY <1>5, <2>1, <2>3 DEF Bataille!Sort
<1> QED
  BY <1>2, <1>3, <1>4, <1>5 DEF Fins

----------------------------------------------------------------------------
(***************************************************************************)
(* The steps.                                                              *)
(***************************************************************************)

\* After the end everybody knows it.
LEMMA FiniePartout ==
  ASSUME TypeOK, JeuFini, pannes = Pannes, \A i \in Joueurs : Ages(i)
  PROVE  Bataille!Finie
<1>1. ASSUME NEW i \in Joueurs PROVE cetat[i] \in Fins
  <2>1. Apres(i) /\ phase \in Phases
    BY DEF JeuFini, TypeOK
  <2>2. cpc[i] \in {"fin", "ferme"}
    BY <2>1 DEF Apres, AvantJeu, Phases, Calme, Prevenu, Parti, Final
  <2> QED
    BY <2>2, PannesAssumption DEF Ages
<1> QED
  BY <1>1 DEF Bataille!Finie, Bataille!Fins, Fins

\* What a client does besides reading its verdict is nothing to the players.
LEMMA ReponseFixe ==
  ASSUME TypeOK, Fiable, EnPas \/ JeuFini, NEW i \in Joueurs, Client(i), ~Panne(i), Ages(i),
         ~RecevoirEtat(i), phase = "etat_ack"
  PROVE  (s2c'[idx] = <<>>) <=> (s2c[idx] = <<>>)
<1>1. idx \in Joueurs /\ ~(idx < idx)
  BY DEF TypeOK, Perdu, Joueurs
<1>2. CASE idx # i
  BY <1>1, <1>2, ClientSeul DEF Intouche
<1>3. CASE idx = i /\ s2c[i] = <<>>
  BY <1>3, ClientFile, ClientAttend
<1>4. CASE idx = i /\ s2c[i] # <<>>
  <2>1. EnPas
    BY <1>1, <1>4 DEF JeuFini, Apres, AvantJeu, Parti
  <2>2. Juge(i)
    BY <1>1, <1>4, <2>1 DEF EnPas, Etape
  <2>3. AJoue(i) \/ cpc[i] = "etat"
    BY <1>4, <2>2 DEF Juge
  <2>4. cpc'[i] \notin {"fin", "ferme", "plateau"}
    BY <2>3, ClientEtat, EnPasEnCours DEF AJoue
  <2>5. Juge(i)' /\ ~Ailleurs(i)'
    BY <2>2, <2>4, JugeClient DEF Ailleurs
  <2>6. s2c'[i] # <<>>
    BY <2>5 DEF Juge, Un, Deux
  <2> QED
    BY <1>4, <2>6
<1> QED
  BY <1>2, <1>3, <1>4

LEMMA ClientImmobile ==
  ASSUME TypeOK, TypeOK', Fiable, EnPas \/ JeuFini, NEW i \in Joueurs, Client(i), ~Panne(i),
         Ages(i), ~RecevoirEtat(i)
  PROVE  UNCHANGED Bataille!vars
<1>1. UNCHANGED <<phase, idx, cell, bateaux>>
  BY ClientSeul DEF serveur, plateau
<1>2. cetat' = cetat
  <2>1. \A j \in Joueurs : cetat'[j] = cetat[j]
    BY ClientSeul, ClientEtat, EnPasEnCours DEF Intouche
  <2> QED
    BY <2>1 DEF TypeOK
<1>3. Instruit' <=> Instruit
  BY <1>1, ReponseFixe DEF Instruit
<1>4. TourFini' <=> TourFini
  BY <1>1, <1>3 DEF TourFini
<1>5. etapeAbs' = etapeAbs
  BY <1>1, <1>4 DEF etapeAbs
<1>6. restantsAbs' = restantsAbs
  BY <1>1, <1>3, <1>4, <1>5 DEF restantsAbs
<1>7. flotteAbs' = flotteAbs
  BY <1>1 DEF flotteAbs
<1> QED
  BY <1>1, <1>2, <1>5, <1>6, <1>7 DEF Bataille!vars

\* A client that reads its verdict tells its player its fate.
LEMMA EtatAnnonce ==
  ASSUME Fiable, Inv, InvP, InvV, NEW i \in Joueurs, RecevoirEtat(i), Client(i)
  PROVE  Bataille!Annoncer(i)
<1>0. /\ TypeOK /\ ~Panne(i) /\ Anneau /\ (EnPas \/ JeuFini)
      /\ Courrier(i) /\ Jugement(i) /\ \A k \in Joueurs : Longueur(k) /\ Registre(k)
  BY DEF Inv, InvP, InvV, Panne
<1>1. /\ phase = "etat_ack" /\ i = idx /\ cetat[i] \in {"EN_JEU", "DEAD"} /\ cpc[i] = "etat"
      /\ cetat'[i] = EtatApres(cetat[i], Verdict(bateaux, nbBateau, i))
      /\ cpc'[i] = IF cetat'[i] \in Fins THEN "fin" ELSE "plateau"
  BY <1>0, EtatLu, EnPasEnCours
<1>2. UNCHANGED <<phase, idx, cell, bateaux>>
  BY <1>0, ClientSeul DEF serveur, plateau
<1>3. nbBateau = nbJoueur /\ phase \notin AvantJeu
  BY <1>0, <1>1 DEF Anneau, AvantJeu
<1>4. \A k \in Joueurs : bateaux[k].taille = tailleBateau
  BY <1>0, <1>3 DEF Longueur
<1>5. cetat'[i] = Bataille!Sort(i)
  <2>1. Juste(cetat'[i], i)
    BY <1>0, <1>1, <1>3, <1>4, VerdictDit DEF Jugement
  <2>2. cetat'[i] \in {"EN_JEU", "DEAD"} \cup Fins
    BY <1>1 DEF EtatApres, Fins
  <2>3. Bataille!AFlot = Aflot /\ IsFiniteSet(Aflot)
    BY <1>0, <1>3, MemesFlots, Flottants
  <2> QED
    BY <2>1, <2>2, <2>3, JusteSort
<1>6. cetat' = [cetat EXCEPT ![i] = Bataille!Sort(i)]
  <2>1. \E e : cetat' = [cetat EXCEPT ![i] = e]
    BY DEF RecevoirEtat
  <2> QED
    BY <1>0, <1>5, <2>1 DEF TypeOK
<1>7. s2c[i] # <<>> /\ s2c'[i] = <<>>
  <2>1. s2c[i] # <<>>
    BY ClientAttend DEF RecevoirEtat
  <2>2. EnPas
    BY <1>0, <1>1 DEF JeuFini, Apres, AvantJeu, Parti
  <2>3. Juge(i)
    BY <1>1, <2>2 DEF EnPas, Etape, Joueurs
  <2>4. Juge(i)'
    BY <1>0, <2>3, JugeClient
  <2>5. s2c'[i] = <<>>
    BY <1>1, <2>4 DEF Juge, AJoue
  <2> QED
    BY <2>1, <2>5
<1>8. ~Instruit /\ Instruit'
  BY <1>1, <1>2, <1>7 DEF Instruit
<1>9. etapeAbs = "annonce" /\ ~Bataille!Finie
  BY <1>1, <1>8 DEF TourFini, etapeAbs, Bataille!Finie, Bataille!Fins
<1>10. restantsAbs = {k \in Joueurs : k > i \/ k = i}
  BY <1>1, <1>8, <1>9 DEF TourFini, restantsAbs
<1>11. CASE i = nbJoueur - 1
  <2>1. restantsAbs = {i}
    BY <1>10, <1>11, JoueurAssumption DEF Joueurs
  <2>2. etapeAbs' = "tirs"
    BY <1>1, <1>2, <1>8, <1>11 DEF TourFini, etapeAbs
  <2>3. restantsAbs' = Joueurs
    BY <1>1, <1>2, <1>8, <1>11, <2>2 DEF TourFini, restantsAbs
  <2> QED
    BY <1>2, <1>6, <1>9, <2>1, <2>2, <2>3
    DEF Bataille!Annoncer, Bataille!Servir, flotteAbs
<1>12. CASE i # nbJoueur - 1
  <2>1. i + 1 \in restantsAbs /\ i + 1 # i
    BY <1>10, <1>12, JoueurAssumption DEF Joueurs
  <2>2. etapeAbs' = "annonce" /\ ~TourFini'
    BY <1>1, <1>2, <1>8, <1>12 DEF TourFini, etapeAbs
  <2>3. restantsAbs' = {k \in Joueurs : k > i}
    BY <1>1, <1>2, <1>8, <2>2 DEF restantsAbs
  <2>4. restantsAbs' = restantsAbs \ {i}
    BY <1>10, <2>3 DEF Joueurs
  <2> QED
    BY <1>2, <1>6, <1>9, <1>10, <2>1, <2>2, <2>4
    DEF Bataille!Annoncer, Bataille!Servir, flotteAbs
<1> QED
  BY <1>11, <1>12

LEMMA ClientRaffine ==
  ASSUME Fiable, Inv, TypeOK', InvP, InvV, NEW i \in Joueurs, Client(i)
  PROVE  Bataille!Next \/ UNCHANGED Bataille!vars
<1>1. CASE RecevoirEtat(i)
  BY <1>1, EtatAnnonce DEF Bataille!Next
<1>2. CASE ~RecevoirEtat(i)
  BY <1>2, ClientImmobile DEF Inv, InvP, InvV, Panne
<1> QED
  BY <1>1, <1>2

\* Between the rounds, and when the programs only agree on where they are.
LEMMA TirsImmobile ==
  ASSUME phase \in {"pause", "plateau", "plateau_ack", "go", "go_ack"},
         phase' \in {"plateau", "plateau_ack", "go", "go_ack"} \/ (phase' = "tir" /\ idx' = 0),
         UNCHANGED <<cell, bateaux, cetat>>
  PROVE  UNCHANGED Bataille!vars
<1>1. etapeAbs = "tirs" /\ etapeAbs' = "tirs"
  BY DEF etapeAbs, TourFini, Instruit
<1>2. restantsAbs = Joueurs
  BY <1>1 DEF restantsAbs
<1>3. restantsAbs' = Joueurs
  <2>1. CASE phase' = "tir" /\ idx' = 0
    BY <1>1, <2>1 DEF restantsAbs, Joueurs, TourFini, Instruit
  <2>2. CASE phase' # "tir"
    BY <1>1, <2>2 DEF restantsAbs
  <2> QED
    BY <2>1, <2>2
<1>4. flotteAbs' = flotteAbs
  BY DEF flotteAbs
<1> QED
  BY <1>1, <1>2, <1>3, <1>4 DEF Bataille!vars

LEMMA PlacementImmobile ==
  ASSUME phase \in AvantJeu, phase' \in AvantJeu, UNCHANGED <<cell, bateaux, cetat>>
  PROVE  UNCHANGED Bataille!vars
<1>1. etapeAbs = "placement" /\ etapeAbs' = "placement"
  BY DEF etapeAbs, AvantJeu, TourFini, Instruit
<1>2. restantsAbs' = restantsAbs
  BY <1>1 DEF restantsAbs, AvantJeu
<1>3. flotteAbs' = flotteAbs
  BY DEF flotteAbs
<1> QED
  BY <1>1, <1>2, <1>3 DEF Bataille!vars

\* The verdicts are about to be announced.
LEMMA VerifImmobile ==
  ASSUME Anneau, VerifierFinPartie
  PROVE  UNCHANGED Bataille!vars
<1>1. /\ phase = "verif" /\ phase' = "etat" /\ idx' = 0
      /\ UNCHANGED <<cell, bateaux, cetat>>
  BY PasTrop DEF VerifierFinPartie, Anneau, AvantJeu, plateau, clients
<1>2. etapeAbs = "annonce" /\ etapeAbs' = "annonce" /\ ~TourFini'
  BY <1>1 DEF etapeAbs, TourFini, Instruit
<1>3. restantsAbs = Joueurs
  BY <1>1, <1>2 DEF restantsAbs
<1>4. restantsAbs' = Joueurs
  <2>1. restantsAbs' = {i \in Joueurs : i > 0 \/ (i = 0 /\ ~Instruit')}
    BY <1>1, <1>2 DEF restantsAbs
  <2>2. ~Instruit'
    BY <1>1 DEF Instruit
  <2> QED
    BY <2>1, <2>2 DEF Joueurs
<1>5. flotteAbs' = flotteAbs
  BY <1>1 DEF flotteAbs
<1> QED
  BY <1>1, <1>2, <1>3, <1>4, <1>5 DEF Bataille!vars

\* A verdict that is sent is not yet read.
LEMMA EnvoyerEtatImmobile ==
  ASSUME TypeOK, Fiable, EnPas, EnvoyerEtat
  PROVE  UNCHANGED Bataille!vars
<1>1. /\ phase = "etat" /\ phase' = "etat_ack" /\ idx' = idx
      /\ UNCHANGED <<cell, bateaux, cpc, cetat>>
  BY DEF EnvoyerEtat, EnvoyerPuis, plateau, clients
<1>2. PICK i \in Joueurs : i = idx /\ Etape(i) /\ ~(i < idx)
  BY <1>1, AuPas
<1>3. AJoue(i) \/ cpc[i] = "etat"
  BY <1>1, <1>2 DEF Etape, Tire
<1>4. Juge(i)' /\ ~Ailleurs(i)'
  <2>1. Etape(i)'
    BY <1>2, EnvoyerEtatEtape
  <2>2. cpc'[i] \notin {"fin", "ferme", "plateau"}
    BY <1>1, <1>3 DEF AJoue
  <2> QED
    BY <1>1, <1>2, <2>1, <2>2 DEF Etape, Ailleurs
<1>5. ~Instruit'
  BY <1>1, <1>2, <1>4 DEF Instruit, Juge, Un, Deux
<1>6. etapeAbs = "annonce" /\ etapeAbs' = "annonce" /\ ~TourFini /\ ~TourFini' /\ ~Instruit
  BY <1>1, <1>5 DEF etapeAbs, TourFini, Instruit
<1>7. restantsAbs' = restantsAbs
  BY <1>1, <1>5, <1>6 DEF restantsAbs
<1>8. flotteAbs' = flotteAbs
  BY <1>1 DEF flotteAbs
<1> QED
  BY <1>1, <1>6, <1>7, <1>8 DEF Bataille!vars

\* The acknowledgement of a verdict: the player has been told before.  After
\* the last one the server returns only if everybody knows of the end.
LEMMA EtatAckRaffine ==
  ASSUME TypeOK, Fiable, EnPas, Bilan, pannes = Pannes, \A k \in Joueurs : Ages(k), EtatAck
  PROVE  Bataille!Next \/ UNCHANGED Bataille!vars
<1>0. phase = "etat_ack"
  BY DEF EtatAck, RecevoirAck
<1>1. PICK i \in Joueurs : i = idx /\ Etape(i) /\ ~(i < idx)
  BY <1>0, AuPas
<1>2. /\ UNCHANGED <<cell, bateaux, cpc, cetat, s2c>>
      /\ \/ phase' = "etat" /\ idx' = i + 1 /\ i # nbJoueur - 1
         \/ /\ phase' = IF etat = 2 THEN "retour" ELSE "plateau"
            /\ i = nbJoueur - 1
      /\ \E r \in Lecture(c2s[i], conn[i], Residus) : c2s'[i] = r.reste
  <2>1. i # nbJoueur - 1 \/ ~(idx < nbJoueur - 1)
    BY <1>1, JoueurAssumption DEF Joueurs
  <2>2. UNCHANGED <<cell, bateaux, cpc, cetat, s2c>>
    BY DEF EtatAck, RecevoirAck, plateau, clients
  <2>3. \/ phase' = "etat" /\ idx' = i + 1 /\ i # nbJoueur - 1
        \/ phase' = (IF etat = 2 THEN "retour" ELSE "plateau") /\ i = nbJoueur - 1
    BY <1>1, JoueurAssumption DEF EtatAck, RecevoirAck, Boucler, Joueurs
  <2> QED
    BY <1>1, <2>2, <2>3, RecevoirAckSeul DEF EtatAck
<1>3. Juge(i)
  BY <1>0, <1>1 DEF Etape
<1>4. Ailleurs(i) /\ s2c[i] = <<>>
  BY <1>2, <1>3, LitRien DEF Juge, Present
<1>5. Instruit
  BY <1>0, <1>1, <1>4 DEF Instruit
<1>6. flotteAbs' = flotteAbs
  BY <1>2 DEF flotteAbs
<1>7. CASE phase' = "etat" /\ idx' = i + 1 /\ i # nbJoueur - 1
  <2>1. ~TourFini /\ ~TourFini' /\ ~Instruit'
    BY <1>1, <1>7 DEF TourFini, Instruit
  <2>2. etapeAbs = "annonce" /\ etapeAbs' = "annonce"
    BY <1>0, <1>7, <2>1 DEF etapeAbs
  <2>3. restantsAbs = {k \in Joueurs : k > i}
    BY <1>0, <1>1, <1>5, <2>1, <2>2 DEF restantsAbs
  <2>4. restantsAbs' = {k \in Joueurs : k > i + 1 \/ k = i + 1}
    BY <1>7, <2>1, <2>2 DEF restantsAbs
  <2>5. restantsAbs' = restantsAbs
    BY <2>3, <2>4 DEF Joueurs
  <2> QED
    BY <1>2, <1>6, <2>2, <2>5 DEF Bataille!vars
<1>8. CASE i = nbJoueur - 1 /\ phase' = "plateau"
  <2>1. TourFini
    BY <1>1, <1>5, <1>8 DEF TourFini
  <2>2. etapeAbs = "tirs" /\ etapeAbs' = "tirs"
    BY <1>0, <1>8, <2>1 DEF etapeAbs
  <2>3. restantsAbs = Joueurs /\ restantsAbs' = Joueurs
    BY <1>0, <1>8, <2>1, <2>2 DEF restantsAbs
  <2> QED
    BY <1>2, <1>6, <2>2, <2>3 DEF Bataille!vars
<1>9. CASE i = nbJoueur - 1 /\ phase' = "retour" /\ etat = 2
  <2>1. Finale
    BY <1>9 DEF Bilan, Finale
  <2>2. ASSUME NEW k \in Joueurs PROVE cetat[k] \in Fins
    <3>1. Etape(k) /\ (k = i \/ k < idx)
      BY <1>1, <1>9, JoueurAssumption DEF EnPas, Joueurs
    <3>2. Ailleurs(k)
      BY <1>0, <1>1, <1>4, <3>1 DEF Etape, Sait
    <3>3. cpc[k] \in {"fin", "ferme"}
      BY <2>1, <3>2 DEF Ailleurs
    <3> QED
      BY <3>3, PannesAssumption DEF Ages
  <2>3. Bataille!Apres
    BY <1>2, <1>6, <2>2 DEF Bataille!Apres, Bataille!Finie, Bataille!Fins, Fins
  <2> QED
    BY <2>3 DEF Bataille!Next
<1> QED
  BY <1>2, <1>7, <1>8, <1>9

\* The boat of the next player in the ring.
LEMMA BateauPlacer ==
  ASSUME TypeOK, Fiable, Anneau, EnPas, RecevoirBateau,
         \A k \in Joueurs : Longueur(k) /\ Vacant(k), NEW i \in Joueurs, i = idx
  PROVE  Bataille!Placer(i)
<1>2. phase = "poll"
  BY DEF RecevoirBateau
<1>4. PICK p \in Placements :
        /\ bateaux' = [bateaux EXCEPT ![i] = BateauPlace(p[1], p[2], p[3])]
        /\ cell' = CasesPlacees(cell, p[1], p[2], p[3])
        /\ IF i + 1 = nbJoueur THEN phase' = "pause" ELSE phase' = "poll" /\ idx' = i + 1
  BY BateauCompte
<1>5. cetat' = cetat /\ \A k \in Joueurs : k \in DOMAIN bateaux
  <2>1. cetat' = cetat
    BY DEF RecevoirBateau, clients
  <2>3. \A k \in Joueurs : k \in 0 .. MAX_BATEAUX - 1
    BY BateauxAssumption, JoueurAssumption DEF Joueurs
  <2> QED
    BY <2>1, <2>3 DEF TypeOK
<1> DEFINE b == {Position(p[1], p[2], p[3], j) : j \in Segment}
<1>6. flotteAbs' = [flotteAbs EXCEPT ![i] = b]
  <2>1. \A j \in Segment : j < tailleBateau
    BY TailleAssumption DEF Segment
  <2>2. {bateaux'[i].cell[j].pos : j \in {k \in Segment : k < bateaux'[i].taille}} = b
    BY <1>4, <1>5, <2>1 DEF BateauPlace
  <2>3. \A k \in Joueurs \ {i} : bateaux'[k] = bateaux[k]
    BY <1>4, <1>5
  <2> HIDE DEF b
  <2>4. flotteAbs' = [k \in Joueurs |-> IF k = i THEN b ELSE flotteAbs[k]]
    <3>1. \A k \in Joueurs \ {i} : flotteAbs'[k] = flotteAbs[k]
      BY <2>3 DEF flotteAbs
    <3>2. flotteAbs'[i] = b
      BY <2>2 DEF flotteAbs
    <3>3. flotteAbs' = [k \in Joueurs |-> flotteAbs'[k]]
      BY DEF flotteAbs
    <3> QED
      BY <3>1, <3>2, <3>3
  <2>5. DOMAIN flotteAbs = Joueurs
    BY DEF flotteAbs
  <2> QED
    BY <2>4, <2>5
<1>7. cell' = [c \in Case |-> IF c \in b THEN "BOAT" ELSE cell[c]]
  BY <1>4 DEF CasesPlacees
<1>8. \E x \in {{Position(q[1], q[2], q[3], j) : j \in Segment} : q \in Placements} :
        /\ flotteAbs' = [flotteAbs EXCEPT ![i] = x]
        /\ cell' = [c \in Case |-> IF c \in x THEN "BOAT" ELSE cell[c]]
  BY <1>6, <1>7
<1> HIDE DEF b
<1>9. etapeAbs = "placement" /\ ~TourFini
  BY <1>2 DEF etapeAbs, TourFini, Instruit
<1>10. restantsAbs = {k \in Joueurs : ~(k < i)}
  <2>1. \A k \in Joueurs : bateaux[k].taille = 0 <=> ~(k < i)
    BY <1>2, TailleAssumption DEF Longueur, Vacant, AvantJeu
  <2>2. restantsAbs = {k \in Joueurs : bateaux[k].taille = 0}
    BY <1>2, <1>9 DEF restantsAbs
  <2> QED
    BY <2>1, <2>2
<1>11. CASE i + 1 = nbJoueur
  <2>1. restantsAbs = {i}
    BY <1>10, <1>11, JoueurAssumption DEF Joueurs
  <2>2. phase' = "pause"
    BY <1>4, <1>11
  <2>3. etapeAbs' = "tirs"
    BY <2>2 DEF etapeAbs
  <2>4. restantsAbs' = Joueurs
    BY <2>2, <2>3 DEF restantsAbs
  <2> QED
    BY <1>5, <1>8, <1>9, <2>1, <2>3, <2>4 DEF Bataille!Placer, Bataille!Servir
<1>12. CASE i + 1 # nbJoueur
  <2>1. i + 1 \in restantsAbs /\ i + 1 # i /\ i \in restantsAbs
    BY <1>10, <1>12, JoueurAssumption DEF Joueurs
  <2>2. phase' = "poll"
    BY <1>4, <1>12
  <2>3. etapeAbs' = "placement"
    BY <2>2 DEF etapeAbs, TourFini, Instruit
  <2>4. restantsAbs' = restantsAbs \ {i}
    <3>1. bateaux'[i].taille # 0
      BY <1>4, <1>5, TailleAssumption DEF BateauPlace
    <3>2. \A k \in Joueurs \ {i} : bateaux'[k] = bateaux[k]
      BY <1>4, <1>5
    <3>3. restantsAbs = {k \in Joueurs : bateaux[k].taille = 0}
      BY <1>2, <1>9 DEF restantsAbs
    <3>4. restantsAbs' = {k \in Joueurs : bateaux'[k].taille = 0}
      BY <2>2, <2>3 DEF restantsAbs
    <3> QED
      BY <3>1, <3>2, <3>3, <3>4
  <2> QED
    BY <1>5, <1>8, <1>9, <2>1, <2>3, <2>4 DEF Bataille!Placer, Bataille!Servir
<1> QED
  BY <1>11, <1>12

\* A shot hits cells of the boats, and moves none.
LEMMA FlotteEnPlace ==
  ASSUME TypeOK, Anneau, phase \notin AvantJeu, Serveur \/ Lancer
  PROVE  flotteAbs' = flotteAbs
<1>1. CASE RecevoirTir
  <2>1. ASSUME NEW k \in Joueurs
        PROVE  /\ bateaux'[k].taille = bateaux[k].taille
               /\ \A j \in Segment : bateaux'[k].cell[j].pos = bateaux[k].cell[j].pos
    <3>1. k \in 0 .. MAX_BATEAUX - 1
      BY BateauxAssumption, JoueurAssumption DEF Joueurs
    <3>2. k \in DOMAIN bateaux
      BY <3>1 DEF TypeOK
    <3>3. bateaux' = bateaux \/ \E c : bateaux' = TirerBateau(bateaux, c, nbBateau)
      BY <1>1 DEF RecevoirTir, Tirer
    <3> QED
      BY <3>2, <3>3 DEF TirerBateau
  <2>2. \A k \in Joueurs :
          {bateaux'[k].cell[j].pos : j \in {n \in Segment : n < bateaux'[k].taille}}
            = {bateaux[k].cell[j].pos : j \in {n \in Segment : n < bateaux[k].taille}}
    BY <2>1
  <2> QED
    BY <2>2 DEF flotteAbs
<1>2. CASE ~RecevoirTir
  BY <1>2, ApresPlacement DEF flotteAbs
<1> QED
  BY <1>1, <1>2

\* The shot of the next player, or nothing from one that is sunk.
LEMMA TirTirer ==
  ASSUME TypeOK, Fiable, Anneau, EnPas, RecevoirTir, NEW i \in Joueurs, i = idx
  PROVE  Bataille!Tirer(i)
<1>1. phase = "tir"
  BY DEF RecevoirTir
<1>0. Boucler("tir", "verif")
  BY <1>1, PasTrop DEF AvantJeu
<1>2. Vise(i)
  BY <1>1 DEF EnPas, Etape, Joueurs
<1>3. PICK r \in Lecture(c2s[i], conn[i], Residus) :
        IF EstTir(r.m) THEN Tirer(<<r.m.infos[2], r.m.infos[1]>>) ELSE UNCHANGED <<cell, bateaux>>
  BY DEF RecevoirTir
<1>4. r.m \in CoupDe(i) /\ Present(i)
  BY <1>2, <1>3, TirRecu
<1>5. IF cetat[i] = "EN_JEU"
      THEN \E c \in Tirs :
             cell' = [cell EXCEPT ![c] = IF @ \in {"BOAT", "HIT_SHOT"} THEN "HIT_SHOT"
                                                                      ELSE "MISSED_SHOT"]
      ELSE UNCHANGED cell
  <2>1. CASE cetat[i] = "EN_JEU"
    <3>1. PICK c \in Tirs : r.m = Coup(c)
      BY <1>4, <2>1 DEF CoupDe, Coups
    <3>2. c \in Case /\ c = <<c[1], c[2]>>
      BY TirsAssumption DEF Case
    <3>3. EstTir(r.m) /\ <<r.m.infos[2], r.m.infos[1]>> = c
      BY <3>1, <3>2 DEF Coup, Req, EstTir
    <3>4. cell' = [cell EXCEPT ![c] = Touche(@)]
      BY <1>3, <3>3 DEF Tirer
    <3>5. Touche(cell[c]) = IF cell[c] \in {"BOAT", "HIT_SHOT"} THEN "HIT_SHOT" ELSE "MISSED_SHOT"
      BY DEF Touche
    <3> QED
      BY <2>1, <3>4, <3>5
  <2>2. CASE cetat[i] # "EN_JEU"
    <3>1. ~EstTir(r.m)
      BY <1>4, <2>2 DEF CoupDe, Mort, Req, EstTir
    <3> QED
      BY <1>3, <2>2, <3>1
  <2> QED
    BY <2>1, <2>2
<1>6. flotteAbs' = flotteAbs /\ cetat' = cetat
  BY <1>1, FlotteEnPlace DEF AvantJeu, Serveur, RecevoirTir, clients
<1>7. etapeAbs = "tirs" /\ ~Bataille!Finie
  BY <1>1, <1>4 DEF etapeAbs, Present, Bataille!Finie, Bataille!Fins
<1>8. restantsAbs = {k \in Joueurs : k > i \/ k = i}
  BY <1>1, <1>7 DEF restantsAbs, TourFini, Instruit
<1>9. CASE i = nbJoueur - 1
  <2>1. phase' = "verif"
    BY <1>0, <1>9 DEF Boucler, Joueurs
  <2>2. etapeAbs' = "annonce" /\ restantsAbs' = Joueurs
    BY <2>1 DEF etapeAbs, TourFini, Instruit, restantsAbs
  <2>3. restantsAbs = {i}
    BY <1>8, <1>9, JoueurAssumption DEF Joueurs
  <2> QED
    BY <1>5, <1>6, <1>7, <2>2, <2>3 DEF Bataille!Tirer, Bataille!Servir
<1>10. CASE i # nbJoueur - 1
  <2>1. phase' = "tir" /\ idx' = i + 1
    BY <1>0, <1>10, JoueurAssumption DEF Boucler, Joueurs
  <2>2. etapeAbs' = "tirs" /\ ~TourFini' /\ ~Instruit'
    BY <2>1 DEF etapeAbs, TourFini, Instruit
  <2>3. restantsAbs' = {k \in Joueurs : k > i + 1 \/ k = i + 1}
    BY <2>1, <2>2 DEF restantsAbs
  <2>4. restantsAbs' = restantsAbs \ {i}
    BY <1>8, <2>3 DEF Joueurs
  <2>5. i \in restantsAbs /\ i + 1 \in restantsAbs /\ i + 1 # i
    BY <1>8, <1>10, JoueurAssumption DEF Joueurs
  <2> QED
    BY <1>5, <1>6, <1>7, <2>2, <2>4, <2>5 DEF Bataille!Tirer, Bataille!Servir
<1> QED
  BY <1>9, <1>10

\* The placement, and the start of the rounds.
LEMMA DebutRaffine ==
  ASSUME TypeOK, Fiable, Anneau, EnPas, \A k \in Joueurs : Longueur(k) /\ Vacant(k),
         phase \in AvantJeu \cup {"pause"}, Serveur \/ Lancer
  PROVE  Bataille!Next \/ UNCHANGED Bataille!vars
<1>0. UNCHANGED clients
  BY ServeurSeul
<1>1. CASE phase = "poll"
  <2>1. RecevoirBateau
    BY <1>1, PollServeur
  <2>2. PICK i \in Joueurs : i = idx
    BY <2>1 DEF RecevoirBateau
  <2>3. Bataille!Placer(i)
    BY <2>1, <2>2, BateauPlacer
  <2> QED
    BY <2>3 DEF Bataille!Next
<1>2. CASE phase \in {"infos", "infos_ack", "bateaux"}
  <2>1. UNCHANGED plateau
    BY <1>2, PlateauFixe DEF RecevoirBateau, RecevoirTir
  <2>2. phase \in AvantJeu /\ phase' \in AvantJeu
    BY <1>2, AvantPlacement DEF AvantJeu
  <2> QED
    BY <1>0, <2>1, <2>2, PlacementImmobile DEF clients, plateau
<1>3. CASE phase = "pause"
  <2>1. Lancer
    BY <1>3, PasDEcritureFatale
    DEF Serveur, EnvoyerInfos, InfosAck, DemanderBateaux, RecevoirBateau, EnvoyerPlateau,
        PlateauAck, EnvoyerGo, GoAck, RecevoirTir, VerifierFinPartie, EnvoyerEtat, EtatAck,
        EnvoyerPuis, RecevoirAck
  <2>2. phase' = "plateau" /\ UNCHANGED plateau
    BY <2>1 DEF Lancer
  <2> QED
    BY <1>0, <1>3, <2>2, TirsImmobile DEF clients, plateau
<1> QED
  BY <1>1, <1>2, <1>3 DEF AvantJeu

\* The calls between the verdicts and the shots.
LEMMA EntreDeuxRaffine ==
  ASSUME EnvoyerPlateau \/ PlateauAck \/ EnvoyerGo \/ GoAck
  PROVE  UNCHANGED Bataille!vars
<1>1. phase \in {"plateau", "plateau_ack", "go", "go_ack"} /\ UNCHANGED <<cell, bateaux, cetat>>
  BY DEF EnvoyerPlateau, EnvoyerGo, EnvoyerPuis, PlateauAck, GoAck, RecevoirAck, plateau, clients
<1>2. phase' \in {"plateau", "plateau_ack", "go", "go_ack"} \/ (phase' = "tir" /\ idx' = 0)
  BY DEF EnvoyerPlateau, EnvoyerGo, EnvoyerPuis, PlateauAck, GoAck, RecevoirAck, Boucler
<1> QED
  BY <1>1, <1>2, TirsImmobile

LEMMA ToursRaffine ==
  ASSUME TypeOK, Fiable, Anneau, EnPas, Bilan, pannes = Pannes, \A k \in Joueurs : Ages(k),
         phase \notin AvantJeu \cup {"pause"}, Serveur \/ Lancer
  PROVE  Bataille!Next \/ UNCHANGED Bataille!vars
<1>1. CASE RecevoirTir
  <2>1. PICK i \in Joueurs : i = idx
    BY <1>1, AuPas DEF RecevoirTir
  <2>2. Bataille!Tirer(i)
    BY <1>1, <2>1, TirTirer
  <2> QED
    BY <2>2 DEF Bataille!Next
<1>2. ~EnvoyerInfos /\ ~InfosAck /\ ~DemanderBateaux /\ ~RecevoirBateau /\ ~Lancer
  BY DEF AvantJeu, EnvoyerInfos, EnvoyerPuis, InfosAck, RecevoirAck, DemanderBateaux,
         RecevoirBateau, Lancer
<1> QED
  BY <1>1, <1>2, EntreDeuxRaffine, VerifImmobile, EnvoyerEtatImmobile, EtatAckRaffine,
     PasDEcritureFatale
  DEF Serveur

LEMMA ServeurRaffine ==
  ASSUME Sain, Inv, InvP, InvV, InvR, Serveur \/ Lancer
  PROVE  Bataille!Next \/ UNCHANGED Bataille!vars
<1>0. /\ TypeOK /\ Anneau /\ (EnPas \/ JeuFini) /\ Bilan /\ Fiable /\ pannes = Pannes
      /\ \A k \in Joueurs : Ages(k) /\ Longueur(k) /\ Vacant(k)
  BY DEF Inv, InvP, InvV, InvR, Sain
<1>1. CASE EnPas
  BY <1>0, <1>1, DebutRaffine, ToursRaffine
<1>2. CASE JeuFini
  <2>1. phase \notin AvantJeu
    BY <1>2, ZeroJoueur DEF JeuFini, Apres
  <2>2. Bataille!Finie
    BY <1>0, <1>2, FiniePartout
  <2>3. flotteAbs' = flotteAbs /\ cetat' = cetat
    BY <1>0, <2>1, FlotteEnPlace, ServeurSeul DEF clients
  <2>4. Bataille!Apres
    BY <2>2, <2>3 DEF Bataille!Apres
  <2> QED
    BY <2>4 DEF Bataille!Next
<1> QED
  BY <1>0, <1>1, <1>2

LEMMA PasRaffine ==
  ASSUME Sain, Inv, InvP, InvV, InvR, [Next]_vars
  PROVE  Bataille!Next \/ UNCHANGED Bataille!vars
<1>1. CASE Serveur \/ Lancer
  BY <1>1, ServeurRaffine
<1>2. CASE \E i \in Joueurs : Client(i)
  <2>1. TypeOK'
    BY InvStep DEF Inv
  <2> QED
    BY <1>2, <2>1, ClientRaffine DEF Sain
<1>3. ~RecevoirFantome
  BY PasDeFantome DEF Inv, InvP
<1>4. CASE Termine \/ UNCHANGED vars
  <2>1. UNCHANGED <<phase, idx, s2c, cell, bateaux, cetat>>
    BY <1>4 DEF Termine, vars
  <2>2. (Instruit' <=> Instruit) /\ (TourFini' <=> TourFini) /\ etapeAbs' = etapeAbs
    BY <2>1 DEF TourFini, Instruit, etapeAbs
  <2>3. restantsAbs' = restantsAbs /\ flotteAbs' = flotteAbs
    BY <2>1, <2>2 DEF restantsAbs, flotteAbs
  <2> QED
    BY <2>1, <2>2, <2>3 DEF Bataille!vars
<1> QED
  BY <1>1, <1>2, <1>3, <1>4 DEF Next

\* The game begins without boats.
LEMMA DebutAbstrait == ASSUME Vierge, Init PROVE Bataille!Init
<1>1. phase = "infos" /\ cell = [c \in Case |-> "EMPTY"] /\ cetat = [i \in Joueurs |-> "EN_JEU"]
  BY DEF Init, Vierge
<1>2. InvR
  BY InvRInit
<1>3. \A i \in Joueurs : bateaux[i].taille = 0
  BY <1>1, <1>2 DEF InvR, Vacant, AvantJeu
<1>4. etapeAbs = "placement"
  BY <1>1 DEF etapeAbs, TourFini, Instruit
<1>5. restantsAbs = Joueurs
  <2>1. restantsAbs = {i \in Joueurs : bateaux[i].taille = 0}
    BY <1>1, <1>4 DEF restantsAbs
  <2> QED
    BY <1>3, <2>1
<1>6. flotteAbs = [i \in Joueurs |-> {}]
  <2>1. ASSUME NEW i \in Joueurs
        PROVE  {bateaux[i].cell[j].pos : j \in {k \in Segment : k < bateaux[i].taille}} = {}
    BY <1>3, TailleAssumption DEF Segment
  <2> QED
    BY <2>1 DEF flotteAbs
<1> QED
  BY <1>1, <1>4, <1>5, <1>6 DEF Bataille!Init

----------------------------------------------------------------------------

LEMMA InvRToujours == ASSUME Sain, Vierge PROVE Spec => [](Inv /\ InvP /\ InvV /\ InvR)
<1>1. Init => InvR
  BY InvRInit
<1>2. Inv /\ InvP /\ InvR /\ [Next]_vars => InvR'
  BY InvRStep, InvPInvD DEF Sain
<1> QED
  BY <1>1, <1>2, InvVSain, PTL DEF Spec

\* A game in which nothing fails and that begins on an empty grid is the game
\* of BatailleRoyale: the two programs per player, their messages and the
\* server's two records of the boats let every player that takes part place
\* one boat, fire one shot a round that counts once, at the cell its program
\* aimed at, and learn after all shots of the round the fate the grid alone
\* decides; no step of either program is anything else to the players.
THEOREM RaffineToujours == ASSUME Sain, Vierge PROVE Spec => Raffine
<1>1. Init => Bataille!Init
  BY DebutAbstrait
<1>2. Inv /\ InvP /\ InvV /\ InvR /\ [Next]_vars => [Bataille!Next]_(Bataille!vars)
  BY PasRaffine
<1> QED
  BY <1>1, <1>2, InvRToujours, PTL DEF Spec, Raffine, Bataille!Spec

----------------------------------------------------------------------------
(***************************************************************************)
(* What the players are promised, of the clients of module Partie.         *)
(***************************************************************************)

Promesses == INSTANCE BatailleRoyaleProofs WITH
  Bateaux  <- {{Position(p[1], p[2], p[3], j) : j \in Segment} : p \in Placements},
  etape    <- etapeAbs,
  restants <- restantsAbs,
  flotte   <- flotteAbs,
  grille   <- cell,
  annonce  <- cetat

\* The boats lie on the board.
LEMMA BateauxDedans ==
  {{Position(p[1], p[2], p[3], j) : j \in Segment} : p \in Placements} \subseteq SUBSET Case
<1> SUFFICES ASSUME NEW p \in Placements, NEW j \in Segment
             PROVE  Position(p[1], p[2], p[3], j) \in Case
  OBVIOUS
<1> QED
  BY PlacementsAssumption

\* The two instances are one game.
LEMMA MemePas ==
  /\ Bataille!Init => Promesses!Init
  /\ [Bataille!Next]_(Bataille!vars) => [Promesses!Next]_(Promesses!vars)
<1>1. Bataille!Init => Promesses!Init
  BY DEF Bataille!Init, Promesses!Init
<1>2. [Bataille!Next]_(Bataille!vars) => [Promesses!Next]_(Promesses!vars)
  BY DEF Bataille!Next, Bataille!vars, Bataille!Placer, Bataille!Tirer, Bataille!Annoncer,
     Bataille!Apres, Bataille!Finie, Bataille!Fins, Bataille!Servir, Bataille!Sort,
     Bataille!AFlot, Promesses!Next, Promesses!vars, Promesses!Placer, Promesses!Tirer,
     Promesses!Annoncer, Promesses!Apres, Promesses!Finie, Promesses!Fins, Promesses!Servir,
     Promesses!Sort, Promesses!AFlot
<1> QED
  BY <1>1, <1>2

\* Of the clients of a game without failures at most one ever shows its player
\* that it has won, although the verdicts are sent and read one by one.
THEOREM UnSeulGagnant == ASSUME Sain, Vierge PROVE Spec => []Bataille!UnSeulVainqueur
<1>1. Promesses!Spec => []Promesses!UnSeulVainqueur
  BY BateauxDedans, Promesses!UnSeulVainqueurToujours
<1>2. Promesses!UnSeulVainqueur => Bataille!UnSeulVainqueur
  BY DEF Promesses!UnSeulVainqueur, Bataille!UnSeulVainqueur
<1> QED
  BY <1>1, <1>2, MemePas, RaffineToujours, PTL DEF Raffine, Bataille!Spec, Promesses!Spec

\* No client takes back what it has shown: a sunk player neither plays again
\* nor wins, and an end stays, through every round the server adds to it.
THEOREM ParoleTenue ==
  ASSUME Sain, Vierge
  PROVE  Spec => [][\A i \in Joueurs :
                      /\ cetat[i] = "DEAD" => cetat'[i] \in {"DEAD", "FIN_LOSE"}
                      /\ cetat[i] \in Fins => cetat'[i] = cetat[i]]_vars
<1> DEFINE P == \A i \in Joueurs :
                  /\ cetat[i] = "DEAD" => cetat'[i] \in {"DEAD", "FIN_LOSE"}
                  /\ cetat[i] \in Fins => cetat'[i] = cetat[i]
<1>1. Promesses!Spec => Promesses!SansRetour
  BY BateauxDedans, Promesses!SansRetourToujours
<1>2. [\A i \in Joueurs :
         /\ cetat[i] = "DEAD" => cetat'[i] \in {"DEAD", "FIN_LOSE"}
         /\ cetat[i] \in Promesses!Fins => cetat'[i] = cetat[i]]_(Promesses!vars)
      => [P]_vars
  BY DEF Promesses!vars, Promesses!Fins, Fins
<1> QED
  BY <1>1, <1>2, MemePas, RaffineToujours, PTL
  DEF Raffine, Bataille!Spec, Promesses!Spec, Promesses!SansRetour
============================================================================
