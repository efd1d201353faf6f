---------------------------- MODULE PartieProofs ----------------------------
(***************************************************************************)
(* Proofs about the game, for any number of players, any sizes, any number *)
(* of crashes, with or without merged reads.                               *)
(***************************************************************************)
EXTENDS Partie, SequenceTheorems, FiniteSetTheorems, TLAPS

----------------------------------------------------------------------------
(***************************************************************************)
(* The board.  A placement p = <<x, y, d>> is supposed to lie on it (which *)
(* is proved of the placement screens in TirProofs).                       *)
(***************************************************************************)

\* What the two records of a boat cell have to do with each other, for one
\* boat: a cell of a placed boat is afloat or hit, as the grid says.
Accord(grille, b) ==
  \A j \in Segment : j < b.taille =>
    /\ b.cell[j].status \in {"BOAT", "HIT_SHOT"}
    /\ b.cell[j].status = grille[b.cell[j].pos]

\* The same before any shot.
Intact(grille, b) ==
  \A j \in Segment : j < b.taille =>
    b.cell[j].status = "BOAT" /\ grille[b.cell[j].pos] = "BOAT"

\* A boat that is placed has the type of a boat, keeps the grid a grid, and is
\* intact on it.
LEMMA PlacerType ==
  ASSUME NEW grille \in [Case -> Contenu],
         NEW x \in Coord, NEW y \in Coord, NEW d \in Direction,
         \A i \in Segment : Position(x, y, d, i) \in Case
  PROVE  /\ BateauPlace(x, y, d) \in Bateau
         /\ CasesPlacees(grille, x, y, d) \in [Case -> Contenu]
         /\ Intact(CasesPlacees(grille, x, y, d), BateauPlace(x, y, d))
<1>1. BateauPlace(x, y, d) \in Bateau
  BY DEF BateauPlace, Bateau, Status
<1>2. CasesPlacees(grille, x, y, d) \in [Case -> Contenu]
  BY DEF CasesPlacees, Contenu, Status
<1>3. \A i \in Segment : CasesPlacees(grille, x, y, d)[Position(x, y, d, i)] = "BOAT"
  BY DEF CasesPlacees
<1>4. \A i \in Segment : /\ BateauPlace(x, y, d).cell[i].pos = Position(x, y, d, i)
                         /\ BateauPlace(x, y, d).cell[i].status = "BOAT"
  BY DEF BateauPlace
<1> QED
  BY <1>1, <1>2, <1>3, <1>4 DEF Intact

\* Placing a boat leaves the boats that were intact intact, where they overlap
\* it too.
LEMMA PlacerIntact ==
  ASSUME NEW grille \in [Case -> Contenu],
         NEW x, NEW y, NEW d,
         NEW b \in Bateau, Intact(grille, b)
  PROVE  Intact(CasesPlacees(grille, x, y, d), b)
  BY DEF Intact, CasesPlacees, Bateau

\* The boats after a shot.
LEMMA TirerType ==
  ASSUME NEW I, NEW flotte \in [I -> Bateau], NEW c, NEW nb
  PROVE  TirerBateau(flotte, c, nb) \in [I -> Bateau]
<1> SUFFICES ASSUME NEW b \in I
             PROVE  TirerBateau(flotte, c, nb)[b] \in Bateau
  BY DEF TirerBateau
<1>1. flotte[b] \in Bateau
  OBVIOUS
<1> QED
  BY <1>1 DEF TirerBateau, Bateau, Status

\* A shot at a cell that is no boat leaves every boat in accord with the grid.
LEMMA TirerEau ==
  ASSUME NEW grille \in [Case -> Contenu], NEW c \in Case, grille[c] # "BOAT",
         NEW b \in Bateau, Accord(grille, b)
  PROVE  Accord([grille EXCEPT ![c] = Touche(@)], b)
<1> SUFFICES ASSUME NEW j \in Segment, j < b.taille
             PROVE  /\ b.cell[j].status \in {"BOAT", "HIT_SHOT"}
                    /\ b.cell[j].status = [grille EXCEPT ![c] = Touche(@)][b.cell[j].pos]
  BY DEF Accord
<1>1. /\ b.cell[j].pos \in Case
      /\ b.cell[j].status \in {"BOAT", "HIT_SHOT"}
      /\ b.cell[j].status = grille[b.cell[j].pos]
  BY DEF Accord, Bateau
<1> QED
  BY <1>1 DEF Touche

\* A shot at a boat cell leaves every counted boat in accord with the grid.
LEMMA TirerTouche ==
  ASSUME NEW grille \in [Case -> Contenu], NEW c \in Case, grille[c] = "BOAT",
         NEW I, NEW flotte \in [I -> Bateau], NEW nb, NEW b \in I, b < nb,
         Accord(grille, flotte[b])
  PROVE  Accord([grille EXCEPT ![c] = Touche(@)], TirerBateau(flotte, c, nb)[b])
<1> DEFINE t == TirerBateau(flotte, c, nb)[b]
<1> SUFFICES ASSUME NEW j \in Segment, j < t.taille
             PROVE  /\ t.cell[j].status \in {"BOAT", "HIT_SHOT"}
                    /\ t.cell[j].status = [grille EXCEPT ![c] = Touche(@)][t.cell[j].pos]
  BY DEF Accord
<1>1. /\ t.taille = flotte[b].taille
      /\ t.cell[j].pos = flotte[b].cell[j].pos
      /\ t.cell[j].status = IF j < flotte[b].taille /\ flotte[b].cell[j].pos = c
                            THEN "HIT_SHOT" ELSE flotte[b].cell[j].status
  BY DEF TirerBateau
<1>2. /\ flotte[b].cell[j].pos \in Case
      /\ flotte[b].cell[j].status \in {"BOAT", "HIT_SHOT"}
      /\ flotte[b].cell[j].status = grille[flotte[b].cell[j].pos]
  <2>1. flotte[b] \in Bateau
    OBVIOUS
  <2> QED
    BY <1>1, <2>1 DEF Accord, Bateau
<1> HIDE DEF t
<1> QED
  BY <1>1, <1>2 DEF Touche

\* The text of the board has at most one digit per cell.
LEMMA EncoderType ==
  ASSUME NEW grille
  PROVE  EncoderPlateau(grille) \in Seq(Nat)
<1> DEFINE nbCases == taillePlateau * taillePlateau
           long == nbCases - Cardinality(Muettes(grille))
<1>1. nbCases \in Nat
  BY TailleAssumption
<1>2. IsFiniteSet(1 .. nbCases) /\ Cardinality(1 .. nbCases) = nbCases
  BY <1>1, FS_Interval
<1>3. Muettes(grille) \subseteq 1 .. nbCases
  BY DEF Muettes
<1>4. IsFiniteSet(Muettes(grille)) /\ Cardinality(Muettes(grille)) <= nbCases
  BY <1>2, <1>3, FS_Subset
<1>5. Cardinality(Muettes(grille)) \in Nat
  BY <1>4, FS_CardinalityType
<1>6. long \in Nat
  BY <1>1, <1>4, <1>5
<1>7. \A e : Chiffre(e) \in Nat
  BY DEF Chiffre
<1>8. EncoderPlateau(grille) \in [1 .. long -> Nat]
  BY <1>7 DEF EncoderPlateau
<1> QED
  BY <1>6, <1>8, SeqDef

\* The grid a client decodes has the type of a grid, whatever the text.
LEMMA DecoderType ==
  ASSUME NEW infos, NEW trace, NEW reste \in Status
  PROVE  DecoderPlateau(infos, trace, reste) \in [Case -> Status]
<1>1. \A n : Lu(n) \in Status
  BY DEF Lu, Status
<1>2. \A k : StatusLu(infos, k, reste) \in Status
  BY <1>1 DEF StatusLu, Status
<1> QED
  BY <1>2 DEF DecoderPlateau, Status

\* verifier_fin_partie sends one of four ids.
LEMMA VerdictType ==
  ASSUME NEW flotte, NEW nb, NEW i
  PROVE  Verdict(flotte, nb, i) \in {7, 8, 9, 10}
  BY DEF Verdict

----------------------------------------------------------------------------
(***************************************************************************)
(* The invariant.                                                          *)
(***************************************************************************)

\* The ring goes on as long as a boat is missing.
Place == phase = "poll" => nbRecu < nbJoueur

\* The inductive invariant: nbRecu would not keep its range without Place.
Inv == TypeOK /\ Place

----------------------------------------------------------------------------
(***************************************************************************)
(* The transport.                                                          *)
(***************************************************************************)

\* A read takes its message from the queue or from the residues, and leaves a
\* queue of the same kind.
LEMMA LectureType ==
  ASSUME NEW S, NEW q \in Seq(S), NEW c, NEW R, NEW r \in Lecture(q, c, R)
  PROVE  r.m \in S \cup R /\ r.reste \in Seq(S)
<1>1. CASE q # <<>>
  <2>1. PICK n \in 1 .. Len(q) : r = [m |-> Head(q), reste |-> SubSeq(q, n + 1, Len(q))]
    <3>1. Len(q) \in Nat /\ Len(q) >= 1
      BY <1>1, EmptySeq, LenProperties
    <3> QED
      BY <1>1, <3>1 DEF Lecture
  <2>2. Head(q) \in S
    BY <1>1, HeadTailProperties
  <2>3. Len(q) \in Int /\ \A i \in n + 1 .. Len(q) : q[i] \in S
    BY LenProperties, ElementOfSeq
  <2>4. SubSeq(q, n + 1, Len(q)) \in Seq(S)
    BY <2>3, SubSeqProperties
  <2> QED
    BY <2>1, <2>2, <2>4
<1>2. CASE q = <<>>
  <2>1. PICK m \in R : r = [m |-> m, reste |-> <<>>]
    BY <1>2 DEF Lecture
  <2>2. <<>> \in Seq(S)
    BY EmptySeq
  <2> QED
    BY <2>1, <2>2
<1> QED
  BY <1>1, <1>2

\* The boats among the messages the server may read.
LEMMA ResidusBateau ==
  ASSUME NEW m \in MsgClient \cup Residus, m.id = 3, m.infos # <<>>
  PROVE  m.infos \in Placements \cup {HorsPlateau}
<1>1. m \notin {Ok, Recept, Mort, Req(3, "bateaux", <<>>)}
  BY DEF Ok, Recept, Mort, Req
<1>2. m \notin {Coup(c) : c \in Tirs}
  BY DEF Coup, Req
<1>3. m \in {Boat(p) : p \in Placements} \cup {Boat(HorsPlateau)}
  BY <1>1, <1>2 DEF MsgClient, Residus
<1> QED
  BY <1>3 DEF Boat, Req

\* What placer_bateau is left with when it stays inside the arrays.
LEMMA BateauTenu ==
  ASSUME NEW m \in MsgClient \cup Residus, m.id = 3, m.infos # <<>>,
         NEW id, ~Deborde(m, id)
  PROVE  m.infos \in Placements /\ id \in 0 .. MAX_BATEAUX - 1
<1>1. m.infos # HorsPlateau
  <2>1. 0 \in Segment
    BY TailleAssumption DEF Segment
  <2>2. Position(HorsPlateau[1], HorsPlateau[2], HorsPlateau[3], 0) \notin Case
    BY TailleAssumption DEF HorsPlateau, Position, Case, Coord
  <2> QED
    BY <2>1, <2>2 DEF Deborde
<1> QED
  BY <1>1, ResidusBateau DEF Deborde

\* The boat of a player stays inside them.
LEMMA BateauDedans ==
  ASSUME NEW i \in Joueurs, NEW p \in Placements
  PROVE  /\ ~Deborde(Boat(p), i)
         /\ i \in 0 .. MAX_BATEAUX - 1
  BY PlacementsAssumption, BateauxAssumption, JoueurAssumption DEF Deborde, Boat, Req, Joueurs

\* The effect of a write of the server on the types.
LEMMA EnvoyerType ==
  ASSUME TypeOK, NEW i \in Joueurs, NEW m \in MsgServeur, Envoyer(i, m)
  PROVE  /\ s2c' \in [Joueurs -> Seq(MsgServeur)]
         /\ conn' \in [Joueurs -> {"ouverte", "fermee", "reset"}]
<1>1. s2c[i] \in Seq(MsgServeur)
  BY DEF TypeOK
<1>2. Append(s2c[i], m) \in Seq(MsgServeur)
  BY <1>1, AppendProperties
<1> QED
  BY <1>2 DEF Envoyer, TypeOK

\* The effect of a read of the server on the types.
LEMMA RecuType ==
  ASSUME TypeOK, NEW i \in Joueurs, NEW r \in Lecture(c2s[i], conn[i], Residus)
  PROVE  /\ r.m \in MsgClient \cup Residus
         /\ [c2s EXCEPT ![i] = r.reste] \in [Joueurs -> Seq(MsgClient)]
<1>1. c2s[i] \in Seq(MsgClient)
  BY DEF TypeOK
<1>2. r.m \in MsgClient \cup Residus /\ r.reste \in Seq(MsgClient)
  BY <1>1, LectureType
<1> QED
  BY <1>2 DEF TypeOK

\* The loop over the players keeps idx among them.
LEMMA BouclerType ==
  ASSUME idx \in Joueurs, NEW ici, NEW suite, Boucler(ici, suite)
  PROVE  idx' \in Joueurs /\ phase' \in {ici, suite}
  BY JoueurAssumption DEF Boucler, Joueurs

\* 0 is a player.
LEMMA ZeroJoueur == 0 \in Joueurs
  BY JoueurAssumption DEF Joueurs

----------------------------------------------------------------------------
(***************************************************************************)
(* The server.                                                             *)
(***************************************************************************)

\* envoyer, in the phases that wait for an acknowledgement.
LEMMA EnvoyerPuisStep ==
  ASSUME Inv, NEW m \in MsgServeur, NEW ici, NEW suite,
         <<ici, suite>> \in {<<"infos", "infos_ack">>, <<"plateau", "plateau_ack">>,
                             <<"go", "go_ack">>, <<"etat", "etat_ack">>},
         EnvoyerPuis(ici, m, suite)
  PROVE  Inv'
<1>1. idx \in Joueurs
  BY DEF Inv, TypeOK, Perdu, EnvoyerPuis
<1>2. /\ s2c' \in [Joueurs -> Seq(MsgServeur)]
      /\ conn' \in [Joueurs -> {"ouverte", "fermee", "reset"}]
  BY <1>1, EnvoyerType DEF Inv, EnvoyerPuis
<1>3. TypeOK'
  BY <1>1, <1>2 DEF Inv, TypeOK, EnvoyerPuis, Phases, plateau, clients
<1>4. Place'
  BY DEF Inv, Place, EnvoyerPuis, plateau
<1> QED
  BY <1>3, <1>4 DEF Inv

\* recevoir of an acknowledgement.
LEMMA RecevoirAckStep ==
  ASSUME Inv, NEW ici, NEW debut, NEW suite,
         <<ici, debut, suite>> \in
           {<<"infos_ack", "infos", "bateaux">>, <<"plateau_ack", "plateau", "go">>,
            <<"go_ack", "go", "tir">>, <<"etat_ack", "etat", "retour">>,
            <<"etat_ack", "etat", "plateau">>},
         RecevoirAck(ici, debut, suite)
  PROVE  Inv'
<1>1. idx \in Joueurs
  BY DEF Inv, TypeOK, Perdu, RecevoirAck
<1>2. idx' \in Joueurs /\ phase' \in {debut, suite}
  BY <1>1, BouclerType DEF RecevoirAck
<1>3. c2s' \in [Joueurs -> Seq(MsgClient)]
  BY <1>1, RecuType DEF Inv, RecevoirAck
<1>4. TypeOK'
  <2>1. idx' \in 0 .. nbJoueur + 1
    BY <1>2, JoueurAssumption DEF Joueurs
  <2>2. phase' \in Phases
    BY <1>2 DEF Phases
  <2> QED
    BY <1>2, <1>3, <2>1, <2>2 DEF Inv, TypeOK, RecevoirAck, plateau, clients
<1>5. Place'
  BY <1>2 DEF Inv, Place, RecevoirAck, plateau
<1> QED
  BY <1>4, <1>5 DEF Inv

\* The request for the boats.
LEMMA DemanderBateauxStep == Inv /\ DemanderBateaux => Inv'
<1> SUFFICES ASSUME Inv, DemanderBateaux PROVE Inv'
  OBVIOUS
<1>1. idx \in Joueurs
  BY DEF Inv, TypeOK, Perdu, DemanderBateaux
<1>2. idx' \in Joueurs /\ phase' \in {"bateaux", "poll"}
  BY <1>1, BouclerType DEF DemanderBateaux
<1>3. Req(3, "bateaux", <<>>) \in MsgServeur
  BY EmptySeq DEF Req, MsgServeur
<1>4. /\ s2c' \in [Joueurs -> Seq(MsgServeur)]
      /\ conn' \in [Joueurs -> {"ouverte", "fermee", "reset"}]
  BY <1>1, <1>3, EnvoyerType DEF Inv, DemanderBateaux
<1>5. nbRecu' = 0 /\ nbRecu' \in 0 .. nbJoueur
  BY JoueurAssumption DEF DemanderBateaux
<1>6. idx' \in 0 .. nbJoueur + 1
  BY <1>2, JoueurAssumption DEF Joueurs
<1>7. TypeOK'
  BY <1>2, <1>4, <1>5, <1>6 DEF Inv, TypeOK, DemanderBateaux, Phases, plateau, clients
<1>8. Place'
  BY <1>2, <1>5, JoueurAssumption DEF Inv, TypeOK, Place, DemanderBateaux, plateau
<1> QED
  BY <1>7, <1>8 DEF Inv

\* A boat is placed.
LEMMA PlacerBateauStep ==
  ASSUME TypeOK, NEW id \in 0 .. MAX_BATEAUX - 1, NEW p \in Placements, PlacerBateau(id, p)
  PROVE  /\ cell' \in [Case -> Contenu]
         /\ bateaux' \in [0 .. MAX_BATEAUX - 1 -> Bateau]
         /\ nbBateau' \in Int
<1>1. /\ p[1] \in Coord /\ p[2] \in Coord /\ p[3] \in Direction
      /\ \A i \in Segment : Position(p[1], p[2], p[3], i) \in Case
  BY PlacementsAssumption
<1>2. /\ cell \in [Case -> Contenu]
      /\ bateaux \in [0 .. MAX_BATEAUX - 1 -> Bateau]
  BY DEF TypeOK
<1>3. /\ BateauPlace(p[1], p[2], p[3]) \in Bateau
      /\ CasesPlacees(cell, p[1], p[2], p[3]) \in [Case -> Contenu]
  BY <1>1, <1>2, PlacerType
<1> QED
  BY <1>2, <1>3 DEF PlacerBateau, TypeOK

\* An intact boat agrees with the grid.
LEMMA IntactAccord == ASSUME NEW c, NEW b, Intact(c, b) PROVE Accord(c, b)
  BY DEF Intact, Accord

\* What the polling loop does of a message, from a player or from a slot
\* beyond the players.
LEMMA CompterBateauStep ==
  ASSUME Inv, phase = "poll", NEW m \in MsgClient \cup Residus, NEW id,
         CompterBateau(m, id),
         UNCHANGED <<etat, clients, pannes>>,
         s2c' \in [Joueurs -> Seq(MsgServeur)],
         c2s' \in [Joueurs -> Seq(MsgClient)],
         conn' \in [Joueurs -> {"ouverte", "fermee", "reset"}]
  PROVE  Inv'
<1>1. /\ nbRecu \in 0 .. nbJoueur /\ nbRecu < nbJoueur
      /\ idx \in 0 .. nbJoueur + 1
      /\ nbJoueur \in Nat
  BY JoueurAssumption DEF Inv, TypeOK, Place
<1>2. CASE Deborde(m, id)
  <2>1. phase' = "egare" /\ UNCHANGED <<idx, nbRecu, plateau>>
    BY <1>2 DEF CompterBateau
  <2>2. TypeOK'
    BY <2>1 DEF Inv, TypeOK, Perdu, Phases, plateau, clients
  <2> QED
    BY <2>1, <2>2 DEF Inv, Place
<1>3. CASE ~Deborde(m, id)
  <2>1. /\ nbRecu' \in 0 .. nbJoueur
        /\ nbRecu' = IF m.id = 3 THEN nbRecu + 1 ELSE nbRecu
    BY <1>1, <1>3 DEF CompterBateau
  <2>2. /\ phase' \in {"poll", "pause"}
        /\ phase' = "poll" => nbRecu' # nbJoueur
        /\ phase' = "pause" => idx' = 0
        /\ idx' \in 0 .. nbJoueur + 1
    BY <1>1, <1>3 DEF CompterBateau, SlotSuivant
  <2>3. /\ cell' \in [Case -> Contenu]
        /\ bateaux' \in [0 .. MAX_BATEAUX - 1 -> Bateau]
        /\ nbBateau' \in Int
    <3>1. CASE m.id = 3 /\ m.infos # <<>>
      <4>1. m.infos \in Placements /\ id \in 0 .. MAX_BATEAUX - 1
        BY <1>3, <3>1, BateauTenu
      <4>2. PlacerBateau(id, m.infos)
        BY <1>3, <3>1 DEF CompterBateau
      <4> QED
        BY <4>1, <4>2, PlacerBateauStep DEF Inv
    <3>2. CASE ~(m.id = 3 /\ m.infos # <<>>)
      <4>1. UNCHANGED plateau
        BY <1>3, <3>2 DEF CompterBateau
      <4> QED
        BY <4>1 DEF Inv, TypeOK, plateau
    <3> QED
      BY <3>1, <3>2
  <2>4. TypeOK'
    BY <2>1, <2>2, <2>3, ZeroJoueur DEF Inv, TypeOK, Phases, clients
  <2>5. phase' = "poll" => nbRecu' < nbJoueur
    BY <1>1, <2>1, <2>2
  <2> QED
    BY <2>4, <2>5 DEF Inv, Place
<1> QED
  BY <1>2, <1>3

\* A message from a player, while the boats come in.
LEMMA RecevoirBateauStep == Inv /\ RecevoirBateau => Inv'
<1> SUFFICES ASSUME Inv, RecevoirBateau PROVE Inv'
  OBVIOUS
<1>1. PICK r \in Lecture(c2s[idx], conn[idx], Residus) :
        /\ c2s' = [c2s EXCEPT ![idx] = r.reste]
        /\ CompterBateau(r.m, idx)
  BY DEF RecevoirBateau
<1>2. idx \in Joueurs
  BY DEF RecevoirBateau
<1>3. r.m \in MsgClient \cup Residus /\ c2s' \in [Joueurs -> Seq(MsgClient)]
  BY <1>1, <1>2, RecuType DEF Inv
<1>4. Ok \in MsgServeur
  BY EmptySeq DEF Ok, Req, MsgServeur
<1>5. /\ s2c' \in [Joueurs -> Seq(MsgServeur)]
      /\ conn' \in [Joueurs -> {"ouverte", "fermee", "reset"}]
  BY <1>2, <1>4, EnvoyerType DEF Inv, RecevoirBateau
<1> QED
  BY <1>1, <1>2, <1>3, <1>5, CompterBateauStep DEF RecevoirBateau

\* What a slot beyond the players may bring.
LEMMA RecevoirFantomeStep == Inv /\ RecevoirFantome => Inv'
<1> SUFFICES ASSUME Inv, RecevoirFantome PROVE Inv'
  OBVIOUS
<1>1. CASE FantomeLu
  <2>1. PICK m \in Residus, id \in idsFantomes : CompterBateau(m, id) /\ UNCHANGED reseau
    BY <1>1 DEF FantomeLu
  <2>2. /\ s2c' \in [Joueurs -> Seq(MsgServeur)]
        /\ c2s' \in [Joueurs -> Seq(MsgClient)]
        /\ conn' \in [Joueurs -> {"ouverte", "fermee", "reset"}]
    BY <2>1 DEF reseau, Inv, TypeOK
  <2> QED
    BY <2>1, <2>2, CompterBateauStep DEF RecevoirFantome
<1>2. ASSUME NEW i \in Joueurs, FantomeDouble(i) PROVE Inv'
  <2>1. PICK r \in Lecture(c2s[i], conn[i], Residus), id \in idsFantomes :
          /\ c2s' = [c2s EXCEPT ![i] = r.reste]
          /\ CompterBateau(r.m, id)
    BY <1>2 DEF FantomeDouble
  <2>2. r.m \in MsgClient \cup Residus /\ c2s' \in [Joueurs -> Seq(MsgClient)]
    BY <2>1, RecuType DEF Inv
  <2>3. Ok \in MsgServeur
    BY EmptySeq DEF Ok, Req, MsgServeur
  <2>4. /\ s2c' \in [Joueurs -> Seq(MsgServeur)]
        /\ conn' \in [Joueurs -> {"ouverte", "fermee", "reset"}]
    BY <1>2, <2>3, EnvoyerType DEF Inv, FantomeDouble
  <2> QED
    BY <2>1, <2>2, <2>4, CompterBateauStep DEF RecevoirFantome
<1>3. CASE FantomeFatal
  BY <1>3 DEF FantomeFatal, RecevoirFantome, Inv, TypeOK, Place, Perdu, Phases, plateau, clients,
     reseau
<1> QED
  BY <1>1, <1>2, <1>3 DEF RecevoirFantome

\* A shot, at water or at a boat.
LEMMA TirerStep ==
  ASSUME TypeOK, NEW c \in Case, Tirer(c)
  PROVE  /\ cell' \in [Case -> Contenu]
         /\ bateaux' \in [0 .. MAX_BATEAUX - 1 -> Bateau]
<1>1. /\ cell \in [Case -> Contenu]
      /\ bateaux \in [0 .. MAX_BATEAUX - 1 -> Bateau]
      /\ cell' = [cell EXCEPT ![c] = Touche(@)]
      /\ bateaux' \in {bateaux, TirerBateau(bateaux, c, nbBateau)}
  BY DEF TypeOK, Tirer
<1>2. cell' \in [Case -> Contenu]
  BY <1>1 DEF Touche, Contenu, Status
<1>3. TirerBateau(bateaux, c, nbBateau) \in [0 .. MAX_BATEAUX - 1 -> Bateau]
  BY <1>1, TirerType
<1> QED
  BY <1>1, <1>2, <1>3

\* A message from a player, while the shots come in.
LEMMA RecevoirTirStep == Inv /\ RecevoirTir => Inv'
<1> SUFFICES ASSUME Inv, RecevoirTir PROVE Inv'
  OBVIOUS
<1>1. PICK r \in Lecture(c2s[idx], conn[idx], Residus) :
        /\ c2s' = [c2s EXCEPT ![idx] = r.reste]
        /\ IF EstTir(r.m) THEN Tirer(<<r.m.infos[2], r.m.infos[1]>>)
                          ELSE UNCHANGED <<cell, bateaux>>
        /\ IF TropDeBateaux /\ FaitMouche(r.m) THEN phase' = "egare" /\ UNCHANGED idx
                                               ELSE Boucler("tir", "verif")
  BY DEF RecevoirTir
<1>2. idx \in Joueurs
  BY DEF RecevoirTir, Inv, TypeOK, Perdu
<1>3. idx' \in Joueurs /\ phase' \in {"tir", "verif", "egare"}
  BY <1>1, <1>2, BouclerType
<1>4. c2s' \in [Joueurs -> Seq(MsgClient)]
  BY <1>1, <1>2, RecuType DEF Inv
<1>5. Ok \in MsgServeur
  BY EmptySeq DEF Ok, Req, MsgServeur
<1>6. /\ s2c' \in [Joueurs -> Seq(MsgServeur)]
      /\ conn' \in [Joueurs -> {"ouverte", "fermee", "reset"}]
  BY <1>2, <1>5, EnvoyerType DEF Inv, RecevoirTir
<1>7. /\ cell' \in [Case -> Contenu]
      /\ bateaux' \in [0 .. MAX_BATEAUX - 1 -> Bateau]
  <2>1. CASE EstTir(r.m)
    BY <1>1, <2>1, TirerStep DEF Inv, EstTir
  <2>2. CASE ~EstTir(r.m)
    BY <1>1, <2>2 DEF Inv, TypeOK
  <2> QED
    BY <2>1, <2>2
<1>8. idx' \in 0 .. nbJoueur + 1
  BY <1>3, JoueurAssumption DEF Joueurs
<1>9. TypeOK'
  BY <1>3, <1>4, <1>6, <1>7, <1>8 DEF Inv, TypeOK, RecevoirTir, Phases, clients
<1>10. Place'
  BY <1>3 DEF Place
<1> QED
  BY <1>9, <1>10 DEF Inv

\* The steps the server takes by itself.
LEMMA ServeurStep == Inv /\ Serveur => Inv'
<1> SUFFICES ASSUME Inv, Serveur PROVE Inv'
  OBVIOUS
<1>1. CASE EnvoyerInfos
  <2>1. Req(4, "infos", <<nbJoueur, taillePlateau, tailleBateau>>) \in MsgServeur
    BY TailleAssumption, JoueurAssumption DEF Req, MsgServeur
  <2> QED
    BY <1>1, <2>1, EnvoyerPuisStep DEF EnvoyerInfos
<1>2. CASE InfosAck
  BY <1>2, RecevoirAckStep DEF InfosAck
<1>3. CASE EnvoyerPlateau
  <2>1. Req(2, "plateau", EncoderPlateau(cell)) \in MsgServeur
    BY EncoderType DEF Req, MsgServeur
  <2> QED
    BY <1>3, <2>1, EnvoyerPuisStep DEF EnvoyerPlateau
<1>4. CASE PlateauAck
  BY <1>4, RecevoirAckStep DEF PlateauAck
<1>5. CASE EnvoyerGo
  <2>1. Req(5, "go", <<>>) \in MsgServeur
    BY EmptySeq DEF Req, MsgServeur
  <2> QED
    BY <1>5, <2>1, EnvoyerPuisStep DEF EnvoyerGo
<1>6. CASE GoAck
  BY <1>6, RecevoirAckStep DEF GoAck
<1>7. CASE EnvoyerEtat
  <2> DEFINE v == Verdict(bateaux, nbBateau, idx)
  <2>1. v \in {7, 8, 9, 10}
    BY VerdictType
  <2>2. NomEtat(v) \in {"continue", "stop", "fin"}
    BY DEF NomEtat
  <2>3. Req(v, NomEtat(v), <<>>) \in MsgServeur
    BY <2>1, <2>2, EmptySeq DEF Req, MsgServeur
  <2> QED
    BY <1>7, <2>3, EnvoyerPuisStep DEF EnvoyerEtat
<1>8. CASE EtatAck
  <2>1. CASE etat = 2
    BY <1>8, <2>1, RecevoirAckStep DEF EtatAck
  <2>2. CASE etat # 2
    BY <1>8, <2>2, RecevoirAckStep DEF EtatAck
  <2> QED
    BY <2>1, <2>2
<1>9. CASE VerifierFinPartie
  <2>1. TypeOK'
    BY <1>9 DEF VerifierFinPartie, Inv, TypeOK, Perdu, Phases, plateau, clients, reseau
  <2>2. Place'
    BY <1>9 DEF VerifierFinPartie, Place
  <2> QED
    BY <2>1, <2>2 DEF Inv
<1>10. CASE EcritureFatale
  <2>1. TypeOK'
    BY <1>10 DEF EcritureFatale, Inv, TypeOK, Perdu, Phases, plateau, clients, reseau
  <2>2. Place'
    BY <1>10 DEF EcritureFatale, Place
  <2> QED
    BY <2>1, <2>2 DEF Inv
<1> QED
  BY <1>1, <1>2, <1>3, <1>4, <1>5, <1>6, <1>7, <1>8, <1>9, <1>10,
     DemanderBateauxStep, RecevoirBateauStep, RecevoirTirStep DEF Serveur

----------------------------------------------------------------------------
(***************************************************************************)
(* The clients.                                                            *)
(***************************************************************************)

\* A read of a client: the types of the queue and of its position.
LEMMA LireType ==
  ASSUME TypeOK, NEW i \in Joueurs, NEW r \in Lectures(i),
         NEW suite \in Positions, Lire(i, r, suite)
  PROVE  /\ s2c' \in [Joueurs -> Seq(MsgServeur)]
         /\ cpc' \in [Joueurs -> Positions]
<1>1. s2c[i] \in Seq(MsgServeur)
  BY DEF TypeOK
<1>2. r.reste \in Seq(MsgServeur)
  BY <1>1, LectureType DEF Lectures
<1> QED
  BY <1>2 DEF Lire, TypeOK

\* A write of a client.
LEMMA EnvoyerClientType ==
  ASSUME TypeOK, NEW i \in Joueurs, NEW m \in MsgClient, EnvoyerClient(i, m)
  PROVE  c2s' \in [Joueurs -> Seq(MsgClient)]
<1>1. c2s[i] \in Seq(MsgClient)
  BY DEF TypeOK
<1>2. Append(c2s[i], m) \in Seq(MsgClient)
  BY <1>1, AppendProperties
<1> QED
  BY <1>2 DEF EnvoyerClient, TypeOK

\* The messages that carry no data.
LEMMA MsgClientSimples == {Ok, Recept, Mort} \subseteq MsgClient
  BY DEF MsgClient

\* A step of a client preserves the types.
LEMMA ClientType ==
  ASSUME TypeOK, NEW i \in Joueurs, Client(i)
  PROVE  TypeOK'
<1> USE DEF serveur, plateau, Perdu
<1>1. CASE AttentePartie(i)
  <2>1. PICK r \in Lectures(i) :
          IF r.m.id = 4
          THEN /\ Lire(i, r, "ordre")
               /\ EnvoyerClient(i, Ok)
               /\ vue' = [vue EXCEPT ![i] = [c \in Case |-> "EMPTY"]]
          ELSE Lire(i, r, "sortie") /\ UNCHANGED <<c2s, vue>>
    BY <1>1 DEF AttentePartie
  <2>2. s2c' \in [Joueurs -> Seq(MsgServeur)] /\ cpc' \in [Joueurs -> Positions]
    <3>1. {"ordre", "sortie"} \subseteq Positions
      BY DEF Positions
    <3> QED
      BY <2>1, <3>1, LireType
  <2>3. c2s' \in [Joueurs -> Seq(MsgClient)]
    BY <2>1, EnvoyerClientType, MsgClientSimples DEF TypeOK
  <2>4. vue' \in [Joueurs -> [Case -> Status]]
    <3>1. [c \in Case |-> "EMPTY"] \in [Case -> Status]
      BY DEF Status
    <3>2. CASE r.m.id = 4
      BY <2>1, <3>1, <3>2 DEF TypeOK
    <3>3. CASE r.m.id # 4
      BY <2>1, <3>3 DEF TypeOK
    <3> QED
      BY <3>2, <3>3
  <2> QED
    BY <1>1, <2>2, <2>3, <2>4 DEF AttentePartie, TypeOK
<1>2. CASE EnvoyerBateau(i)
  <2>1. PICK r \in Lectures(i) : Lire(i, r, IF r.m.id = 3 THEN "placer" ELSE "sortie")
    BY <1>2 DEF EnvoyerBateau
  <2>2. s2c' \in [Joueurs -> Seq(MsgServeur)] /\ cpc' \in [Joueurs -> Positions]
    <3>1. (IF r.m.id = 3 THEN "placer" ELSE "sortie") \in Positions
      BY DEF Positions
    <3> QED
      BY <2>1, <3>1, LireType
  <2> QED
    BY <1>2, <2>2 DEF EnvoyerBateau, TypeOK
<1>3. CASE BateauRep(i)
  <2>1. PICK r \in Lectures(i) :
          IF r.m.id = 0
          THEN Lire(i, r, "plateau") /\ cetat' = [cetat EXCEPT ![i] = "EN_JEU"]
          ELSE Lire(i, r, "placer") /\ UNCHANGED cetat
    BY <1>3 DEF BateauRep
  <2>2. s2c' \in [Joueurs -> Seq(MsgServeur)] /\ cpc' \in [Joueurs -> Positions]
    <3>1. {"plateau", "placer"} \subseteq Positions
      BY DEF Positions
    <3> QED
      BY <2>1, <3>1, LireType
  <2>3. cetat' \in [Joueurs -> {"EN_JEU", "DEAD"} \cup Fins]
    BY <2>1 DEF TypeOK
  <2> QED
    BY <1>3, <2>2, <2>3 DEF BateauRep, TypeOK
<1>4. CASE RecevoirPlateau(i)
  <2>1. PICK r \in Lectures(i) :
          /\ Lire(i, r, ApresPlateau(cetat[i]))
          /\ IF r.m.id = 2
             THEN /\ EnvoyerClient(i, Ok)
                  /\ \E reste \in Reste(r.m.infos) :
                       vue' = [vue EXCEPT ![i] = DecoderPlateau(r.m.infos, bateau[i], reste)]
             ELSE UNCHANGED <<c2s, vue>>
    BY <1>4 DEF RecevoirPlateau
  <2>2. s2c' \in [Joueurs -> Seq(MsgServeur)] /\ cpc' \in [Joueurs -> Positions]
    <3>1. ApresPlateau(cetat[i]) \in Positions
      BY DEF ApresPlateau, Positions
    <3> QED
      BY <2>1, <3>1, LireType
  <2>3. c2s' \in [Joueurs -> Seq(MsgClient)]
    BY <2>1, EnvoyerClientType, MsgClientSimples DEF TypeOK
  <2>4. vue' \in [Joueurs -> [Case -> Status]]
    <3>1. CASE r.m.id = 2
      <4>1. PICK reste \in Reste(r.m.infos) :
              vue' = [vue EXCEPT ![i] = DecoderPlateau(r.m.infos, bateau[i], reste)]
        BY <2>1, <3>1
      <4>2. reste \in Status
        BY <4>1 DEF Reste, Status
      <4> QED
        BY <4>1, <4>2, DecoderType DEF TypeOK
    <3>2. CASE r.m.id # 2
      BY <2>1, <3>2 DEF TypeOK
    <3> QED
      BY <3>1, <3>2
  <2> QED
    BY <1>4, <2>2, <2>3, <2>4 DEF RecevoirPlateau, TypeOK
<1>5. CASE JouerCoup(i)
  <2>1. PICK r \in Lectures(i) :
          IF r.m.id = 5 THEN Lire(i, r, "jouer") /\ EnvoyerClient(i, Ok)
                        ELSE Lire(i, r, "etat") /\ UNCHANGED c2s
    BY <1>5 DEF JouerCoup
  <2>2. s2c' \in [Joueurs -> Seq(MsgServeur)] /\ cpc' \in [Joueurs -> Positions]
    <3>1. {"jouer", "etat"} \subseteq Positions
      BY DEF Positions
    <3> QED
      BY <2>1, <3>1, LireType
  <2>3. c2s' \in [Joueurs -> Seq(MsgClient)]
    BY <2>1, EnvoyerClientType, MsgClientSimples DEF TypeOK
  <2> QED
    BY <1>5, <2>2, <2>3 DEF JouerCoup, TypeOK
<1>6. CASE FinTimer(i)
  <2>1. PICK c \in Tirs : EnvoyerClient(i, Coup(c))
    BY <1>6 DEF FinTimer
  <2>2. c2s' \in [Joueurs -> Seq(MsgClient)]
    <3>1. Coup(c) \in MsgClient
      BY DEF MsgClient
    <3> QED
      BY <2>1, <3>1, EnvoyerClientType
  <2> QED
    BY <1>6, <2>2 DEF FinTimer, TypeOK, Positions
<1>7. CASE CoupRep(i) \/ MortRep(i)
  <2>1. PICK r \in Lectures(i) : Lire(i, r, "etat")
    BY <1>7 DEF CoupRep, MortRep
  <2>2. s2c' \in [Joueurs -> Seq(MsgServeur)] /\ cpc' \in [Joueurs -> Positions]
    <3>1. "etat" \in Positions
      BY DEF Positions
    <3> QED
      BY <2>1, <3>1, LireType
  <2> QED
    BY <1>7, <2>2 DEF CoupRep, MortRep, TypeOK
<1>8. CASE GoMort(i)
  <2>1. PICK r \in Lectures(i) : Lire(i, r, "mort")
    BY <1>8 DEF GoMort
  <2>2. s2c' \in [Joueurs -> Seq(MsgServeur)] /\ cpc' \in [Joueurs -> Positions]
    <3>1. "mort" \in Positions
      BY DEF Positions
    <3> QED
      BY <2>1, <3>1, LireType
  <2>3. c2s' \in [Joueurs -> Seq(MsgClient)]
    BY <1>8, EnvoyerClientType, MsgClientSimples DEF GoMort
  <2> QED
    BY <1>8, <2>2, <2>3 DEF GoMort, TypeOK
<1>9. CASE EnvoyerMort(i)
  <2>1. c2s' \in [Joueurs -> Seq(MsgClient)]
    BY <1>9, EnvoyerClientType, MsgClientSimples DEF EnvoyerMort
  <2> QED
    BY <1>9, <2>1 DEF EnvoyerMort, TypeOK, Positions
<1>10. CASE RecevoirEtat(i)
  <2>1. PICK r \in Lectures(i) :
          LET e == EtatApres(cetat[i], r.m.id)
          IN  /\ Lire(i, r, IF e \in {"FIN_WIN", "FIN_LOSE"} THEN "fin" ELSE "plateau")
              /\ cetat' = [cetat EXCEPT ![i] = e]
              /\ IF r.m.id \in 7 .. 10 THEN EnvoyerClient(i, Ok) ELSE UNCHANGED c2s
    BY <1>10 DEF RecevoirEtat
  <2> DEFINE e == EtatApres(cetat[i], r.m.id)
  <2>2. e \in {"EN_JEU", "DEAD"} \cup Fins
    BY DEF EtatApres, Fins, TypeOK
  <2>3. s2c' \in [Joueurs -> Seq(MsgServeur)] /\ cpc' \in [Joueurs -> Positions]
    <3>1. (IF e \in {"FIN_WIN", "FIN_LOSE"} THEN "fin" ELSE "plateau") \in Positions
      BY DEF Positions
    <3> QED
      BY <2>1, <3>1, LireType
  <2>4. cetat' \in [Joueurs -> {"EN_JEU", "DEAD"} \cup Fins]
    BY <2>1, <2>2 DEF TypeOK
  <2>5. c2s' \in [Joueurs -> Seq(MsgClient)]
    BY <2>1, EnvoyerClientType, MsgClientSimples DEF TypeOK
  <2> QED
    BY <1>10, <2>3, <2>4, <2>5 DEF RecevoirEtat, TypeOK
<1>11. CASE MenuPlacerBateau(i)
  <2>1. PICK p \in Placements :
          /\ bateau' = [bateau EXCEPT ![i] = [j \in Segment |-> Position(p[1], p[2], p[3], j)]]
          /\ EnvoyerClient(i, Boat(p))
    BY <1>11 DEF MenuPlacerBateau
  <2>2. bateau' \in [Joueurs -> [Segment -> Case]]
    BY <2>1, PlacementsAssumption DEF TypeOK
  <2>3. c2s' \in [Joueurs -> Seq(MsgClient)]
    <3>1. Boat(p) \in MsgClient
      BY DEF MsgClient
    <3> QED
      BY <2>1, <3>1, EnvoyerClientType
  <2> QED
    BY <1>11, <2>2, <2>3 DEF MenuPlacerBateau, TypeOK, Positions
<1>12. ASSUME Fermer(i)
       PROVE  /\ cpc' \in [Joueurs -> Positions]
              /\ s2c' \in [Joueurs -> Seq(MsgServeur)]
              /\ conn' \in [Joueurs -> {"ouverte", "fermee", "reset"}]
  <2>1. <<>> \in Seq(MsgServeur)
    BY EmptySeq
  <2> QED
    BY <1>12, <2>1 DEF Fermer, TypeOK, Positions
<1>13. CASE Quitter(i)
  BY <1>12, <1>13 DEF Quitter, TypeOK
<1>14. CASE Acceptation(i)
  <2>1. PICK r \in Lectures(i) : Lire(i, r, IF r.m.id = 0 THEN "infos" ELSE "sortie")
    BY <1>14 DEF Acceptation
  <2>2. s2c' \in [Joueurs -> Seq(MsgServeur)] /\ cpc' \in [Joueurs -> Positions]
    <3>1. (IF r.m.id = 0 THEN "infos" ELSE "sortie") \in Positions
      BY DEF Positions
    <3> QED
      BY <2>1, <3>1, LireType
  <2> QED
    BY <1>14, <2>2 DEF Acceptation, TypeOK
<1>15. CASE Panne(i)
  <2>1. pannes' \in 0 .. Pannes
    BY <1>15, PannesAssumption DEF Panne, TypeOK
  <2> QED
    BY <1>12, <1>15, <2>1 DEF Panne, TypeOK
<1> QED
  BY <1>1, <1>2, <1>3, <1>4, <1>5, <1>6, <1>7, <1>8, <1>9, <1>10, <1>11, <1>13,
     <1>14, <1>15
  DEF Client, ClientAuto

\* A client does not touch the server.
LEMMA ClientServeur ==
  ASSUME NEW i \in Joueurs, Client(i)
  PROVE  UNCHANGED <<serveur, plateau>>
  BY DEF Client, ClientAuto, Acceptation, AttentePartie, EnvoyerBateau, MenuPlacerBateau, BateauRep,
         RecevoirPlateau, JouerCoup, FinTimer, CoupRep, GoMort, EnvoyerMort, MortRep,
         RecevoirEtat, Quitter, Panne

\* A step of a client.
LEMMA ClientStep == ASSUME Inv, NEW i \in Joueurs, Client(i) PROVE Inv'
<1>1. TypeOK'
  BY ClientType DEF Inv
<1>2. UNCHANGED <<phase, nbRecu, nbBateau, plateau>>
  BY ClientServeur DEF serveur, plateau
<1>3. Place'
  BY <1>2 DEF Inv, Place
<1> QED
  BY <1>1, <1>3 DEF Inv

----------------------------------------------------------------------------
(***************************************************************************)
(* The theorems.                                                           *)
(***************************************************************************)

\* The server enters the game with a board and a list that were never written.
LEMMA InvInit == Init => Inv
<1> SUFFICES ASSUME Init PROVE Inv
  OBVIOUS
<1>1. <<0, 0>> \in Case
  BY TailleAssumption DEF Case, Coord
<1>2. <<>> \in Seq(MsgServeur) /\ <<>> \in Seq(MsgClient)
  BY EmptySeq
<1>3. /\ cell \in [Case -> Contenu]
      /\ bateaux \in [0 .. MAX_BATEAUX - 1 -> Bateau]
      /\ nbBateau \in Int
  BY MemoireAssumption DEF Init
<1>4. s2c \in [Joueurs -> Seq(MsgServeur)] /\ cpc \in [Joueurs -> Positions]
  <2>1. <<Ok>> \in Seq(MsgServeur)
    BY <1>2 DEF Ok, Req, MsgServeur
  <2> QED
    BY <1>2, <2>1 DEF Init, Positions
<1>5. TypeOK
  BY <1>1, <1>2, <1>3, <1>4, ZeroJoueur, JoueurAssumption, PannesAssumption
  DEF Init, TypeOK, Phases, Positions, Status
<1> QED
  BY <1>5 DEF Init, Inv, Place

\* Every step preserves the invariant.
LEMMA InvStep == Inv /\ [Next]_vars => Inv'
<1> SUFFICES ASSUME Inv, [Next]_vars PROVE Inv'
  OBVIOUS
<1>1. CASE Lancer
  <2>1. TypeOK'
    BY <1>1 DEF Lancer, Inv, TypeOK, Perdu, Phases, plateau, clients, reseau
  <2>2. Place'
    BY <1>1 DEF Lancer, Place
  <2> QED
    BY <2>1, <2>2 DEF Inv
<1>2. CASE Termine \/ UNCHANGED vars
  BY <1>2 DEF Termine, vars, Inv, TypeOK, Perdu, Place
<1> QED
  BY <1>1, <1>2, ServeurStep, RecevoirFantomeStep, ClientStep DEF Next

\* The types of the specification: every variable keeps its own, whatever the
\* memory held before, whoever dies, whatever the reads merge.  (Of the sizes
\* of the arrays it says nothing; MemoireTenue does.)
THEOREM TypeCorrect == Spec => []TypeOK
<1>1. Inv => TypeOK
  BY DEF Inv
<1> QED
  BY <1>1, InvInit, InvStep, PTL DEF Spec

\* The cells one step may change, once the boats are placed: the target of a
\* shot.
LEMMA CaseTiree ==
  ASSUME Inv, [Next]_vars, NEW c \in Case, phase \notin AvantJeu
  PROVE  cell'[c] \in {cell[c], Touche(cell[c])}
<1>1. CASE RecevoirTir
  <2>1. PICK r \in Lecture(c2s[idx], conn[idx], Residus) :
          IF EstTir(r.m) THEN Tirer(<<r.m.infos[2], r.m.infos[1]>>)
                         ELSE UNCHANGED <<cell, bateaux>>
    BY <1>1 DEF RecevoirTir
  <2>2. CASE EstTir(r.m)
    <3>1. cell' = [cell EXCEPT ![<<r.m.infos[2], r.m.infos[1]>>] = Touche(@)]
      BY <2>1, <2>2 DEF Tirer
    <3>2. cell \in [Case -> Contenu] /\ <<r.m.infos[2], r.m.infos[1]>> \in Case
      BY <2>2 DEF Inv, TypeOK, EstTir
    <3> QED
      BY <3>1, <3>2
  <2> QED
    BY <2>1, <2>2
<1>2. CASE Serveur /\ ~RecevoirTir
  BY <1>2 DEF Serveur, EnvoyerInfos, InfosAck, DemanderBateaux, RecevoirBateau,
     EnvoyerPlateau, PlateauAck, EnvoyerGo, GoAck, VerifierFinPartie, EnvoyerEtat, EtatAck,
     EcritureFatale, EnvoyerPuis, RecevoirAck, plateau, AvantJeu
<1>3. CASE RecevoirFantome \/ Lancer \/ Termine \/ UNCHANGED vars
  BY <1>3 DEF RecevoirFantome, Lancer, Termine, vars, plateau, AvantJeu
<1>4. CASE \E i \in Joueurs : Client(i)
  BY <1>4, ClientServeur DEF plateau
<1> QED
  BY <1>1, <1>2, <1>3, <1>4 DEF Next

\* recevoir_tir never takes back a shot: from the first round on, a cell hit
\* stays hit and a miss stays a miss, whichever player fires at it again.
THEOREM TirsIrreversiblesToujours == Spec => TirsIrreversibles
<1>1. Inv /\ [Next]_vars =>
        [\A c \in Case : phase \notin AvantJeu
            /\ cell[c] \in {"MISSED_SHOT", "HIT_SHOT"} => cell'[c] = cell[c]]_vars
  <2> SUFFICES ASSUME Inv, [Next]_vars, NEW c \in Case, phase \notin AvantJeu,
                      cell[c] \in {"MISSED_SHOT", "HIT_SHOT"}
               PROVE  cell'[c] = cell[c]
    OBVIOUS
  <2>1. Touche(cell[c]) = cell[c]
    BY DEF Touche
  <2> QED
    BY <2>1, CaseTiree
<1> QED
  BY <1>1, InvInit, InvStep, PTL DEF Spec, TirsIrreversibles
=============================================================================
