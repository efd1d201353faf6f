----------------------------- MODULE TirProofs -----------------------------
(***************************************************************************)
(* Proofs about the screens of a player, for every board and boat length   *)
(* that the parameter menu allows (TailleAssumption): the placement of its *)
(* boat, and the shots of the rounds, for any time to play of five seconds *)
(* or more and a clock of any grain.                                       *)
(***************************************************************************)
EXTENDS Tir, TLAPS

----------------------------------------------------------------------------
(***************************************************************************)
(* The placement screens (module Placement).                               *)
(***************************************************************************)

\* One turn is enough: the direction that Retourner returns keeps the whole
\* boat on the board, because a boat fits twice in a line.
LEMMA RetournerDansPlateau ==
  ASSUME NEW x \in Coord, NEW y \in Coord, NEW d \in Direction
  PROVE  /\ Retourner(x, y, d) \in Direction
         /\ \A i \in Segment : Position(x, y, Retourner(x, y, d), i) \in Case
<1> USE TailleAssumption DEF Coord, Case, Segment, Position, Retourner, Direction
<1>1. CASE d = "h"
  BY <1>1
<1>2. CASE d = "b"
  BY <1>2
<1>3. CASE d = "g"
  BY <1>3
<1>4. CASE d = "d"
  BY <1>4
<1> QED
  BY <1>1, <1>2, <1>3, <1>4

\* The three properties together are inductive.
Inv == TypeOK /\ DansPlateau /\ EnvoiFidele

\* The cursor starts in a corner of the board, with nothing sent.
LEMMA InvInit == Init => Inv
<1> SUFFICES ASSUME Init PROVE Inv
  OBVIOUS
<1>1. 0 \in Coord
  BY TailleAssumption DEF Coord
<1>2. <<0, 0>> \in Case
  BY <1>1 DEF Case
<1> QED
  BY <1>1, <1>2 DEF Init, Inv, TypeOK, DansPlateau, EnvoiFidele, Direction

\* One key pressed on either screen preserves the invariant.
LEMMA InvStep == Inv /\ [Next]_vars => Inv'
<1> SUFFICES ASSUME Inv, [Next]_vars PROVE Inv'
  OBVIOUS
<1> USE DEF Inv
<1>1. CASE Deplacer
  <2>1. cursor_x' \in Coord /\ cursor_y' \in Coord
    BY <1>1, TailleAssumption DEF Deplacer, TypeOK, Coord
  <2> QED
    BY <1>1, <2>1 DEF Deplacer, TypeOK, DansPlateau, EnvoiFidele
<1>2. CASE Ouvrir
  <2>1. "d" \in Direction
    BY DEF Direction
  <2> QED
    BY <1>2, <2>1, RetournerDansPlateau DEF Ouvrir, TypeOK, DansPlateau, EnvoiFidele
<1>3. CASE Orienter
  BY <1>3, RetournerDansPlateau DEF Orienter, TypeOK, DansPlateau, EnvoiFidele
<1>4. CASE Annuler
  BY <1>4, RetournerDansPlateau DEF Annuler, TypeOK, DansPlateau, EnvoiFidele
<1>5. CASE Valider
  <2>1. \A j \in Segment : Position(cursor_x, cursor_y, direction, j) \in Case
    BY <1>5 DEF Valider, DansPlateau
  <2>2. bateau' \in [Segment -> Case]
    BY <1>5, <2>1 DEF Valider
  <2>3. envoye' \in Coord \X Coord \X Direction
    BY <1>5 DEF Valider, TypeOK
  <2>4. TypeOK'
    BY <1>5, <2>2, <2>3 DEF Valider, TypeOK
  <2>5. DansPlateau'
    BY <1>5, <2>1 DEF Valider, DansPlateau
  <2>6. EnvoiFidele'
    BY <1>5, <2>1 DEF Valider, EnvoiFidele
  <2> QED
    BY <2>4, <2>5, <2>6
<1>6. CASE Reponse
  BY <1>6, RetournerDansPlateau DEF Reponse, TypeOK, DansPlateau, EnvoiFidele
<1>7. CASE Fini \/ UNCHANGED vars
  BY <1>7 DEF Fini, vars, TypeOK, DansPlateau, EnvoiFidele
<1> QED
  BY <1>1, <1>2, <1>3, <1>4, <1>5, <1>6, <1>7 DEF Next

\* Cursor, boat and messages keep their types, whatever keys are typed.
THEOREM TypeCorrect == Spec => []TypeOK
<1>1. Inv => TypeOK
  BY DEF Inv
<1> QED
  BY <1>1, InvInit, InvStep, PTL DEF Spec

\* The boat on the screen always lies inside the board.
THEOREM DansPlateauToujours == Spec => []DansPlateau
<1>1. Inv => DansPlateau
  BY DEF Inv
<1> QED
  BY <1>1, InvInit, InvStep, PTL DEF Spec

\* Every boat sent lies inside the board, where the client draws it: the
\* assumption that module Partie makes of Placements.
THEOREM EnvoiFideleToujours == Spec => []EnvoiFidele
<1>1. Inv => EnvoiFidele
  BY DEF Inv
<1> QED
  BY <1>1, InvInit, InvStep, PTL DEF Spec

----------------------------------------------------------------------------
(***************************************************************************)
(* The rounds.                                                             *)
(***************************************************************************)

\* Ticks since the clock was last read, at most: the time is read on leaving
\* "touche" and "delai".
Age == CASE tour = "dessin" -> duree
         [] tour = "getch"  -> DESSIN + duree
         [] OTHER           -> DESSIN + TICS + duree

\* Age ticks ago the clock showed less than n seconds.
Borne(n) ==
  \/ seconde < n
  \/ seconde = n /\ fraction < Age
  \/ seconde = n + 1 /\ fraction + TICS < Age

\* While the player aims, the time was not up when the clock was last read; the
\* cursor is where the screen shows it, unless nothing was drawn yet, which
\* lasts for the first getch only.
EnJeu ==
  tour # "attente" =>
    /\ coup = <<>>
    /\ Borne(timeout)
    /\ montre = <<tir_x, tir_y>> \/ Borne(1)

\* The inductive invariant.
InvTir == TypeTir /\ EnJeu /\ DelaiTenu /\ TirMontre

\* Nothing has been aimed at when the program starts.
LEMMA InvTirInit == InitClient => InvTir
  BY TicsAssumption, TailleAssumption
  DEF InitClient, InitTir, InvTir, TypeTir, Tours, Limite, EnJeu, DelaiTenu, TirMontre, Coord

\* A reading of the clock is not older than two seconds, and the loop is left
\* at most one whole second after the one it may not reach.
LEMMA AgeBorne ==
  ASSUME InvTir, tour # "attente"
  PROVE  /\ Age \in 0 .. 2 * TICS
         /\ \A n \in Nat : Borne(n) => seconde <= n + 1
<1>1. /\ tour \in Tours /\ duree \in 0 .. Limite /\ seconde \in Nat
      /\ fraction \in 0 .. TICS - 1
  BY DEF InvTir, TypeTir
<1>2. CASE tour = "getch"
  BY <1>1, <1>2, TicsAssumption DEF Age, Limite, Borne
<1>3. CASE tour = "dessin"
  BY <1>1, <1>3, TicsAssumption DEF Age, Limite, Borne
<1>4. CASE tour \in {"touche", "delai"}
  BY <1>1, <1>4, TicsAssumption DEF Age, Limite, Borne
<1> QED
  BY <1>1, <1>2, <1>3, <1>4 DEF Tours

\* A tick makes the reading older and keeps what it says.
LEMMA TicBorne ==
  ASSUME InvTir, Tic, NEW n \in Nat, Borne(n)
  PROVE  Borne(n)'
<1>1. /\ tour # "attente" /\ duree < Limite /\ duree' = duree + 1 /\ tour' = tour
      /\ duree \in 0 .. Limite /\ seconde \in Nat /\ fraction \in 0 .. TICS - 1
      /\ TICS \in Nat \ {0} /\ DESSIN \in Nat \ {0} /\ 2 * DESSIN <= TICS
  BY TicsAssumption DEF Tic, InvTir, TypeTir
<1>2. Limite \in Nat
  BY <1>1 DEF Limite
<1>3. Age \in Nat /\ Age' = Age + 1 /\ Age + 1 <= 2 * TICS
  <2>1. CASE tour = "getch"
    BY <1>1, <2>1 DEF Age, Limite
  <2>2. CASE tour = "dessin"
    BY <1>1, <2>2 DEF Age, Limite
  <2>3. CASE tour \notin {"getch", "dessin"}
    BY <1>1, <2>3 DEF Age, Limite
  <2> QED
    BY <2>1, <2>2, <2>3
<1>4. CASE fraction = TICS - 1
  <2>1. seconde' = seconde + 1 /\ fraction' = 0
    BY <1>4 DEF Tic
  <2> QED
    BY <1>1, <1>3, <1>4, <2>1 DEF Borne
<1>5. CASE fraction # TICS - 1
  <2>1. seconde' = seconde /\ fraction' = fraction + 1
    BY <1>5 DEF Tic
  <2> QED
    BY <1>1, <1>3, <1>5, <2>1 DEF Borne
<1> QED
  BY <1>4, <1>5

\* So does a step round the loop that does not read the clock.
LEMMA PasserStep ==
  ASSUME InvTir,
         \/ Passer("dessin", "getch")
         \/ Passer("getch", "touche")
         \/ Passer("getch", "delai")
  PROVE  InvTir'
<1>1. /\ tour \in {"dessin", "getch"} /\ tour' \in Tours \ {"attente", "dessin"}
      /\ tour' = "getch" <=> tour = "dessin"
      /\ duree' = 0
      /\ UNCHANGED <<seconde, fraction, tir_x, tir_y, montre, coup>>
  BY DEF Passer, Tours
<1>2. /\ duree \in 0 .. Limite /\ seconde \in Nat /\ fraction \in 0 .. TICS - 1
      /\ TICS \in Nat \ {0} /\ DESSIN \in Nat \ {0}
  BY TicsAssumption DEF InvTir, TypeTir
<1>3. Age \in Nat /\ Age' \in Nat /\ Age <= Age'
  <2>1. CASE tour = "getch"
    BY <1>1, <1>2, <2>1 DEF Age, Limite, Tours
  <2>2. CASE tour = "dessin"
    BY <1>1, <1>2, <2>2 DEF Age, Limite
  <2> QED
    BY <1>1, <2>1, <2>2
<1>4. ASSUME NEW n \in Nat, Borne(n)
      PROVE  Borne(n)'
  BY <1>1, <1>2, <1>3, <1>4 DEF Borne
<1>5. EnJeu'
  <2>1. coup = <<>> /\ Borne(timeout) /\ (montre = <<tir_x, tir_y>> \/ Borne(1))
    BY <1>1 DEF InvTir, EnJeu
  <2> QED
    BY <1>1, <1>4, <2>1, TimeoutAssumption DEF EnJeu
<1>6. TypeTir'
  BY <1>1, <1>2 DEF InvTir, TypeTir, Limite
<1> QED
  BY <1>1, <1>5, <1>6 DEF InvTir, DelaiTenu, TirMontre

\* The clock is read, and the cursor of the next turn is on the board.
LEMMA SuiteStep ==
  ASSUME InvTir, tour # "attente", NEW x \in Coord, NEW y \in Coord, Suite(x, y)
  PROVE  InvTir'
<1>1. /\ seconde \in Nat /\ fraction \in 0 .. TICS - 1
      /\ seconde' = seconde /\ fraction' = fraction /\ duree' = 0
      /\ TICS \in Nat \ {0} /\ DESSIN \in Nat \ {0}
  BY TicsAssumption DEF InvTir, TypeTir, Suite
<1>2. seconde <= timeout + 1
  BY AgeBorne, TimeoutAssumption DEF InvTir, EnJeu
<1>3. CASE TempsEcoule
  <2>1. seconde >= timeout
    BY <1>1, <1>3, TimeoutAssumption DEF TempsEcoule
  <2>2. montre = <<tir_x, tir_y>>
    <3>1. ~Borne(1)
      BY <1>1, <2>1, AgeBorne, TimeoutAssumption
    <3> QED
      BY <3>1 DEF InvTir, EnJeu
  <2>3. /\ tour' = "attente" /\ coup' = <<tir_x, tir_y>>
        /\ UNCHANGED <<tir_x, tir_y, montre>>
    BY <1>3 DEF Suite
  <2>4. seconde \in {timeout, timeout + 1}
    BY <1>1, <1>2, <2>1, TimeoutAssumption
  <2>5. TypeTir'
    BY <1>1, <2>3 DEF InvTir, TypeTir, Tours, Limite
  <2> QED
    BY <1>1, <2>2, <2>3, <2>4, <2>5 DEF InvTir, EnJeu, DelaiTenu, TirMontre
<1>4. CASE ~TempsEcoule
  <2>1. seconde < timeout
    BY <1>1, <1>4, TimeoutAssumption DEF TempsEcoule
  <2>2. /\ tour' = "dessin" /\ tir_x' = x /\ tir_y' = y /\ montre' = <<x, y>>
        /\ coup' = coup
    BY <1>4 DEF Suite
  <2>3. coup = <<>>
    BY DEF InvTir, EnJeu
  <2>4. TypeTir'
    BY <1>1, <2>2, <2>3 DEF InvTir, TypeTir, Tours, Limite
  <2>5. Borne(timeout)'
    BY <1>1, <2>1 DEF Borne
  <2> QED
    BY <2>2, <2>3, <2>4, <2>5 DEF InvTir, EnJeu, DelaiTenu, TirMontre
<1> QED
  BY <1>3, <1>4

\* Every step preserves the invariant.
LEMMA InvTirStep == InvTir /\ [NextClient]_varsClient => InvTir'
<1> SUFFICES ASSUME InvTir, [NextClient]_varsClient PROVE InvTir'
  OBVIOUS
<1>1. CASE UNCHANGED varsTir
  BY <1>1 DEF varsTir, InvTir, TypeTir, Limite, EnJeu, Borne, Age, DelaiTenu, TirMontre
<1>2. CASE JouerCoup
  <2>1. 0 \in Coord
    BY TailleAssumption DEF Coord
  <2>2. /\ tour' = "dessin" /\ duree' = 0 /\ seconde' = 0 /\ fraction' \in 0 .. TICS - 1
        /\ tir_x' = 0 /\ tir_y' = 0 /\ montre' = <<>> /\ coup' = <<>>
    BY <1>2 DEF JouerCoup
  <2>3. TypeTir'
    BY <2>1, <2>2, TicsAssumption DEF TypeTir, Tours, Limite
  <2>4. Borne(timeout)' /\ Borne(1)'
    BY <2>2, TimeoutAssumption DEF Borne
  <2> QED
    BY <2>2, <2>3, <2>4 DEF InvTir, EnJeu, DelaiTenu, TirMontre
<1>3. CASE Tic
  <2>1. /\ tour # "attente" /\ duree < Limite /\ duree' = duree + 1
        /\ UNCHANGED <<tour, tir_x, tir_y, montre, coup>>
    BY <1>3 DEF Tic
  <2>2. /\ coup = <<>> /\ Borne(timeout)
        /\ montre = <<tir_x, tir_y>> \/ Borne(1)
    BY <2>1 DEF InvTir, EnJeu
  <2>3. Borne(timeout)' /\ (Borne(1) => Borne(1)')
    BY <1>3, <2>2, TicBorne, TimeoutAssumption
  <2>4. TypeTir'
    <3>1. seconde' \in Nat /\ fraction' \in 0 .. TICS - 1
      BY <1>3, TicsAssumption DEF Tic, InvTir, TypeTir
    <3>2. duree' \in 0 .. Limite' /\ Limite' = Limite
      BY <2>1, TicsAssumption DEF InvTir, TypeTir, Limite
    <3> QED
      BY <2>1, <3>1, <3>2 DEF InvTir, TypeTir
  <2> QED
    BY <2>1, <2>2, <2>3, <2>4 DEF InvTir, EnJeu, DelaiTenu, TirMontre
<1>4. CASE Getch \/ Taper \/ DelaiGetch
  BY <1>4, PasserStep DEF Getch, Taper, DelaiGetch
<1>5. CASE Tester
  BY <1>5, SuiteStep DEF Tester, Voisines, InvTir, TypeTir
<1> QED
  BY <1>1, <1>2, <1>3, <1>4, <1>5 DEF NextClient, NextTir, varsClient

\* Every variable of the shot has its type: the cursor and the shot stay on
\* the board.
THEOREM TypeTirToujours == SpecClient => []TypeTir
<1>1. InvTir => TypeTir
  BY DEF InvTir
<1> QED
  BY <1>1, InvTirInit, InvTirStep, PTL DEF SpecClient

\* jouer_coup sends the shot in the second in which the time is up or in the
\* one after it, whatever the player types, wherever in a second the clock was
\* first read and however the loop spends the time DESSIN allows it.
THEOREM DelaiTenuToujours == SpecClient => []DelaiTenu
<1>1. InvTir => DelaiTenu
  BY DEF InvTir
<1> QED
  BY <1>1, InvTirInit, InvTirStep, PTL DEF SpecClient

\* jouer_coup shoots at the cell it showed last under the cursor.
THEOREM TirMontreToujours == SpecClient => []TirMontre
<1>1. InvTir => TirMontre
  BY DEF InvTir
<1> QED
  BY <1>1, InvTirInit, InvTirStep, PTL DEF SpecClient
=============================================================================
