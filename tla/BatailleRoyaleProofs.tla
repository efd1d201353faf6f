------------------------ MODULE BatailleRoyaleProofs ------------------------
(***************************************************************************)
(* Proofs about the abstract game, for any set of players, finite or not,  *)
(* any board and any boats on it.                                          *)
(***************************************************************************)
EXTENDS BatailleRoyale, TLAPS

Statuts == {"EMPTY", "MISSED_SHOT", "HIT_SHOT", "BOAT"}
Etats   == {"EN_JEU", "DEAD"} \cup Fins

\* While the game lasts: a player that was told it is out is out; ends are
\* announced within one step only, in which all those who have been served
\* know their fate and the others do not know of an end.
EnCours ==
  /\ flotte \in [Joueurs -> SUBSET Case]
  /\ grille \in [Case -> Statuts]
  /\ etape \in {"placement", "tirs", "annonce"}
  /\ etape = "placement" => \A i \in Joueurs : annonce[i] = "EN_JEU"
  /\ \A i \in Joueurs : annonce[i] = "DEAD" => i \notin AFlot
  /\ etape # "annonce" => \A i \in Joueurs : annonce[i] \notin Fins
  /\ etape = "annonce" => /\ \A i \in restants : annonce[i] \notin Fins
                          /\ \A i \in Joueurs \ restants : annonce[i] = Sort(i)

\* The inductive invariant.  After the end only what the players know counts.
Inv ==
  /\ annonce \in [Joueurs -> Etats]
  /\ UnSeulVainqueur
  /\ ~Finie => EnCours

\* Who has survived alone has won, and nobody else.
LEMMA SortVainqueur ==
  ASSUME NEW i \in Joueurs, NEW j \in Joueurs, Sort(i) = "FIN_WIN", Sort(j) = "FIN_WIN"
  PROVE  i = j
<1>1. PICK k \in AFlot : AFlot = {k}
  BY DEF Sort
<1>2. i \in AFlot /\ j \in AFlot
  BY <1>1 DEF Sort
<1> QED
  BY <1>1, <1>2

\* If the fate of one player is an end, so is that of all.
LEMMA SortFin ==
  ASSUME NEW i \in Joueurs, NEW j \in Joueurs, Sort(i) \in Fins
  PROVE  Sort(j) \in Fins
<1>1. AFlot = {} \/ \E k \in AFlot : AFlot = {k}
  BY DEF Sort, Fins
<1> QED
  BY <1>1 DEF Sort, Fins

\* The fate of a player that is not afloat.
LEMMA SortCoule ==
  ASSUME NEW i, i \notin AFlot
  PROVE  Sort(i) \in {"DEAD", "FIN_LOSE"}
  BY DEF Sort

\* A fate is one of four.
LEMMA SortType == ASSUME NEW i PROVE Sort(i) \in Etats
  BY DEF Sort, Etats, Fins

\* A step after the end, or one that leaves everything alone.
LEMMA ApresStep == ASSUME Inv, Finie, UNCHANGED annonce PROVE Inv'
  BY DEF Inv, Finie, UnSeulVainqueur

\* Placing a boat.
LEMMA PlacerStep ==
  ASSUME Bateaux \subseteq SUBSET Case, Inv, ~Finie, NEW i \in Joueurs, Placer(i)
  PROVE  Inv'
<1>1. PICK b \in Bateaux :
        /\ flotte' = [flotte EXCEPT ![i] = b]
        /\ grille' = [c \in Case |-> IF c \in b THEN "BOAT" ELSE grille[c]]
  BY DEF Placer
<1>2. \A k \in Joueurs : annonce'[k] = "EN_JEU"
  BY DEF Inv, EnCours, Placer
<1>3. flotte' \in [Joueurs -> SUBSET Case] /\ grille' \in [Case -> Statuts]
  BY <1>1 DEF Inv, EnCours, Statuts
<1>4. etape' \in {"placement", "tirs"}
  BY DEF Placer, Servir
<1>5. EnCours'
  BY <1>2, <1>3, <1>4 DEF EnCours, Fins
<1> QED
  BY <1>2, <1>5 DEF Inv, UnSeulVainqueur, Placer

\* A shot: a boat that is sunk stays sunk.
LEMMA TirerStep ==
  ASSUME Inv, ~Finie, NEW i \in Joueurs, Tirer(i)
  PROVE  Inv'
<1>1. grille' \in [Case -> Statuts]
  BY DEF Inv, EnCours, Tirer, Statuts
<1>2. \A c \in Case : grille[c] = "HIT_SHOT" => grille'[c] = "HIT_SHOT"
  BY DEF Inv, EnCours, Tirer
<1>3. \A k \in Joueurs : k \notin AFlot => k \notin AFlot'
  BY <1>2 DEF Inv, EnCours, AFlot, Tirer
<1>4. /\ etape' \in {"tirs", "annonce"}
      /\ etape' = "annonce" => restants' = Joueurs
  BY DEF Tirer, Servir
<1>5. \A k \in Joueurs : annonce'[k] \notin Fins
  BY DEF Inv, EnCours, Tirer
<1>6. EnCours'
  <2>1. \A k \in Joueurs : annonce'[k] = "DEAD" => k \notin AFlot'
    BY <1>3 DEF Inv, EnCours, Tirer
  <2> QED
    BY <1>1, <1>4, <1>5, <2>1 DEF Inv, EnCours, Tirer
<1> QED
  BY <1>6 DEF Inv, UnSeulVainqueur, Tirer

\* A verdict.
LEMMA AnnoncerStep ==
  ASSUME Inv, ~Finie, NEW i \in Joueurs, Annoncer(i)
  PROVE  Inv'
<1>1. /\ annonce' = [annonce EXCEPT ![i] = Sort(i)]
      /\ annonce' \in [Joueurs -> Etats]
      /\ annonce'[i] = Sort(i)
  BY SortType DEF Inv, Annoncer
<1>2. AFlot' = AFlot /\ \A k : Sort(k)' = Sort(k)
  BY DEF Annoncer, AFlot, Sort
<1>3. /\ i \in restants
      /\ \A k \in restants : annonce[k] \notin Fins
      /\ \A k \in Joueurs \ restants : annonce[k] = Sort(k)
  BY DEF Inv, EnCours, Annoncer, Servir
<1>4. \A k \in Joueurs : annonce'[k] = "DEAD" => k \notin AFlot'
  <2>1. Sort(i) = "DEAD" => i \notin AFlot
    BY DEF Sort
  <2> QED
    BY <1>1, <1>2, <2>1 DEF Inv, EnCours
<1>5. CASE restants = {i}
  <2>1. \A k \in Joueurs : annonce'[k] = Sort(k)
    BY <1>1, <1>3, <1>5 DEF Inv
  <2>2. UnSeulVainqueur'
    BY <2>1, SortVainqueur DEF UnSeulVainqueur
  <2>3. ~Finie' => \A k \in Joueurs : annonce'[k] \notin Fins
    BY <2>1, SortFin DEF Finie
  <2>4. etape' = "tirs"
    BY <1>5 DEF Annoncer, Servir
  <2>5. ~Finie' => EnCours'
    BY <1>4, <2>3, <2>4 DEF Inv, EnCours, Annoncer
  <2> QED
    BY <1>1, <2>2, <2>5 DEF Inv
<1>6. CASE restants # {i}
  <2>1. etape' = "annonce" /\ restants' = restants \ {i}
    BY <1>6 DEF Annoncer, Servir
  <2>2. \A k \in restants' : annonce'[k] \notin Fins
    <3>1. SUFFICES ASSUME NEW k \in restants' PROVE annonce'[k] \notin Fins
      OBVIOUS
    <3>2. k # i /\ annonce[k] \notin Fins
      BY <1>3, <2>1
    <3> QED
      BY <1>1, <3>2 DEF Inv
  <2>3. \A k \in Joueurs \ restants' : annonce'[k] = Sort(k)
    BY <1>1, <1>3, <2>1 DEF Inv
  <2>4. EnCours'
    BY <1>2, <1>4, <2>1, <2>2, <2>3 DEF Inv, EnCours, Annoncer
  <2>5. UnSeulVainqueur'
    <3>1. \A k \in Joueurs : annonce'[k] = "FIN_WIN" => Sort(k) = "FIN_WIN"
      BY <2>2, <2>3 DEF Fins
    <3> QED
      BY <3>1, SortVainqueur DEF UnSeulVainqueur
  <2> QED
    BY <1>1, <2>4, <2>5 DEF Inv
<1> QED
  BY <1>5, <1>6

\* The game begins without a boat on the board.
LEMMA InvInit == Init => Inv
  BY DEF Init, Inv, EnCours, UnSeulVainqueur, Fins, Etats, Statuts

\* Every step preserves the invariant.
LEMMA InvStep ==
  ASSUME Bateaux \subseteq SUBSET Case
  PROVE  Inv /\ [Next]_vars => Inv'
<1> SUFFICES ASSUME Inv, [Next]_vars PROVE Inv'
  OBVIOUS
<1>1. CASE Finie
  BY <1>1, ApresStep DEF Next, Apres, Placer, Tirer, Annoncer, vars
<1>2. CASE UNCHANGED vars
  BY <1>2 DEF vars, Inv, EnCours, UnSeulVainqueur, Finie, AFlot, Sort
<1>3. CASE ~Finie /\ Next
  BY <1>3, PlacerStep, TirerStep, AnnoncerStep DEF Next, Apres
<1> QED
  BY <1>1, <1>2, <1>3

\* One step takes nothing back of what a player was told.
LEMMA SansRetourStep ==
  ASSUME Inv, Next, NEW i \in Joueurs
  PROVE  /\ annonce[i] = "DEAD" => annonce'[i] \in {"DEAD", "FIN_LOSE"}
         /\ annonce[i] \in Fins => annonce'[i] = annonce[i]
<1>1. CASE UNCHANGED annonce
  BY <1>1
<1>2. CASE \E k \in Joueurs : Annoncer(k)
  <2>1. PICK k \in Joueurs : Annoncer(k)
    BY <1>2
  <2>2. annonce'[i] = IF i = k THEN Sort(k) ELSE annonce[i]
    BY <2>1 DEF Inv, Annoncer
  <2>3. annonce[k] \notin Fins /\ (annonce[k] = "DEAD" => k \notin AFlot)
    BY <2>1 DEF Inv, EnCours, Annoncer, Servir
  <2> QED
    BY <2>2, <2>3, SortCoule
<1> QED
  BY <1>1, <1>2 DEF Next, Placer, Tirer, Apres

\* A battle royale has at most one winner, whatever boats overlap and in
\* whatever order shots and verdicts are given in a round.
THEOREM UnSeulVainqueurToujours ==
  ASSUME Bateaux \subseteq SUBSET Case
  PROVE  Spec => []UnSeulVainqueur
<1>1. Inv => UnSeulVainqueur
  BY DEF Inv
<1> QED
  BY <1>1, InvInit, InvStep, PTL DEF Spec

\* What a player was told holds: a sunk player neither fights again nor wins,
\* and nobody is told two ends.
THEOREM SansRetourToujours ==
  ASSUME Bateaux \subseteq SUBSET Case
  PROVE  Spec => SansRetour
<1>1. Inv /\ [Next]_vars =>
        [\A i \in Joueurs :
           /\ annonce[i] = "DEAD" => annonce'[i] \in {"DEAD", "FIN_LOSE"}
           /\ annonce[i] \in Fins => annonce'[i] = annonce[i]]_vars
  BY SansRetourStep
<1> QED
  BY <1>1, InvInit, InvStep, PTL DEF Spec, SansRetour
=============================================================================
