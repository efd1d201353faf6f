-------------------------- MODULE ProgrammeProofs --------------------------
(***************************************************************************)
(* Proofs about the life of the server's process, for every value of the   *)
(* limits and any number of games: first the parameter menu by itself,     *)
(* then the process around it.                                             *)
(***************************************************************************)
EXTENDS Programme, TLAPS

----------------------------------------------------------------------------
(***************************************************************************)
(* The parameter menu.                                                     *)
(***************************************************************************)

\* The fields keep their ranges and the boats fit: together inductive, since
\* the length of the boats is halved only of boards of four cells or more.
Inv == TypeOK /\ BateauTient

\* The parameters of init_game satisfy the invariant of the menu.
LEMMA InitMenu == Init => Inv
  BY LimitesAssumption DEF Init, InitGame, Inv, TypeOK, BateauTient

\* One key pressed in the menu preserves the ranges and the relation.
LEMMA InvStep == Inv /\ [Next]_vars => Inv'
<1> SUFFICES ASSUME Inv, [Next]_vars PROVE Inv'
  OBVIOUS
<1> USE LimitesAssumption DEF Inv, TypeOK, BateauTient
<1>1. CASE Naviguer
  BY <1>1 DEF Naviguer
<1>2. CASE ReglerJoueurs
  BY <1>2 DEF ReglerJoueurs
<1>3. CASE ReglerPlateau
  <2>1. taillePlateau' \in 4 .. MAX_BOARD_SIZE
    BY <1>3 DEF ReglerPlateau
  <2>2. tailleBateau' = BateauAjuste(taillePlateau')
    BY <1>3 DEF ReglerPlateau
  <2>3. tailleBateau' \in 2 .. MAX_BOAT_SIZE /\ taillePlateau' >= 2 * tailleBateau'
    <3> DEFINE t == taillePlateau'
    <3>1. CASE t < 2 * tailleBateau
      <4>1. tailleBateau' = t \div 2
        BY <2>2, <3>1 DEF BateauAjuste
      <4>2. t \in Nat /\ t >= 4
        BY <2>1
      <4> HIDE DEF t
      <4>3. /\ t \div 2 \in Nat /\ t \div 2 >= 2 /\ t >= 2 * (t \div 2)
        BY <4>2
      <4>4. t \div 2 <= MAX_BOAT_SIZE
        BY <3>1, <4>2, <4>3
      <4> QED
        BY <4>1, <4>3, <4>4 DEF t
    <3>2. CASE ~(t < 2 * tailleBateau)
      BY <2>1, <2>2, <3>2 DEF BateauAjuste
    <3> QED
      BY <3>1, <3>2
  <2> QED
    BY <1>3, <2>1, <2>3 DEF ReglerPlateau
<1>4. CASE ReglerBateau
  BY <1>4 DEF ReglerBateau
<1>5. CASE ReglerTimeout
  BY <1>5 DEF ReglerTimeout
<1>6. CASE ReglerAffichage
  BY <1>6 DEF ReglerAffichage
<1>7. CASE UNCHANGED vars
  BY <1>7 DEF vars
<1> QED
  BY <1>1, <1>2, <1>3, <1>4, <1>5, <1>6, <1>7 DEF Next

\* Whatever keys are typed, the sizes stay in the ranges of the arrays.
THEOREM TypeCorrect == Spec => []TypeOK
<1>1. Inv => TypeOK
  BY DEF Inv
<1> QED
  BY <1>1, InitMenu, InvStep, PTL DEF Spec

\* Whatever keys are typed, a boat fits twice in a line of the board: the
\* relation that menu_parametrage_game restores after each change of a size.
THEOREM BateauTientToujours == Spec => []BateauTient
<1>1. Inv => BateauTient
  BY DEF Inv
<1> QED
  BY <1>1, InitMenu, InvStep, PTL DEF Spec

----------------------------------------------------------------------------
(***************************************************************************)
(* The process.                                                            *)
(***************************************************************************)

\* A waiting room is only opened when no accepted socket holds the port, so that
\* those of two games never hold it together.
SalleNeuve == ecran \in {"adresse", "attente"} => tenues = 0

\* The inductive invariant.
InvProgramme == Inv /\ TypeProgramme /\ SalleNeuve

\* The home screen, before any game.
LEMMA InvProgrammeInit == InitProgramme => InvProgramme
<1> SUFFICES ASSUME InitProgramme PROVE InvProgramme
  OBVIOUS
<1>1. Inv
  BY InitMenu DEF InitProgramme
<1>2. tenues \in 0 .. MAX_PLAYER /\ ouvertes \in 0 .. MAX_FD - 1 /\ tenues <= ouvertes
  BY LimitesAssumption, MaxFdAssumption DEF InitProgramme
<1> QED
  BY <1>1, <1>2 DEF InitProgramme, InvProgramme, Inv, TypeProgramme, SalleNeuve

\* What leaves the parameters alone leaves their invariant alone.
LEMMA MenuIntact == Inv /\ UNCHANGED menu => Inv'
  BY DEF menu, Inv, TypeOK, BateauTient

\* Every step of the process preserves the invariant.
LEMMA InvProgrammeStep == InvProgramme /\ [NextProgramme]_varsProgramme => InvProgramme'
<1> SUFFICES ASSUME InvProgramme, [NextProgramme]_varsProgramme PROVE InvProgramme'
  OBVIOUS
<1> USE DEF InvProgramme
<1>1. CASE AccueilParametrer
  <2>1. Inv'
    BY <1>1, LimitesAssumption DEF AccueilParametrer, InitGame, Inv, TypeOK, BateauTient
  <2> QED
    BY <1>1, <2>1 DEF AccueilParametrer, sockets, Inv, TypeProgramme, SalleNeuve
<1>2. CASE Parametrer
  <2>1. Inv'
    BY <1>2, InvStep DEF Parametrer
  <2> QED
    BY <1>2, <2>1 DEF Parametrer, sockets, Inv, TypeProgramme, SalleNeuve
<1>3. CASE LancementPartie
  <2>1. Inv'
    BY <1>3, MenuIntact DEF LancementPartie
  <2>2. /\ tenues = 0 /\ ouvertes \in 0 .. MAX_FD - 1
        /\ maxJoueur \in 2 .. MAX_PLAYER
    BY <1>3 DEF LancementPartie, SalleNeuve, TypeProgramme, TypeOK
  <2>3. PICK prises \in 0 .. MAX_PLAYER :
          /\ prises <= MAX_FD - 1 - ouvertes
          /\ tenues' = tenues + prises /\ ouvertes' = ouvertes + prises
    <3> DEFINE libres == MAX_FD - 1 - ouvertes
               Prises(n) == IF Acceptees(n) <= libres THEN Acceptees(n) ELSE libres
    <3>1. PICK n \in 2 .. maxJoueur :
            tenues' = tenues + Prises(n) /\ ouvertes' = ouvertes + Prises(n)
      BY <1>3 DEF LancementPartie
    <3>2. Acceptees(n) \in 0 .. MAX_PLAYER
      BY <2>2, <3>1, LimitesAssumption DEF Acceptees
    <3>3. Prises(n) \in 0 .. MAX_PLAYER /\ Prises(n) <= libres
      BY <2>2, <3>2, LimitesAssumption, MaxFdAssumption
    <3> QED
      BY <3>1, <3>3
  <2>4. /\ tenues' \in 0 .. MAX_PLAYER /\ ouvertes' \in 0 .. MAX_FD - 1
        /\ tenues' <= ouvertes'
    BY <2>2, <2>3, LimitesAssumption, MaxFdAssumption
  <2> QED
    BY <1>3, <2>1, <2>4 DEF LancementPartie, Inv, TypeProgramme, SalleNeuve
<1>4. CASE Reinitialisation
  <2>1. Inv'
    BY <1>4, MenuIntact DEF Reinitialisation
  <2>2. tenues' \in 0 .. MAX_PLAYER /\ ouvertes' = ouvertes /\ tenues' <= ouvertes'
    BY <1>4, LimitesAssumption, MaxFdAssumption DEF Reinitialisation, TypeProgramme
  <2> QED
    BY <1>4, <2>1, <2>2 DEF Reinitialisation, Inv, TypeProgramme, SalleNeuve
<1>5. CASE AccueilFleche \/ AccueilQuitter \/ ParametrageQuitter \/ ParametrageEntree
             \/ AdresseVue \/ Retour \/ Tue
  <2>1. UNCHANGED menu /\ UNCHANGED sockets
    BY <1>5 DEF AccueilFleche, AccueilQuitter, ParametrageQuitter, ParametrageEntree,
                AdresseVue, Retour, Tue
  <2>2. Inv'
    BY <2>1, MenuIntact
  <2>3. choix' \in {0, 1}
    BY <1>5 DEF AccueilFleche, AccueilQuitter, ParametrageQuitter, ParametrageEntree,
                AdresseVue, Retour, Tue, TypeProgramme
  <2>4. /\ ecran' \in {"accueil", "parametrage", "adresse", "attente", "partie", "fin"}
        /\ SalleNeuve'
    BY <1>5, <2>1 DEF AccueilFleche, AccueilQuitter, ParametrageQuitter, ParametrageEntree,
                      AdresseVue, Retour, Tue, sockets, TypeProgramme, SalleNeuve
  <2> QED
    BY <2>1, <2>2, <2>3, <2>4 DEF sockets, Inv, TypeProgramme
<1>6. CASE Fin \/ UNCHANGED varsProgramme
  <2>1. UNCHANGED <<menu, ecran, choix, sockets>>
    BY <1>6 DEF Fin, varsProgramme
  <2> QED
    BY <2>1, MenuIntact DEF sockets, Inv, TypeProgramme, SalleNeuve
<1> QED
  BY <1>1, <1>2, <1>3, <1>4, <1>5, <1>6 DEF NextProgramme

\* Through any number of games the sockets that hold the port are at most the
\* players of one game, however many descriptors those of earlier games still
\* take, and the sizes handed to each game are within the arrays.
THEOREM TypeProgrammeToujours == SpecProgramme => []TypeProgramme
<1>1. InvProgramme => TypeProgramme
  BY DEF InvProgramme
<1> QED
  BY <1>1, InvProgrammeInit, InvProgrammeStep, PTL DEF SpecProgramme

\* Every game of the process, not only the first, is set up with a board in
\* which a boat fits twice in a line.
THEOREM BateauTientPartout == SpecProgramme => []BateauTient
<1>1. InvProgramme => BateauTient
  BY DEF InvProgramme, Inv
<1> QED
  BY <1>1, InvProgrammeInit, InvProgrammeStep, PTL DEF SpecProgramme
=============================================================================
