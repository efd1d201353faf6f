-------------------------------- MODULE Tir --------------------------------
(***************************************************************************)
(* The keyboard of a client's player: the placement of the boat, then one  *)
(* jouer_coup per round.  In jouer_coup the player moves a cursor for      *)
(* timeout seconds and the shot leaves by itself.  The loop looks at the   *)
(* clock only when getch returns, after a key or after one second, and     *)
(* time(NULL) counts whole seconds: here seconde counts them since         *)
(* start_time, fraction the ticks within one.  Time also passes between    *)
(* the return of getch and the reading of the clock, and while the board   *)
(* is drawn, before getch is called again: at most DESSIN ticks each.      *)
(*                                                                         *)
(* What this screen sends is what module Partie calls Tirs; that it sends  *)
(* whatever the player does is its fairness of FinTimer.                   *)
(***************************************************************************)
EXTENDS Placement

CONSTANTS
  timeout,  \* game.timeout, seconds
  TICS,     \* ticks per second of the model's clock
  DESSIN    \* ticks the loop may take on either side of getch

\* The menu lets timeout be 5 or more.
ASSUME TimeoutAssumption == timeout \in Nat /\ timeout >= 5

\* The loop is not slower than half a second on either side of getch.
ASSUME TicsAssumption ==
  /\ TICS \in Nat \ {0} /\ DESSIN \in Nat \ {0}
  /\ 2 * DESSIN <= TICS

VARIABLES
  tour,               \* where the player's program is in a round, see Tours
  seconde, fraction,  \* the clock
  duree,              \* ticks since it is there
  tir_x, tir_y,       \* cursor_x and cursor_y of jouer_coup
  montre,             \* the cell last drawn under the cursor, <<>> before
  coup                \* the last shot sent, <<>> before

varsTir    == <<tour, seconde, fraction, duree, tir_x, tir_y, montre, coup>>
varsClient == <<vars, varsTir>>

\* "attente" of the next "go"; "dessin" from the test of the time (at first,
\* from start_time) to the next getch; in "getch"; "touche" and "delai" from
\* its return, with a key or with ERR, to the next reading of the clock.
Tours == {"attente", "dessin", "getch", "touche", "delai"}

----------------------------------------------------------------------------

\* "go" has arrived: start_time is read, anywhere in a second.
JouerCoup ==
  /\ ecran = "fini" /\ tour = "attente"
  /\ tour' = "dessin" /\ duree' = 0
  /\ seconde' = 0 /\ fraction' \in 0 .. TICS - 1
  /\ tir_x' = 0 /\ tir_y' = 0
  /\ montre' = <<>> /\ coup' = <<>>

\* The ticks the program may stay where it is.
Limite == IF tour = "getch" THEN TICS ELSE DESSIN

\* The clock.
Tic ==
  /\ tour # "attente" /\ duree < Limite
  /\ duree' = duree + 1
  /\ IF fraction = TICS - 1 THEN seconde' = seconde + 1 /\ fraction' = 0
                            ELSE fraction' = fraction + 1 /\ UNCHANGED seconde
  /\ UNCHANGED <<tour, tir_x, tir_y, montre, coup>>

\* The program goes from one place of the loop to the next.
Passer(de, vers) ==
  /\ tour = de
  /\ tour' = vers /\ duree' = 0
  /\ UNCHANGED <<seconde, fraction, tir_x, tir_y, montre, coup>>

\* getch is called.
Getch == Passer("dessin", "getch")

\* getch returns a key.
Taper == Passer("getch", "touche")

\* Mutant: getch has no time-out (timeout(-1)).
DelaiGetchOublie == FALSE /\ UNCHANGED varsTir

\* getch returns ERR after its second.
DelaiGetch == duree = TICS /\ Passer("getch", "delai")

\* Mutant: the loop goes on for the second in which the time is up.
TempsEcouleTard == timeout - seconde < 0

\* time_remaining <= 0
TempsEcoule == timeout - seconde <= 0

\* Mutant: the key is obeyed before the clock is looked at.
SuiteToucheDabord(x, y) ==
  /\ tir_x' = x /\ tir_y' = y /\ duree' = 0
  /\ IF TempsEcoule
     THEN tour' = "attente" /\ coup' = <<x, y>> /\ UNCHANGED montre
     ELSE tour' = "dessin" /\ montre' = <<x, y>> /\ UNCHANGED coup
  /\ UNCHANGED <<seconde, fraction>>

\* The clock is read after a getch whose key moves the cursor to x, y: the
\* time is up and the shot leaves from where the cursor was, or the cursor
\* moves and the board is drawn.
Suite(x, y) ==
  /\ duree' = 0
  /\ IF TempsEcoule
     THEN /\ tour' = "attente"
          /\ coup' = <<tir_x, tir_y>>
          /\ UNCHANGED <<tir_x, tir_y, montre>>
     ELSE /\ tour' = "dessin"
          /\ tir_x' = x /\ tir_y' = y
          /\ montre' = <<x, y>>
          /\ UNCHANGED coup
  /\ UNCHANGED <<seconde, fraction>>

\* Mutant: the cursor may stand one column beyond the board.
VoisinesTrop ==
  {v \in (0 .. taillePlateau) \X Coord :
     <<v[1] - tir_x, v[2] - tir_y>> \in {<<0, 0>>, <<0, -1>>, <<0, 1>>, <<-1, 0>>, <<1, 0>>}}

\* Where a key may move the cursor: an arrow by one, inside the board; any
\* other key leaves it where it is.
Voisines ==
  {v \in Coord \X Coord :
     <<v[1] - tir_x, v[2] - tir_y>> \in {<<0, 0>>, <<0, -1>>, <<0, 1>>, <<-1, 0>>, <<1, 0>>}}

\* The rest of the loop's body after a getch.
Tester ==
  \/ tour = "touche" /\ \E v \in Voisines : Suite(v[1], v[2])
  \/ tour = "delai" /\ Suite(tir_x, tir_y)

----------------------------------------------------------------------------

InitTir ==
  /\ tour = "attente"
  /\ seconde = 0 /\ fraction = 0 /\ duree = 0
  /\ tir_x = 0 /\ tir_y = 0
  /\ montre = <<>> /\ coup = <<>>

NextTir == JouerCoup \/ Tic \/ Getch \/ Taper \/ DelaiGetch \/ Tester

InitClient == Init /\ InitTir
NextClient == (Next /\ UNCHANGED varsTir) \/ (NextTir /\ UNCHANGED vars)
SpecClient == InitClient /\ [][NextClient]_varsClient

\* The clock goes on, the program goes round its loop and getch returns at its
\* second; nothing is assumed of the player, who may also type without a pause.
FairClient == SpecClient /\ WF_varsClient(Tic /\ UNCHANGED vars)
                         /\ WF_varsClient(Getch /\ UNCHANGED vars)
                         /\ WF_varsClient(DelaiGetch /\ UNCHANGED vars)
                         /\ WF_varsClient(Tester /\ UNCHANGED vars)

----------------------------------------------------------------------------

\* The types of the variables: the cursor and the shot stay on the board.
TypeTir ==
  /\ tour \in Tours
  /\ seconde \in Nat /\ fraction \in 0 .. TICS - 1
  /\ duree \in 0 .. Limite
  /\ tir_x \in Coord /\ tir_y \in Coord
  /\ montre \in {<<>>} \cup (Coord \X Coord)
  /\ coup \in {<<>>} \cup (Coord \X Coord)

\* The shot leaves in the second in which the time is up or in the one after
\* it, whatever keys are typed: never earlier, and never later, although the
\* second may roll over between the test of the time and the getch behind it,
\* which then waits for a second more.
DelaiTenu == coup # <<>> => seconde \in {timeout, timeout + 1}

\* The player shoots at the cell the screen showed under the cursor: a key
\* that arrives when the time is up changes neither.
TirMontre == coup # <<>> => coup = montre

\* The shot leaves, even if the player never types or never stops typing.
TirPart == tour # "attente" ~> coup # <<>>
=============================================================================
