------------------------------- MODULE Partie -------------------------------
(***************************************************************************)
(* One game between the server (serveur.c, from lancement_partie to its    *)
(* return) and its clients (client.c, from attente_partie to the close of  *)
(* the socket), over one TCP connection per player.                        *)
(*                                                                         *)
(* The server is a single thread: phase says at which call of its code it  *)
(* is, idx is the loop variable of the loop that call stands in.  A client *)
(* is a single thread too: cpc[i] is the call at which client i is.        *)
(* s2c[i] and c2s[i] hold the messages written and not yet read.           *)
(*                                                                         *)
(* recevoir (lib/data.c, operator Lecture of module Transport) makes one   *)
(* read and parses one message; it ignores the result of the read.  So a   *)
(* read may take several messages and keep the first of them only          *)
(* (Fusion), and a read from a closed connection parses whatever the       *)
(* buffer held (Residus).                                                  *)
(***************************************************************************)
EXTENDS Plateau, Transport

CONSTANTS
  Tirs,          \* cells the players may aim at
  Placements,    \* boats the players may send: <<x, y, direction>>
  MAX_BATEAUX,   \* size of the arrays board_t.bateaux and game_t.players (100)
  nbBateauInit,  \* values nbBateau may have before the first boat: the field
                 \* is never initialised (init_game, attente_joueur)
  grillesInit,   \* same for the grid
  bateauxInit,   \* same for an element of the list of boats
  idsFantomes,   \* same for the field id of an element of players
  Pannes         \* how many clients may crash

ASSUME TirsAssumption == Tirs \subseteq Case

\* A client only sends boats that lie inside the board (placement screen).
ASSUME PlacementsAssumption ==
  /\ Placements \subseteq Coord \X Coord \X Direction
  /\ \A p \in Placements, i \in Segment : Position(p[1], p[2], p[3], i) \in Case

\* The parameter menu keeps the number of players within the arrays.
ASSUME BateauxAssumption == MAX_BATEAUX \in Nat /\ nbJoueur <= MAX_BATEAUX

ASSUME MemoireAssumption ==
  /\ nbBateauInit \subseteq Int
  /\ grillesInit \subseteq [Case -> Contenu]
  /\ bateauxInit \subseteq Bateau
  /\ idsFantomes \subseteq Int

ASSUME PannesAssumption == Pannes \in Nat

VARIABLES
  phase, idx,    \* the server's position
  etat,          \* game.etat of the server: 1 launched, 2 finished
  nbRecu,        \* nbBateauxRecu of recevoir_bateaux
  cell, bateaux, nbBateau,   \* board_t of the server
  cpc,           \* position of each client
  cetat,         \* game.etat of each client
  vue,           \* game.plateau of each client
  bateau,        \* game.bateau of each client: the cells of its boat
  s2c, c2s,      \* messages in flight
  conn,          \* the connection as the server's socket knows it
  pannes         \* clients that may still crash

serveur == <<phase, idx, etat, nbRecu>>
plateau == <<cell, bateaux, nbBateau>>
clients == <<cpc, cetat, vue, bateau>>
reseau  == <<s2c, c2s, conn>>
vars    == <<phase, idx, etat, nbRecu, cell, bateaux, nbBateau,
             cpc, cetat, vue, bateau, s2c, c2s, conn, pannes>>

----------------------------------------------------------------------------
(***************************************************************************)
(* Messages (req_t): an id, a name, and infos reduced to a tuple.          *)
(***************************************************************************)

Req(id, nom, infos) == [id |-> id, nom |-> nom, infos |-> infos]

Ok == Req(0, "ok", <<>>)

\* A shot travels as "x;y", a boat as "x;y;direction".
Coup(c)  == Req(6, "coup", <<c[2], c[1]>>)
Boat(p)  == Req(3, "boat", p)
Recept   == Req(0, "recept", <<>>)
Mort     == Req(6, "mort", <<>>)

MsgClient == {Ok, Recept, Mort} \cup {Coup(c) : c \in Tirs}
                                \cup {Boat(p) : p \in Placements}

\* What a buffer may hold that a read did not fill: the buffer is a variable
\* that is not initialised.  A message of a client; one with the id of a boat
\* of which no direction can be read, like the server's own request; a boat
\* that is not on the board.  Whatever else it holds is handled as an
\* acknowledgement is.
HorsPlateau == <<taillePlateau, taillePlateau, "d">>

Residus == MsgClient \cup {Req(3, "bateaux", <<>>), Boat(HorsPlateau)}

\* Name of the message that carries a verdict.
NomEtat(v) == CASE v = 7 -> "continue" [] v = 8 -> "stop" [] OTHER -> "fin"

MsgServeur == [id    : {0, 2, 3, 4, 5, 7, 8, 9, 10},
               nom   : {"ok", "plateau", "bateaux", "infos", "go",
                        "continue", "stop", "fin"},
               infos : Seq(Nat)]

----------------------------------------------------------------------------
(***************************************************************************)
(* Calls of the transport layer.                                           *)
(***************************************************************************)

\* The server writes m to player i.  A peer that has closed answers the write
\* with a reset, which may come late; the message is lost.
Envoyer(i, m) ==
  /\ conn[i] # "reset"
  /\ s2c' = IF conn[i] = "ouverte" THEN [s2c EXCEPT ![i] = Append(@, m)] ELSE s2c
  /\ conn' \in IF conn[i] = "fermee"
               THEN {conn, [conn EXCEPT ![i] = "reset"]} ELSE {conn}

\* Client i writes m to the server.
EnvoyerClient(i, m) == c2s' = [c2s EXCEPT ![i] = Append(@, m)]

\* The socket of client i is closed, by close or by the death of the process.
\* Messages it has not read, or that arrive later, cause a reset.
Fermer(i) ==
  /\ cpc' = [cpc EXCEPT ![i] = "ferme"]
  /\ conn' \in {[conn EXCEPT ![i] = e] :
                   e \in IF s2c[i] = <<>> THEN {"fermee"} ELSE {"fermee", "reset"}}
  /\ s2c' = [s2c EXCEPT ![i] = <<>>]

----------------------------------------------------------------------------
(***************************************************************************)
(* The server.                                                             *)
(***************************************************************************)

\* Mutant: the loop runs to i <= nbJoueur.
BouclerTrop(ici, suite) ==
  IF idx < nbJoueur THEN phase' = ici /\ idx' = idx + 1
                    ELSE phase' = suite /\ idx' = 0

\* The loop over the players goes on with phase ici, or ends and phase suite
\* begins.
Boucler(ici, suite) ==
  IF idx < nbJoueur - 1 THEN phase' = ici /\ idx' = idx + 1
                        ELSE phase' = suite /\ idx' = 0

\* recevoir of an acknowledgement of which nothing is used.
RecevoirAck(ici, debut, suite) ==
  /\ phase = ici
  /\ \E r \in Lecture(c2s[idx], conn[idx], Residus) :
       c2s' = [c2s EXCEPT ![idx] = r.reste]
  /\ Boucler(debut, suite)
  /\ UNCHANGED <<etat, nbRecu, plateau, clients, s2c, conn, pannes>>

\* envoyer followed by a recevoir, in phase suite.
EnvoyerPuis(ici, m, suite) ==
  /\ phase = ici
  /\ Envoyer(idx, m)
  /\ phase' = suite
  /\ UNCHANGED <<idx, etat, nbRecu, plateau, clients, c2s, pannes>>

\* lancement_partie, envoyer_infos_partie
EnvoyerInfos == EnvoyerPuis("infos",
                  Req(4, "infos", <<nbJoueur, taillePlateau, tailleBateau>>), "infos_ack")

\* Mutant: the acknowledgement of the infos is not waited for.
InfosSansAck ==
  /\ phase = "infos_ack"
  /\ Boucler("infos", "bateaux")
  /\ UNCHANGED <<etat, nbRecu, plateau, clients, reseau, pannes>>

InfosAck == RecevoirAck("infos_ack", "infos", "bateaux")

\* recevoir_bateaux, first loop
DemanderBateaux ==
  /\ phase = "bateaux"
  /\ Envoyer(idx, Req(3, "bateaux", <<>>))
  /\ Boucler("bateaux", "poll")
  /\ nbRecu' = 0
  /\ UNCHANGED <<etat, plateau, clients, c2s, pannes>>

\* Mutant: the boat is not counted.
PlacerSansCompter(id, p) ==
  /\ bateaux'  = [bateaux EXCEPT ![id] = BateauPlace(p[1], p[2], p[3])]
  /\ cell'     = CasesPlacees(cell, p[1], p[2], p[3])
  /\ UNCHANGED nbBateau

\* placer_bateau for the player id
PlacerBateau(id, p) ==
  /\ bateaux'  = [bateaux EXCEPT ![id] = BateauPlace(p[1], p[2], p[3])]
  /\ cell'     = CasesPlacees(cell, p[1], p[2], p[3])
  /\ nbBateau' = nbBateau + 1

\* Mutant: the ring goes on before the message of the slot has been counted.
SlotSaute == IF idx = nbJoueur + 1 THEN 0 ELSE idx + 2

\* The slot polled after slot idx.
SlotSuivant == IF idx = nbJoueur + 1 THEN 0 ELSE idx + 1

\* placer_bateau would write outside the list of boats, or outside the board.
Deborde(m, id) ==
  /\ m.id = 3 /\ m.infos # <<>>
  /\ \/ id \notin 0 .. MAX_BATEAUX - 1
     \/ \E i \in Segment : Position(m.infos[1], m.infos[2], m.infos[3], i) \notin Case

\* What recevoir_bateaux does of a message m read from a slot whose player
\* has number id.  The polling ring has two slots more than there are players.
CompterBateau(m, id) ==
  IF Deborde(m, id)
  THEN phase' = "egare" /\ UNCHANGED <<idx, nbRecu, plateau>>
  ELSE /\ IF m.id = 3 /\ m.infos # <<>> THEN PlacerBateau(id, m.infos) ELSE UNCHANGED plateau
       /\ nbRecu' = IF m.id = 3 THEN nbRecu + 1 ELSE nbRecu
       /\ IF nbRecu' = nbJoueur
          THEN phase' = "pause" /\ idx' = 0
          ELSE phase' = "poll" /\ idx' = SlotSuivant

\* recevoir_bateaux, polling loop: a message from a player
RecevoirBateau ==
  /\ phase = "poll"
  /\ idx \in Joueurs
  /\ \E r \in Lecture(c2s[idx], conn[idx], Residus) :
       /\ c2s' = [c2s EXCEPT ![idx] = r.reste]
       /\ CompterBateau(r.m, idx)
  /\ Envoyer(idx, Ok)
  /\ UNCHANGED <<etat, clients, pannes>>

\* The same loop on a slot beyond the players, which may lie beyond the array
\* players as well.  Its client_t is memory that was never written, of which
\* each poll may make anything.  The descriptor may be none, or not ready: the
\* ring stays, and this is no step.  It may be something that is not a player,
\* of which nothing useful is read; ...
FantomeLu == \E m \in Residus, id \in idsFantomes : CompterBateau(m, id) /\ UNCHANGED reseau

\* ... that of the socket of player i, whose message is counted for some id;
FantomeDouble(i) ==
  /\ \E r \in Lecture(c2s[i], conn[i], Residus), id \in idsFantomes :
       /\ c2s' = [c2s EXCEPT ![i] = r.reste]
       /\ CompterBateau(r.m, id)
  /\ Envoyer(i, Ok)

\* ... or a number with which FD_SET or the send on it goes wrong.
FantomeFatal == phase' \in {"tue", "egare"} /\ UNCHANGED <<idx, nbRecu, plateau, reseau>>

RecevoirFantome ==
  /\ phase = "poll"
  /\ idx \in {nbJoueur, nbJoueur + 1}
  /\ FantomeLu \/ (\E i \in Joueurs : FantomeDouble(i)) \/ FantomeFatal
  /\ UNCHANGED <<etat, clients, pannes>>

\* getch: the operator starts the rounds
Lancer ==
  /\ phase = "pause"
  /\ phase' = "plateau"
  /\ UNCHANGED <<idx, etat, nbRecu, plateau, clients, reseau, pannes>>

\* envoyer_plateau
EnvoyerPlateau == EnvoyerPuis("plateau", Req(2, "plateau", EncoderPlateau(cell)), "plateau_ack")
PlateauAck     == RecevoirAck("plateau_ack", "plateau", "go")

\* lancement_partie, the loop that sends "go"
EnvoyerGo == EnvoyerPuis("go", Req(5, "go", <<>>), "go_ack")
GoAck     == RecevoirAck("go_ack", "go", "tir")

\* The cell a message aims at, if it is a valid shot.
EstTir(m) == m.id = 6 /\ m.nom = "coup" /\ <<m.infos[2], m.infos[1]>> \in Case

\* recevoir_tir, the effect of a valid shot
Tirer(c) ==
  /\ cell' = [cell EXCEPT ![c] = Touche(@)]
  /\ bateaux' = IF cell[c] = "BOAT" THEN TirerBateau(bateaux, c, nbBateau) ELSE bateaux

\* The loops over the nbBateau boats run past the end of the list.
TropDeBateaux == nbBateau > MAX_BATEAUX

\* The shot m brings makes tirer_bateau run.
FaitMouche(m) == EstTir(m) /\ cell[<<m.infos[2], m.infos[1]>>] = "BOAT"

\* recevoir_tir for player idx
RecevoirTir ==
  /\ phase = "tir"
  /\ \E r \in Lecture(c2s[idx], conn[idx], Residus) :
       /\ c2s' = [c2s EXCEPT ![idx] = r.reste]
       /\ IF EstTir(r.m) THEN Tirer(<<r.m.infos[2], r.m.infos[1]>>)
                         ELSE UNCHANGED <<cell, bateaux>>
       /\ IF TropDeBateaux /\ FaitMouche(r.m) THEN phase' = "egare" /\ UNCHANGED idx
                                              ELSE Boucler("tir", "verif")
  /\ Envoyer(idx, Ok)
  /\ UNCHANGED <<etat, nbRecu, nbBateau, clients, pannes>>

\* verifier_fin_partie, count of the sunk boats
VerifierFinPartie ==
  /\ phase = "verif"
  /\ phase' = IF TropDeBateaux THEN "egare" ELSE "etat"
  /\ etat' = IF NbCoules(bateaux, nbBateau) = nbBateau THEN 2 ELSE etat
  /\ UNCHANGED <<idx, nbRecu, plateau, clients, reseau, pannes>>

\* verifier_fin_partie, the loop that announces the verdict
EnvoyerEtat ==
  LET v == Verdict(bateaux, nbBateau, idx)
  IN  EnvoyerPuis("etat", Req(v, NomEtat(v), <<>>), "etat_ack")

\* ... and the test of the loop of lancement_partie
EtatAck == RecevoirAck("etat_ack", "etat", IF etat = 2 THEN "retour" ELSE "plateau")

\* envoyerMessSTREAM on a connection that was reset: SIGPIPE, or the exit of
\* CHECK.  (In poll and tir the reply follows a read that returns at once.)
EcritureFatale ==
  /\ phase \in {"infos", "bateaux", "poll", "plateau", "go", "tir", "etat"}
  /\ idx \in Joueurs
  /\ conn[idx] = "reset"
  /\ phase' = "tue"
  /\ UNCHANGED <<idx, etat, nbRecu, plateau, clients, reseau, pannes>>

\* Steps the server takes by itself.
Serveur == \/ EnvoyerInfos \/ InfosAck \/ DemanderBateaux \/ RecevoirBateau
           \/ EnvoyerPlateau \/ PlateauAck \/ EnvoyerGo \/ GoAck \/ RecevoirTir
           \/ VerifierFinPartie \/ EnvoyerEtat \/ EtatAck \/ EcritureFatale

----------------------------------------------------------------------------
(***************************************************************************)
(* Client i.                                                               *)
(***************************************************************************)

\* recevoir of a message by client i, and the call the client goes on with.
Lectures(i) == Lecture(s2c[i], "ouverte", {})

Lire(i, r, suite) ==
  /\ s2c' = [s2c EXCEPT ![i] = r.reste]
  /\ cpc' = [cpc EXCEPT ![i] = suite]

\* The end of main: the reply to the identification, which attente_joueur has
\* sent before the launch and which the client may not have read yet.
Acceptation(i) ==
  /\ cpc[i] = "acceptation"
  /\ \E r \in Lectures(i) : Lire(i, r, IF r.m.id = 0 THEN "infos" ELSE "sortie")
  /\ UNCHANGED <<serveur, plateau, cetat, vue, bateau, c2s, conn, pannes>>

\* attente_partie; then init_plateau, at the start of envoyer_bateau
AttentePartie(i) ==
  /\ cpc[i] = "infos"
  /\ \E r \in Lectures(i) :
       IF r.m.id = 4
       THEN /\ Lire(i, r, "ordre")
            /\ EnvoyerClient(i, Ok)
            /\ vue' = [vue EXCEPT ![i] = [c \in Case |-> "EMPTY"]]
       ELSE Lire(i, r, "sortie") /\ UNCHANGED <<c2s, vue>>
  /\ UNCHANGED <<serveur, plateau, cetat, bateau, conn, pannes>>

\* envoyer_bateau
EnvoyerBateau(i) ==
  /\ cpc[i] = "ordre"
  /\ \E r \in Lectures(i) : Lire(i, r, IF r.m.id = 3 THEN "placer" ELSE "sortie")
  /\ UNCHANGED <<serveur, plateau, cetat, vue, bateau, c2s, conn, pannes>>

\* choix_bateau and menu_placer_bateau up to Enter: the player's boat p
MenuPlacerBateau(i) ==
  /\ cpc[i] = "placer"
  /\ \E p \in Placements :
       /\ bateau' = [bateau EXCEPT ![i] = [j \in Segment |-> Position(p[1], p[2], p[3], j)]]
       /\ EnvoyerClient(i, Boat(p))
  /\ cpc' = [cpc EXCEPT ![i] = "bateau_rep"]
  /\ UNCHANGED <<serveur, plateau, cetat, vue, s2c, conn, pannes>>

\* menu_placer_bateau, the reply; then the start of jouer_partie
BateauRep(i) ==
  /\ cpc[i] = "bateau_rep"
  /\ \E r \in Lectures(i) :
       IF r.m.id = 0
       THEN Lire(i, r, "plateau") /\ cetat' = [cetat EXCEPT ![i] = "EN_JEU"]
       ELSE Lire(i, r, "placer") /\ UNCHANGED cetat
  /\ UNCHANGED <<serveur, plateau, vue, bateau, c2s, conn, pannes>>

\* What the memory behind the characters kept of infos may decode to, if the
\* board needs more of them.
Reste(infos) ==
  IF taillePlateau * taillePlateau <= Gardes(infos) + 1 THEN {"EMPTY"} ELSE Status

\* Mutant: the state of the player is not tested.
ApresPlateauVivant(e) == "go"

\* The branch of jouer_partie after the board, for a player in state e.
ApresPlateau(e) == IF e = "EN_JEU" THEN "go" ELSE "go_mort"

\* recevoir_plateau, and the branch of jouer_partie that follows
RecevoirPlateau(i) ==
  /\ cpc[i] = "plateau"
  /\ \E r \in Lectures(i) :
       /\ Lire(i, r, ApresPlateau(cetat[i]))
       /\ IF r.m.id = 2
          THEN /\ EnvoyerClient(i, Ok)
               /\ \E reste \in Reste(r.m.infos) :
                    vue' = [vue EXCEPT ![i] = DecoderPlateau(r.m.infos, bateau[i], reste)]
          ELSE UNCHANGED <<c2s, vue>>
  /\ UNCHANGED <<serveur, plateau, cetat, bateau, conn, pannes>>

\* jouer_coup, the "go"; without it the client goes on with recevoir_etat
JouerCoup(i) ==
  /\ cpc[i] = "go"
  /\ \E r \in Lectures(i) :
       IF r.m.id = 5 THEN Lire(i, r, "jouer") /\ EnvoyerClient(i, Ok)
                     ELSE Lire(i, r, "etat") /\ UNCHANGED c2s
  /\ UNCHANGED <<serveur, plateau, cetat, vue, bateau, conn, pannes>>

\* jouer_coup, the timer runs out while the cursor is on cell c
FinTimer(i) ==
  /\ cpc[i] = "jouer"
  /\ \E c \in Tirs : EnvoyerClient(i, Coup(c))
  /\ cpc' = [cpc EXCEPT ![i] = "coup_rep"]
  /\ UNCHANGED <<serveur, plateau, cetat, vue, bateau, s2c, conn, pannes>>

\* jouer_coup, the reply to the shot
CoupRep(i) ==
  /\ cpc[i] = "coup_rep"
  /\ \E r \in Lectures(i) : Lire(i, r, "etat")
  /\ UNCHANGED <<serveur, plateau, cetat, vue, bateau, c2s, conn, pannes>>

\* Mutant: "mort" is sent first.
GoMortInverse(i) ==
  /\ cpc[i] = "go_mort"
  /\ \E r \in Lectures(i) : Lire(i, r, "mort")
  /\ EnvoyerClient(i, Mort)
  /\ UNCHANGED <<serveur, plateau, cetat, vue, bateau, conn, pannes>>

\* jouer_partie for a sunk player: whatever arrives (it is not even parsed) is
\* answered by "recept" ...
GoMort(i) ==
  /\ cpc[i] = "go_mort"
  /\ \E r \in Lectures(i) : Lire(i, r, "mort")
  /\ EnvoyerClient(i, Recept)
  /\ UNCHANGED <<serveur, plateau, cetat, vue, bateau, conn, pannes>>

\* Mutant: a sunk player sends nothing in place of the shot.
EnvoyerMortOublie(i) ==
  /\ cpc[i] = "mort"
  /\ cpc' = [cpc EXCEPT ![i] = "mort_rep"]
  /\ UNCHANGED <<serveur, plateau, cetat, vue, bateau, s2c, c2s, conn, pannes>>

\* ... and at once by "mort", which stands for the shot
EnvoyerMort(i) ==
  /\ cpc[i] = "mort"
  /\ EnvoyerClient(i, Mort)
  /\ cpc' = [cpc EXCEPT ![i] = "mort_rep"]
  /\ UNCHANGED <<serveur, plateau, cetat, vue, bateau, s2c, conn, pannes>>

MortRep(i) ==
  /\ cpc[i] = "mort_rep"
  /\ \E r \in Lectures(i) : Lire(i, r, "etat")
  /\ UNCHANGED <<serveur, plateau, cetat, vue, bateau, c2s, conn, pannes>>

\* Mutant: the message "stop" is acknowledged but not taken into account.
EtatSansMort(e, id) == CASE id = 10 -> "FIN_WIN" [] id = 9 -> "FIN_LOSE" [] OTHER -> e

\* game.etat of a client in state e after recevoir_etat has read a message id
EtatApres(e, id) == CASE id = 10 -> "FIN_WIN"
                      [] id = 9  -> "FIN_LOSE"
                      [] id = 8  -> "DEAD"
                      [] OTHER   -> e

\* recevoir_etat, and the test of the loop of jouer_partie
RecevoirEtat(i) ==
  /\ cpc[i] = "etat"
  /\ \E r \in Lectures(i) :
       LET e == EtatApres(cetat[i], r.m.id)
       IN  /\ Lire(i, r, IF e \in {"FIN_WIN", "FIN_LOSE"} THEN "fin" ELSE "plateau")
           /\ cetat' = [cetat EXCEPT ![i] = e]
           /\ IF r.m.id \in 7 .. 10 THEN EnvoyerClient(i, Ok) ELSE UNCHANGED c2s
  /\ UNCHANGED <<serveur, plateau, vue, bateau, conn, pannes>>

\* The player leaves the final screen, or an error has ended attente_partie:
\* main closes the socket.
Quitter(i) ==
  /\ cpc[i] \in {"fin", "sortie"}
  /\ Fermer(i)
  /\ UNCHANGED <<serveur, plateau, cetat, vue, bateau, c2s, pannes>>

\* The client's process dies.
Panne(i) ==
  /\ pannes > 0
  /\ cpc[i] # "ferme"
  /\ Fermer(i)
  /\ pannes' = pannes - 1
  /\ UNCHANGED <<serveur, plateau, cetat, vue, bateau, c2s>>

\* Steps client i takes without its player: the timer does not wait for one.
ClientAuto(i) ==
  \/ Acceptation(i) \/ AttentePartie(i) \/ EnvoyerBateau(i) \/ BateauRep(i) \/ RecevoirPlateau(i)
  \/ JouerCoup(i) \/ FinTimer(i) \/ CoupRep(i) \/ GoMort(i) \/ EnvoyerMort(i)
  \/ MortRep(i) \/ RecevoirEtat(i)

Client(i) == ClientAuto(i) \/ MenuPlacerBateau(i) \/ Quitter(i) \/ Panne(i)

----------------------------------------------------------------------------

\* The state in which attente_joueur calls lancement_partie: every player is
\* registered and its acceptance sent; the clients that are late have not read
\* it, the others wait in attente_partie (InscritsFideles of module Attente).
Init ==
  /\ phase = "infos" /\ idx = 0 /\ etat = 1 /\ nbRecu = 0
  /\ cell \in grillesInit
  /\ bateaux \in [0 .. MAX_BATEAUX - 1 -> bateauxInit]
  /\ nbBateau \in nbBateauInit
  /\ \E tard \in SUBSET Joueurs :
       /\ cpc = [i \in Joueurs |-> IF i \in tard THEN "acceptation" ELSE "infos"]
       /\ s2c = [i \in Joueurs |-> IF i \in tard THEN <<Ok>> ELSE <<>>]
  /\ cetat  = [i \in Joueurs |-> "EN_JEU"]
  /\ vue    = [i \in Joueurs |-> [c \in Case |-> "EMPTY"]]
  /\ bateau = [i \in Joueurs |-> [j \in Segment |-> <<0, 0>>]]
  /\ c2s    = [i \in Joueurs |-> <<>>]
  /\ conn   = [i \in Joueurs |-> "ouverte"]
  /\ pannes = Pannes

\* The process of the server is dead, or has used memory outside its arrays:
\* what it does from then on is anything, and is not followed.
Perdu == phase \in {"tue", "egare"}

\* lancement_partie has returned, or the server is lost.
Termine == (phase = "retour" \/ Perdu) /\ UNCHANGED vars

\* The clients are followed as long as the server is.
Next ==
  \/ Serveur
  \/ RecevoirFantome
  \/ Lancer
  \/ ~Perdu /\ \E i \in Joueurs : Client(i)
  \/ Termine

Spec == Init /\ [][Next]_vars

\* The server's code and the clients' code run on; nothing is assumed of what
\* the operator and the players do with their keyboards.
Equite == /\ WF_vars(Serveur)
          /\ \A i \in Joueurs : WF_vars(~Perdu /\ ClientAuto(i))

FairSpec == Spec /\ Equite

----------------------------------------------------------------------------
(***************************************************************************)
(* Properties.                                                             *)
(***************************************************************************)

Phases == {"infos", "infos_ack", "bateaux", "poll", "pause", "plateau",
           "plateau_ack", "go", "go_ack", "tir", "verif", "etat", "etat_ack",
           "retour", "tue", "egare"}

Positions == {"acceptation", "infos", "ordre", "placer", "bateau_rep", "plateau", "go",
              "jouer", "coup_rep", "go_mort", "mort", "mort_rep", "etat", "fin", "sortie",
              "ferme"}

Fins == {"FIN_WIN", "FIN_LOSE"}

\* Types only: idx goes over the players, and in the ring over two slots more;
\* nbBateau starts as any integer.
TypeOK ==
  /\ phase \in Phases
  /\ idx \in 0 .. nbJoueur + 1
  /\ phase # "poll" /\ ~Perdu => idx \in Joueurs
  /\ etat \in {1, 2}
  /\ nbRecu \in 0 .. nbJoueur
  /\ cell \in [Case -> Contenu]
  /\ bateaux \in [0 .. MAX_BATEAUX - 1 -> Bateau]
  /\ nbBateau \in Int
  /\ cpc \in [Joueurs -> Positions]
  /\ cetat \in [Joueurs -> {"EN_JEU", "DEAD"} \cup Fins]
  /\ vue \in [Joueurs -> [Case -> Status]]
  /\ bateau \in [Joueurs -> [Segment -> Case]]
  /\ s2c \in [Joueurs -> Seq(MsgServeur)]
  /\ c2s \in [Joueurs -> Seq(MsgClient)]
  /\ conn \in [Joueurs -> {"ouverte", "fermee", "reset"}]
  /\ pannes \in 0 .. Pannes

\* The phases before the rounds.
AvantJeu == {"infos", "infos_ack", "bateaux", "poll"}

\* Where the server's own memory ends: it polls registered players only, and
\* neither writes nor reads outside its arrays.
DansLesTableaux == idx \in Joueurs /\ phase # "egare"

\* The ring of recevoir_bateaux runs over two slots more than there are
\* players, but leaves the players only after the death of one: until then the
\* boats come in before it gets there.
MemoireTenue == pannes = Pannes => DansLesTableaux

\* The server keeps the state of a boat cell twice, in the grid and in the
\* list of boats.  Once the rounds have begun placer_bateau, recevoir_tir and
\* tirer_bateau have kept both equal for the boat of every player, whatever
\* boats overlap.
Coherence ==
  phase \notin AvantJeu => \A i \in Joueurs, j \in Segment :
    bateaux[i].cell[j].status = cell[bateaux[i].cell[j].pos]

\* Once the rounds have begun the server counts one boat per player, and
\* knows it at the place where the player's own program draws it.
FlotteFidele ==
  phase \notin AvantJeu =>
    /\ nbBateau = nbJoueur
    /\ \A i \in Joueurs, j \in Segment : bateaux[i].cell[j].pos = bateau[i][j]

\* Ids of the messages the code of a client takes at each of its reads.
AttenduClient(pc) ==
  CASE pc = "infos"               -> {4}
    [] pc = "ordre"               -> {3}
    [] pc \in {"acceptation", "bateau_rep", "coup_rep", "mort_rep"} -> {0}
    [] pc = "plateau"             -> {2}
    [] pc \in {"go", "go_mort"}   -> {5}
    [] pc = "etat"                -> 7 .. 10
    [] pc = "fin"                 -> {2}
    [] OTHER                      -> {}

\* The phases in which the server reads from player idx.
Ecoutes == {"infos_ack", "poll", "plateau_ack", "go_ack", "tir", "etat_ack"}

AttenduServeur(p) == CASE p = "poll" -> {3} [] p = "tir" -> {6} [] OTHER -> {0}

\* Client and server never get out of step: the next message a client will
\* read is the one its code is waiting for, and the server, when it reads from
\* a player, finds an acknowledgement, a boat or a shot where it wants one.
\* (A client that has left the game may still receive a board.)
ProtocoleRespecte ==
  /\ \A i \in Joueurs : s2c[i] # <<>> => Head(s2c[i]).id \in AttenduClient(cpc[i])
  /\ idx \in Joueurs /\ c2s[idx] # <<>> /\ phase \in Ecoutes
     => Head(c2s[idx]).id \in AttenduServeur(phase)

\* Positions of a client at a read that waits for the server alone.
Lecteurs == {"acceptation", "infos", "ordre", "bateau_rep", "plateau", "go", "go_mort",
             "coup_rep", "mort_rep", "etat"}

\* Server and client never wait for each other: neither side's read has a
\* time-out, so when the server reads from a player that has sent nothing and
\* is alive, its program has a message to read, or its player is to act.
JamaisInterbloques ==
  idx \in Joueurs /\ phase \in Ecoutes /\ c2s[idx] = <<>> /\ conn[idx] = "ouverte"
    => cpc[idx] \notin Lecteurs \/ s2c[idx] # <<>>

\* How much the code relies on TCP handing messages over one by one: at most
\* two are under way in one direction, and two only where one side writes
\* twice without waiting in between: the server behind an acknowledgement (of
\* the pseudo, the boat or the shot), a client when it sends its shot, or at
\* once when it is sunk, behind the answer to "go".
DeuxAuPlus ==
  \A i \in Joueurs :
    /\ Len(s2c[i]) <= 1 \/ (Len(s2c[i]) = 2 /\ Head(s2c[i]) = Ok /\ s2c[i][2] # Ok)
    /\ Len(c2s[i]) <= 1 \/ (Len(c2s[i]) = 2 /\ Head(c2s[i]).id = 0 /\ c2s[i][2].id = 6)

\* What a client knows of the state of the game at the start of a round is
\* what the server's boats say: a player still in play floats and has an
\* opponent afloat, a dead one is sunk while two others fight on, the winner
\* is the only one afloat, a loser is sunk.  (Of a client that has closed its
\* socket nothing is said: the server goes on without it, on residues.)
VerdictJuste ==
  phase \in {"plateau", "plateau_ack", "go", "go_ack", "retour"} =>
    \A i \in {k \in Joueurs : cpc[k] # "ferme"} :
      LET autres == {j \in Joueurs \ {i} : ~Coule(bateaux, j)}
      IN  CASE cetat[i] = "EN_JEU"   -> ~Coule(bateaux, i) /\ autres # {}
            [] cetat[i] = "DEAD"     -> Coule(bateaux, i) /\ Cardinality(autres) >= 2
            [] cetat[i] = "FIN_WIN"  -> ~Coule(bateaux, i) /\ autres = {}
            [] cetat[i] = "FIN_LOSE" -> Coule(bateaux, i) /\ Cardinality(autres) <= 1

\* What player i should see: every shot fired so far, no boat but its own.
VuePublique(i) ==
  [c \in Case |-> IF cell[c] \in {"MISSED_SHOT", "HIT_SHOT"} THEN cell[c]
                  ELSE IF \E j \in Segment : bateau[i][j] = c THEN "BOAT" ELSE "EMPTY"]

\* When the shots of a round are asked for, every player that has not left
\* sees exactly that: rows and columns agree between envoyer_plateau and
\* decode_plateau, and no opponent's boat shows.
VueFidele ==
  phase \in {"go", "go_ack"} => \A i \in Joueurs :
    cetat[i] \notin Fins /\ cpc[i] # "ferme" => vue[i] = VuePublique(i)

\* Only a player whose boat still floated when the round began changes the
\* board in that round: a sunk one is polled for a shot all the same.
CoulesSeTaisent ==
  [][phase = "tir" /\ cell' # cell /\ cpc[idx] # "ferme" => cetat[idx] = "EN_JEU"]_vars

\* A shot is never undone: from the first round on a cell that was shot at
\* keeps the result.
TirsIrreversibles ==
  [][\A c \in Case : phase \notin AvantJeu
        /\ cell[c] \in {"MISSED_SHOT", "HIT_SHOT"} => cell'[c] = cell[c]]_vars

\* What is left to do for player i in the placement or in a round: the calls
\* the server still makes to or from it (at the one of player idx, those of the
\* players before it are done) ...
Selon(i, fait, ici, reste) == IF i < idx THEN fait ELSE IF i = idx THEN ici ELSE reste

Appels(i) ==
  CASE phase = "infos"       -> Selon(i, 2, 4, 4)
    [] phase = "infos_ack"   -> Selon(i, 2, 3, 4)
    [] phase = "bateaux"     -> Selon(i, 1, 2, 2)
    [] phase = "poll"        -> Selon(i, 0, 1, 1)
    [] phase = "plateau"     -> Selon(i, 6, 8, 8)
    [] phase = "plateau_ack" -> Selon(i, 6, 7, 8)
    [] phase = "go"          -> Selon(i, 4, 6, 6)
    [] phase = "go_ack"      -> Selon(i, 4, 5, 6)
    [] phase = "tir"         -> Selon(i, 3, 4, 4)
    [] phase = "verif"       -> 3
    [] phase = "etat"        -> Selon(i, 0, 2, 2)
    [] phase = "etat_ack"    -> Selon(i, 0, 1, 2)
    [] OTHER                 -> 0

\* ... and the steps its program still takes (before the board it is at the
\* start of the round, behind it at the end).
AvantLesTirs == AvantJeu \cup {"pause", "plateau", "plateau_ack"}

Pas(i) ==
  CASE cpc[i] = "acceptation"             -> 11
    [] cpc[i] = "infos"                   -> 10
    [] cpc[i] = "ordre"                   -> 9
    [] cpc[i] = "placer"                  -> 8
    [] cpc[i] = "bateau_rep"              -> 7
    [] cpc[i] = "plateau"                 -> IF phase \in AvantLesTirs THEN 6 ELSE 0
    [] cpc[i] \in {"go", "go_mort"}       -> 5
    [] cpc[i] \in {"jouer", "mort"}       -> 4
    [] cpc[i] \in {"coup_rep", "mort_rep"} -> 3
    [] cpc[i] = "etat"                    -> 2
    [] cpc[i] = "fin"                     -> 1
    [] OTHER                              -> 0

Travail(i) == Appels(i) + Pas(i)

\* The game makes headway: every step but the one that begins a round, and the
\* death of a client, takes something from what is left to do, for some player,
\* and adds nothing for any.  So neither the ring that polls for boats nor a
\* round goes in circles, and no client is sent back to a call it has made.
Avance ==
  [][\/ phase \in {"pause", "etat_ack"} /\ phase' = "plateau"
     \/ pannes' < pannes
     \/ /\ \A i \in Joueurs : Travail(i)' <= Travail(i)
        /\ \E i \in Joueurs : Travail(i)' < Travail(i)]_vars

\* Nobody dies before the boats are placed.
PannesTardives == [](phase \in AvantJeu => pannes = Pannes)

\* The death of a client in the rounds does not put the dialogue with the others
\* out of step, nor what it leaves behind in its connection; the server stays
\* within its arrays.
DialogueTenu ==
  PannesTardives => [](DansLesTableaux /\ ProtocoleRespecte /\ DeuxAuPlus /\ JamaisInterbloques)

\* Neither does it spoil the server's records of the boats, nor what the others
\* are told and shown.
VerdictTenu == PannesTardives => [](FlotteFidele /\ Coherence /\ VerdictJuste /\ VueFidele)

\* The server goes on, or is lost.
Atteint(p) == phase = p \/ Perdu

\* The placement ends once every player has placed its boat, although the ring
\* polls one slot at a time, in whatever order the boats come in.  (Of a game
\* in which a program has died this is not claimed: a residue counted as a boat
\* leaves the ring waiting on a player that has nothing more to send.)
PlacementAboutit ==
  phase = "poll" /\ (\A i \in Joueurs : cpc[i] \in {"bateau_rep", "plateau"})
    ~> Atteint("pause") \/ pannes < Pannes

\* Every round ends: the server, which waits for one player after the other,
\* reaches the verdict whatever the players do, because the timer of a client
\* sends a shot in the player's place, and the read from a dead client returns.
TourTermine ==
  phase = "plateau" /\ (\A i \in Joueurs : cetat[i] \notin Fins) ~> Atteint("etat")

\* A player whose boat is sunk learns it, even if another one dies: again and
\* again there is a moment when every sunk player knows.  (A boat stays sunk.)
NaufrageAnnonce ==
  []<>(\/ Perdu
       \/ \A i \in Joueurs : Coule(bateaux, i) => cetat[i] # "EN_JEU" \/ cpc[i] = "ferme")

----------------------------------------------------------------------------
(***************************************************************************)
(* What the comments of the code say of it, and its behaviour does not.    *)
(***************************************************************************)

\* serveur.c:499 "On verifie si la partie est terminée": once every client
\* has been told that the game is over, the server leaves the loop of rounds.
FinDePartie ==
  (\A i \in Joueurs : cpc[i] = "fin") => phase \in {"etat_ack", "retour"}

\* data.c:44 "Réception d'une requête/réponse sur une socket": one call of
\* recevoir takes one message of a player.  Stated of sunk players, whose code
\* writes two messages in a row (client.c:230 and 233).
RienPerdu ==
  [][\A i \in Joueurs : cetat[i] = "DEAD" => Len(c2s[i]) <= Len(c2s'[i]) + 1]_vars
=============================================================================
