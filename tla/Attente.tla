------------------------------ MODULE Attente ------------------------------
(***************************************************************************)
(* The waiting room: function attente_joueur of the server (the main       *)
(* thread, which accepts and registers players), attente_joueur_thread     *)
(* (the thread that shows the room and reads the operator's keys), and the *)
(* part of main of the client that goes from the connection to the         *)
(* acceptance.  The two threads share game_t without synchronisation:      *)
(* nbJoueur is written by the first and read by the second, etat is        *)
(* written by the second and read by the first.                            *)
(*                                                                         *)
(* The handshake is  server: 0   client: 1 (pseudo)   server: 0 or -1      *)
(* and a message is reduced to its id.                                     *)
(***************************************************************************)
EXTENDS Integers, FiniteSets, Sequences

CONSTANTS
  Clients,      \* programs that may connect
  Personne,     \* no client
  maxJoueur,    \* game.maxJoueur
  FILE_ECOUTE,  \* length of the queue of listen (10)
  Pannes        \* how many clients may crash

ASSUME PersonneAssumption == Personne \notin Clients
ASSUME MaxAssumption == maxJoueur \in Nat /\ maxJoueur >= 2
ASSUME FileAssumption == FILE_ECOUTE \in Nat \ {0}
ASSUME PannesAssumption == Pannes \in Nat

VARIABLES
  mpc,      \* position of the main thread
  tpc,      \* position of the display thread
  etat,     \* shared_game->etat
  players,  \* shared_game->players[0 .. nbJoueur - 1], as clients
  courant,  \* the client of the last accept, or Personne
  file,     \* connections waiting for accept
  ecoute,   \* whether the listening socket is open
  cpc,      \* position of each client
  s2c, c2s, \* ids in flight
  conn,     \* state of the connection as the server's socket knows it
  pannes    \* clients that may still crash

vars == <<mpc, tpc, etat, players, courant, file, ecoute, cpc, s2c, c2s, conn, pannes>>

nbJoueur == Len(players)

----------------------------------------------------------------------------
(***************************************************************************)
(* The main thread.                                                        *)
(***************************************************************************)

\* Mutant: one player more than the parameter allows is awaited.
CompletTropTard == nbJoueur > maxJoueur

\* Whether the loop over the connections is left: the room is full.
Complet == nbJoueur = maxJoueur

\* Top of the loop: a full room waits for the display thread, any other for a
\* connection.
Boucler ==
  /\ mpc = "boucle"
  /\ mpc' = IF Complet THEN "join" ELSE "accept"
  /\ UNCHANGED <<tpc, etat, players, courant, file, ecoute, cpc, s2c, c2s, conn, pannes>>

\* Mutant: the listening socket is left open.
LancerSansFermer(reste) ==
  /\ mpc' = "lance"
  /\ file' = reste
  /\ UNCHANGED <<ecoute, conn>>

\* close of the listening socket, and the call of lancement_partie.  The
\* connections nobody has accepted are reset.
Lancer(reste) ==
  /\ mpc' = "lance"
  /\ ecoute' = FALSE
  /\ file' = <<>>
  /\ conn' = [c \in Clients |-> IF \E k \in 1 .. Len(reste) : reste[k] = c
                                THEN "reset" ELSE conn[c]]

\* Mutant: the game is launched as soon as the room is full.
JoindreSansAttendre ==
  /\ mpc = "join"
  /\ Lancer(file)
  /\ UNCHANGED <<tpc, etat, players, courant, cpc, s2c, c2s, pannes>>

\* pthread_join
Joindre ==
  /\ mpc = "join"
  /\ tpc = "fini"
  /\ Lancer(file)
  /\ UNCHANGED <<tpc, etat, players, courant, cpc, s2c, c2s, pannes>>

\* A write of the server to client c: lost when the peer has closed, which the
\* server learns by a reset.
Envoyer(c, id) ==
  /\ s2c' = IF conn[c] = "ouverte" THEN [s2c EXCEPT ![c] = Append(@, id)] ELSE s2c
  /\ conn' \in IF conn[c] = "fermee" THEN {conn, [conn EXCEPT ![c] = "reset"]} ELSE {conn}

\* accepterClt.  When the operator has launched the game in the meantime the
\* loop is left and the new connection is neither answered nor closed.  (A
\* client that died in the queue had nothing to read: no reset has come yet.)
Accepter ==
  /\ mpc = "accept"
  /\ file # <<>>
  /\ courant' = Head(file)
  /\ IF etat = 1
     THEN Lancer(Tail(file)) /\ UNCHANGED s2c
     ELSE /\ Envoyer(Head(file), 0)
          /\ mpc' = "pseudo"
          /\ file' = Tail(file)
          /\ UNCHANGED ecoute
  /\ UNCHANGED <<tpc, etat, players, cpc, c2s, pannes>>

\* Ids that recevoir may parse from client c, with the ids that stay unread:
\* the next message, or after a close whatever the buffer held.
Lectures(c) ==
  IF c2s[c] # <<>> THEN {[id |-> Head(c2s[c]), reste |-> Tail(c2s[c])]}
  ELSE IF conn[c] = "ouverte" THEN {} ELSE {[id |-> n, reste |-> <<>>] : n \in {0, 1}}

\* Mutant: nbJoueur is not incremented for the second player.
InscrireSurPlace(c) == players' = IF nbJoueur = 1 THEN <<c>> ELSE Append(players, c)

\* The slot players[nbJoueur] is filled and counted.
Inscrire(c) == players' = Append(players, c)

\* Mutant: the last player of a full room is registered without a reply.
RecevoirPseudoMuet ==
  /\ mpc = "pseudo"
  /\ \E r \in Lectures(courant) :
       /\ c2s' = [c2s EXCEPT ![courant] = r.reste]
       /\ conn[courant] # "reset"
       /\ mpc' = "boucle"
       /\ IF r.id = 1
          THEN /\ Inscrire(courant)
               /\ IF nbJoueur = maxJoueur - 1 THEN UNCHANGED <<s2c, conn>>
                                               ELSE Envoyer(courant, 0)
          ELSE /\ UNCHANGED <<players, s2c>>
               /\ conn' = [conn EXCEPT ![courant] = "close"]
  /\ UNCHANGED <<tpc, etat, courant, file, ecoute, cpc, pannes>>

\* The reply to the identification: the player is registered, or the
\* connection closed.
RecevoirPseudo ==
  /\ mpc = "pseudo"
  /\ \E r \in Lectures(courant) :
       /\ c2s' = [c2s EXCEPT ![courant] = r.reste]
       /\ conn[courant] # "reset"
       /\ mpc' = "boucle"
       /\ IF r.id = 1
          THEN Inscrire(courant) /\ Envoyer(courant, 0)
          ELSE /\ UNCHANGED <<players, s2c>>
               /\ conn' = [conn EXCEPT ![courant] = "close"]
  /\ UNCHANGED <<tpc, etat, courant, file, ecoute, cpc, pannes>>

\* The reply is written to a connection that was reset: SIGPIPE, or CHECK.
EcritureFatale ==
  /\ mpc = "pseudo"
  /\ conn[courant] = "reset"
  /\ mpc' = "tue"
  /\ UNCHANGED <<tpc, etat, players, courant, file, ecoute, cpc, s2c, c2s, conn, pannes>>

Principal == Boucler \/ Joindre \/ Accepter \/ RecevoirPseudo \/ EcritureFatale

----------------------------------------------------------------------------
(***************************************************************************)
(* The display thread.                                                     *)
(***************************************************************************)

\* Mutant: the number of players is not tested.
EntreeSansTest ==
  /\ mpc # "tue"
  /\ tpc = "attend"
  /\ etat' = 1
  /\ tpc' = "fini"
  /\ UNCHANGED <<mpc, players, courant, file, ecoute, cpc, s2c, c2s, conn, pannes>>

\* The operator presses Enter; with fewer than two players nothing happens.
Entree ==
  /\ mpc # "tue"
  /\ tpc = "attend"
  /\ nbJoueur >= 2
  /\ etat' = 1
  /\ tpc' = "fini"
  /\ UNCHANGED <<mpc, players, courant, file, ecoute, cpc, s2c, c2s, conn, pannes>>

----------------------------------------------------------------------------
(***************************************************************************)
(* A client.                                                               *)
(***************************************************************************)

\* connecterClt2Srv: a connection the kernel queues, or a refusal, on which
\* the client exits.
Connecter(c) ==
  /\ cpc[c] = "hors"
  /\ Len(file) < FILE_ECOUTE
  /\ IF ecoute
     THEN /\ file' = Append(file, c)
          /\ conn' = [conn EXCEPT ![c] = "ouverte"]
          /\ cpc' = [cpc EXCEPT ![c] = "invite"]
     ELSE cpc' = [cpc EXCEPT ![c] = "ferme"] /\ UNCHANGED <<file, conn>>
  /\ UNCHANGED <<mpc, tpc, etat, players, courant, ecoute, s2c, c2s, pannes>>

\* main, recevoir of the invitation.  On a reset connection the reply is not
\* set: the client asks for the pseudo or exits.
Invitation(c) ==
  /\ cpc[c] = "invite"
  /\ \/ /\ s2c[c] # <<>>
        /\ cpc' = [cpc EXCEPT ![c] = IF Head(s2c[c]) = 0 THEN "saisie" ELSE "ferme"]
        /\ s2c' = [s2c EXCEPT ![c] = Tail(@)]
     \/ /\ conn[c] = "reset"
        /\ cpc' \in {[cpc EXCEPT ![c] = p] : p \in {"saisie", "ferme"}}
        /\ UNCHANGED s2c
  /\ UNCHANGED <<mpc, tpc, etat, players, courant, file, ecoute, c2s, conn, pannes>>

\* The player types a pseudo; the write kills the client of a reset connection.
Saisir(c) ==
  /\ cpc[c] = "saisie"
  /\ IF conn[c] = "reset"
     THEN cpc' = [cpc EXCEPT ![c] = "ferme"] /\ UNCHANGED c2s
     ELSE /\ cpc' = [cpc EXCEPT ![c] = "attente_ok"]
          /\ c2s' = [c2s EXCEPT ![c] = Append(@, 1)]
  /\ UNCHANGED <<mpc, tpc, etat, players, courant, file, ecoute, s2c, conn, pannes>>

\* The reply: accepted, attente_partie begins.
Acceptation(c) ==
  /\ cpc[c] = "attente_ok"
  /\ s2c[c] # <<>>
  /\ cpc' = [cpc EXCEPT ![c] = IF Head(s2c[c]) = 0 THEN "pret" ELSE "ferme"]
  /\ s2c' = [s2c EXCEPT ![c] = Tail(@)]
  /\ UNCHANGED <<mpc, tpc, etat, players, courant, file, ecoute, c2s, conn, pannes>>

\* The client's process dies.
Panne(c) ==
  /\ pannes > 0
  /\ cpc[c] \notin {"hors", "ferme"}
  /\ pannes' = pannes - 1
  /\ cpc' = [cpc EXCEPT ![c] = "ferme"]
  /\ conn' = [conn EXCEPT ![c] = IF @ # "ouverte" THEN @
                                 ELSE IF s2c[c] = <<>> THEN "fermee" ELSE "reset"]
  /\ s2c' = [s2c EXCEPT ![c] = <<>>]
  /\ UNCHANGED <<mpc, tpc, etat, players, courant, file, ecoute, c2s>>

ClientAuto(c) == Invitation(c) \/ Acceptation(c)
Client(c) == Connecter(c) \/ ClientAuto(c) \/ Saisir(c) \/ Panne(c)

----------------------------------------------------------------------------

Init ==
  /\ mpc = "boucle" /\ tpc = "attend" /\ etat = 0
  /\ players = <<>> /\ courant = Personne
  /\ file = <<>> /\ ecoute = TRUE
  /\ cpc  = [c \in Clients |-> "hors"]
  /\ s2c  = [c \in Clients |-> <<>>]
  /\ c2s  = [c \in Clients |-> <<>>]
  /\ conn = [c \in Clients |-> "aucune"]
  /\ pannes = Pannes

\* The game has begun or the server is dead; nobody need come or go any more.
Repos == mpc \in {"lance", "tue"} /\ UNCHANGED vars

Next ==
  \/ Principal
  \/ Entree
  \/ \E c \in Clients : Client(c)
  \/ Repos

Spec == Init /\ [][Next]_vars

\* The threads and the clients run on; nobody has to connect, to type or to
\* press Enter.
FairSpec == /\ Spec
            /\ WF_vars(Principal)
            /\ \A c \in Clients : WF_vars(ClientAuto(c))

----------------------------------------------------------------------------
(***************************************************************************)
(* Properties.                                                             *)
(***************************************************************************)

Inscrits == {players[k] : k \in 1 .. nbJoueur}

\* Every variable has its type, and the room never holds more players than
\* the parameter allows.
TypeOK ==
  /\ mpc \in {"boucle", "accept", "pseudo", "join", "lance", "tue"}
  /\ tpc \in {"attend", "fini"}
  /\ etat \in {0, 1}
  /\ players \in Seq(Clients) /\ nbJoueur <= maxJoueur
  /\ courant \in Clients \cup {Personne}
  /\ file \in Seq(Clients) /\ Len(file) <= FILE_ECOUTE
  /\ ecoute \in BOOLEAN
  /\ cpc \in [Clients -> {"hors", "invite", "saisie", "attente_ok", "pret", "ferme"}]
  /\ s2c \in [Clients -> Seq({0})]
  /\ c2s \in [Clients -> Seq({1})]
  /\ conn \in [Clients -> {"aucune", "ouverte", "fermee", "reset", "close"}]
  /\ pannes \in 0 .. Pannes

\* A game begins only when the operator has asked for it with two players or
\* more, although Enter is read by one thread and acted upon by the other.
LancementVoulu ==
  mpc = "lance" => tpc = "fini" /\ etat = 1 /\ nbJoueur \in 2 .. maxJoueur

\* Server and client agree on who plays: as long as no client has died, the
\* clients that take themselves for accepted, or are about to, are those in
\* players, and nothing but the acceptance is left on their connections.  (It
\* is the state in which module Partie begins.)
InscritsFideles ==
  pannes = Pannes =>
    /\ Inscrits = {c \in Clients : cpc[c] = "pret" \/ (cpc[c] = "attente_ok" /\ s2c[c] = <<0>>)}
    /\ \A c \in Inscrits : /\ conn[c] = "ouverte" /\ c2s[c] = <<>>
                           /\ cpc[c] = "pret" => s2c[c] = <<>>

\* When the game begins, at most one client that does not take part has a
\* connection that is still open: the one whose arrival made accept return.
UnSeulOublie ==
  mpc = "lance" =>
    Cardinality({c \in Clients \ Inscrits : conn[c] = "ouverte" /\ cpc[c] # "ferme"}) <= 1

\* A full room that the operator has launched begins its game.
SalleComplete == nbJoueur = maxJoueur /\ etat = 1 /\ mpc # "tue" ~> mpc = "lance"

\* A player that has given its pseudo is answered: the main thread is waiting
\* for that very pseudo, whatever the other clients and the operator do.
PseudoRepondu ==
  \A c \in Clients : cpc[c] = "attente_ok" ~> cpc[c] \in {"pret", "ferme"} \/ mpc = "tue"

\* serveur.c:329 "Enter pour lancer la partie": once the operator's Enter has
\* been taken into account the game begins.
EntreeLance == etat = 1 ~> mpc = "lance"
=============================================================================
