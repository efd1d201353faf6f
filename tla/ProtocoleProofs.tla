--------------------------- MODULE ProtocoleProofs ---------------------------
(***************************************************************************)
(* Proofs that the two programs of a game stay in step, for any number of  *)
(* players and any sizes, when TCP hands the messages over one by one and  *)
(* the count of the boats starts at 0: without failures, and with any      *)
(* number of clients that die after the placement.                         *)
(***************************************************************************)
EXTENDS PartieProofs

\* The queue q holds one message, from M.
Un(q, M) == Len(q) = 1 /\ q[1] \in M

\* The queue q holds an answer from A, and a message from M behind it.
Deux(q, A, M) == Len(q) = 2 /\ q[1] \in A /\ q[2] \in M

\* The messages of the server with an id from I, the answers of a client and
\* its shots.
DId(I)  == {m \in MsgServeur : m.id \in I}
Acquits == {Ok, Recept}
Coups   == {Coup(c) : c \in Tirs}

\* The verdicts of the round end the game, for every player.
Finale == NbCoules(bateaux, nbBateau) \in {nbBateau, nbBateau - 1}
Sorts  == DId(IF Finale THEN {9, 10} ELSE {7, 8})

----------------------------------------------------------------------------
(***************************************************************************)
(* The stages of the dialogue with player i, as the server counts them.    *)
(* Each leaves open how far the client has come; only the server ends it.  *)
(***************************************************************************)

\* The client knows that it plays, and the connection is open.
Present(i) == conn[i] = "ouverte" /\ cetat[i] \in {"EN_JEU", "DEAD"}

\* The client waits for "go"; aims, or is about to send "mort"; has sent
\* either.
AttendGo(i) == cpc[i] = ApresPlateau(cetat[i])
Joue(i)     == cpc[i] = IF cetat[i] = "EN_JEU" THEN "jouer" ELSE "mort"
AJoue(i)    == cpc[i] = IF cetat[i] = "EN_JEU" THEN "coup_rep" ELSE "mort_rep"
CoupDe(i)   == IF cetat[i] = "EN_JEU" THEN Coups ELSE {Mort}

\* Registered: the acceptance is sent.
Inscrit(i) ==
  /\ Present(i) /\ c2s[i] = <<>>
  /\ \/ cpc[i] = "acceptation" /\ Un(s2c[i], {Ok})
     \/ cpc[i] = "infos" /\ s2c[i] = <<>>

\* The infos are sent, and not yet acknowledged to the server.
Avise(i) ==
  /\ Present(i)
  /\ \/ cpc[i] = "acceptation" /\ Deux(s2c[i], {Ok}, DId({4})) /\ c2s[i] = <<>>
     \/ cpc[i] = "infos" /\ Un(s2c[i], DId({4})) /\ c2s[i] = <<>>
     \/ cpc[i] = "ordre" /\ s2c[i] = <<>> /\ Un(c2s[i], Acquits)

\* The infos are acknowledged.
Informe(i) == Present(i) /\ cpc[i] = "ordre" /\ s2c[i] = <<>> /\ c2s[i] = <<>>

\* Player i has its boat at p.
Dessine(i, p) == bateau[i] = [j \in Segment |-> Position(p[1], p[2], p[3], j)]

\* The boat is asked for.
Demande(i) ==
  /\ Present(i)
  /\ \/ cpc[i] = "ordre" /\ Un(s2c[i], DId({3})) /\ c2s[i] = <<>>
     \/ cpc[i] = "placer" /\ s2c[i] = <<>> /\ c2s[i] = <<>>
     \/ /\ cpc[i] = "bateau_rep" /\ s2c[i] = <<>>
        /\ \E p \in Placements : Un(c2s[i], {Boat(p)}) /\ Dessine(i, p)

\* The boat is placed, or a round is over and another one will come.
Pret(i) ==
  /\ Present(i) /\ c2s[i] = <<>>
  /\ \/ cpc[i] = "bateau_rep" /\ Un(s2c[i], {Ok})
     \/ cpc[i] = "plateau" /\ s2c[i] = <<>>

\* The board is sent.
Montre(i) ==
  /\ Present(i)
  /\ \/ cpc[i] = "bateau_rep" /\ Deux(s2c[i], {Ok}, DId({2})) /\ c2s[i] = <<>>
     \/ cpc[i] = "plateau" /\ Un(s2c[i], DId({2})) /\ c2s[i] = <<>>
     \/ AttendGo(i) /\ s2c[i] = <<>> /\ Un(c2s[i], Acquits)

\* The board is acknowledged.
Voit(i) == Present(i) /\ AttendGo(i) /\ s2c[i] = <<>> /\ c2s[i] = <<>>

\* "go" is sent.
Appele(i) ==
  /\ Present(i)
  /\ \/ AttendGo(i) /\ Un(s2c[i], DId({5})) /\ c2s[i] = <<>>
     \/ Joue(i) /\ s2c[i] = <<>> /\ Un(c2s[i], Acquits)
     \/ AJoue(i) /\ s2c[i] = <<>> /\ Deux(c2s[i], Acquits, CoupDe(i))

\* "go" is acknowledged.
Vise(i) ==
  /\ Present(i) /\ s2c[i] = <<>>
  /\ \/ Joue(i) /\ c2s[i] = <<>>
     \/ AJoue(i) /\ Un(c2s[i], CoupDe(i))

\* The shot is answered.
Tire(i) ==
  /\ Present(i) /\ c2s[i] = <<>>
  /\ \/ AJoue(i) /\ Un(s2c[i], {Ok})
     \/ cpc[i] = "etat" /\ s2c[i] = <<>>

\* Where a client goes on after the verdict: the final screen, which its
\* player may leave, or the next round.
Ailleurs(i) ==
  IF Finale THEN <<cpc[i], conn[i] = "ouverte">> \in {<<"fin", TRUE>>, <<"ferme", FALSE>>}
            ELSE cpc[i] = "plateau" /\ Present(i)

\* The verdict is sent.
Juge(i) ==
  \/ /\ Present(i) /\ c2s[i] = <<>>
     /\ \/ AJoue(i) /\ Deux(s2c[i], {Ok}, Sorts)
        \/ cpc[i] = "etat" /\ Un(s2c[i], Sorts)
  \/ Ailleurs(i) /\ s2c[i] = <<>> /\ Un(c2s[i], Acquits)

\* The verdict is acknowledged.
Sait(i) == Ailleurs(i) /\ s2c[i] = <<>> /\ c2s[i] = <<>>

\* The stage the position of the server asks of player i.
Etape(i) ==
  /\ phase = "infos"       => IF i < idx THEN Informe(i) ELSE Inscrit(i)
  /\ phase = "infos_ack"   => IF i < idx THEN Informe(i)
                              ELSE IF i = idx THEN Avise(i) ELSE Inscrit(i)
  /\ phase = "bateaux"     => IF i < idx THEN Demande(i) ELSE Informe(i)
  /\ phase = "poll"        => IF i < idx THEN Pret(i) ELSE Demande(i)
  /\ phase = "pause"       => Pret(i)
  /\ phase = "plateau"     => IF i < idx THEN Voit(i) ELSE Pret(i)
  /\ phase = "plateau_ack" => IF i < idx THEN Voit(i)
                              ELSE IF i = idx THEN Montre(i) ELSE Pret(i)
  /\ phase = "go"          => IF i < idx THEN Vise(i) ELSE Voit(i)
  /\ phase = "go_ack"      => IF i < idx THEN Vise(i)
                              ELSE IF i = idx THEN Appele(i) ELSE Voit(i)
  /\ phase = "tir"         => IF i < idx THEN Tire(i) ELSE Vise(i)
  /\ phase = "verif"       => Tire(i)
  /\ phase = "etat"        => IF i < idx THEN Sait(i) ELSE Tire(i)
  /\ phase = "etat_ack"    => IF i < idx THEN Sait(i)
                              ELSE IF i = idx THEN Juge(i) ELSE Tire(i)
  /\ phase = "retour"      => Sait(i)
  /\ phase \notin {"tue", "egare"}

EnPas == \A i \in Joueurs : Etape(i)

----------------------------------------------------------------------------
(***************************************************************************)
(* After the verdicts that end the game the server goes on with the        *)
(* clients that are left, on their final screen, or gone.                  *)
(***************************************************************************)

Final(i) == cpc[i] = "fin" /\ conn[i] = "ouverte" /\ c2s[i] = <<>>
Parti(i) == cpc[i] = "ferme" /\ conn[i] # "ouverte" /\ s2c[i] = <<>> /\ c2s[i] = <<>>
Calme(i) == Parti(i) \/ (Final(i) /\ s2c[i] = <<>>)
Prevenu(i) == Parti(i) \/ (Final(i) /\ Un(s2c[i], DId({2})))

Apres(i) ==
  /\ phase \notin AvantJeu \cup {"pause", "egare"}
  /\ phase = "plateau"     => IF i < idx THEN Parti(i) ELSE Calme(i)
  /\ phase = "plateau_ack" => IF i < idx THEN Parti(i)
                              ELSE IF i = idx THEN Prevenu(i) ELSE Calme(i)
  /\ phase \in {"go", "go_ack", "tir", "verif", "etat", "etat_ack"} => Parti(i)
  /\ phase \in {"retour", "tue"} => Calme(i)

JeuFini == \A i \in Joueurs : Apres(i)

----------------------------------------------------------------------------
(***************************************************************************)
(* A client that has died since the placement: the server goes on with     *)
(* what it has left in the connection, and then with residues.             *)
(***************************************************************************)

Salves == Coups \cup {Mort}

\* What a dead client may have left: the acknowledgement the server is about
\* to read, and, from the moment it was called to the moment its turn comes,
\* its shot.
Reliquat(i) ==
  \/ c2s[i] = <<>>
  \/ phase \in {"plateau_ack", "go_ack", "etat_ack"} /\ i = idx /\ Un(c2s[i], Acquits)
  \/ phase = "go_ack" /\ i = idx /\ Deux(c2s[i], Acquits, Salves)
  \/ phase \in {"go", "go_ack"} /\ i < idx /\ Un(c2s[i], Salves)
  \/ phase = "tir" /\ ~(i < idx) /\ Un(c2s[i], Salves)

Ferme(i) == cpc[i] = "ferme" /\ conn[i] # "ouverte" /\ s2c[i] = <<>>

Eteint(i) == phase \notin AvantJeu \cup {"tue", "egare"} /\ Ferme(i) /\ Reliquat(i)

\* The game goes on with those that live.
EnCours == \A i \in Joueurs : Etape(i) \/ Eteint(i)

\* What is under way to client i: nothing, one message its code waits for, or
\* an answer it waits for and one of the server's messages behind it.
Descend(i) ==
  \/ s2c[i] = <<>>
  \/ Un(s2c[i], DId(AttenduClient(cpc[i])))
  \/ Deux(s2c[i], {Ok}, DId(2 .. 10)) /\ 0 \in AttenduClient(cpc[i])

\* What is under way to the server.
Monte(i) ==
  \/ c2s[i] = <<>>
  \/ Len(c2s[i]) = 1
  \/ Deux(c2s[i], Acquits, Salves)

\* The server has died of a write to a dead client; nothing moves any more.
Arret == phase = "tue" /\ \A i \in Joueurs : Descend(i) /\ Monte(i)

\* The loops: the ring of the boats visits the players once, in order, and
\* counts a boat of each; the slots beyond them are never polled.
Anneau ==
  /\ idx \in Joueurs
  /\ phase \in {"infos", "infos_ack", "bateaux"} => nbBateau = 0
  /\ phase = "poll" => nbRecu = idx /\ nbBateau = idx
  /\ phase \notin AvantJeu => nbBateau = nbJoueur
  /\ phase \in {"pause", "verif"} => idx = 0

\* A boat that was received is where its player has drawn it.
Flotte ==
  \A i \in Joueurs :
    (phase = "poll" /\ i < idx) \/ phase \notin AvantJeu =>
      \A j \in Segment : bateaux[i].cell[j].pos = bateau[i][j]

\* The network, and the memory the server starts from.
Fiable == Fusion = FALSE /\ nbBateauInit = {0}

\* The games without failures.
Sain == Fiable /\ Pannes = 0

\* Clients die after the placement only.
Tardif == phase \in AvantJeu => pannes = Pannes

\* The invariant of the games in which they do, and that of the others.
InvD == Anneau /\ Flotte /\ (EnCours \/ JeuFini \/ Arret)
InvP == pannes = 0 /\ Anneau /\ Flotte /\ (EnPas \/ JeuFini)

----------------------------------------------------------------------------
(***************************************************************************)
(* Queues.                                                                 *)
(***************************************************************************)

\* A message behind nothing, and behind an answer.
LEMMA AjoutUn ==
  ASSUME NEW S, NEW m \in S, NEW M, m \in M
  PROVE  Un(Append(<<>>, m), M)
  BY DEF Un

LEMMA AjoutDeux ==
  ASSUME NEW S, NEW q \in Seq(S), NEW A, Un(q, A), NEW m \in S, NEW M, m \in M
  PROVE  Deux(Append(q, m), A, M)
<1>1. Len(q) = 1 /\ 1 \in 1 .. Len(q) /\ Len(q) + 1 = 2
  BY DEF Un
<1>2. Len(Append(q, m)) = 2
  <2>1. Len(Append(q, m)) = Len(q) + 1
    BY AppendProperties
  <2> QED
    BY <1>1, <2>1, Zenon
<1>3. Append(q, m)[1] = q[1]
  <2>1. \A i \in 1 .. Len(q) : Append(q, m)[i] = q[i]
    BY AppendProperties
  <2> QED
    BY <1>1, <2>1, Zenon
<1>4. Append(q, m)[2] = m
  <2>1. Append(q, m)[Len(q) + 1] = m
    BY AppendProperties
  <2> QED
    BY <1>1, <2>1, Zenon
<1> QED
  BY <1>2, <1>3, <1>4 DEF Un, Deux

\* None of the two kinds of queue is empty.
LEMMA Exclusion ==
  ASSUME NEW q, NEW A, NEW M
  PROVE  /\ Un(q, M) => q # <<>>
         /\ Deux(q, A, M) => q # <<>>
  BY DEF Un, Deux

\* A read of one message leaves nothing; a read of an answer leaves the message
\* behind it; a read of nothing from an open connection does not return.
LEMMA LitUn ==
  ASSUME Fusion = FALSE, NEW S, NEW q \in Seq(S), NEW M, Un(q, M),
         NEW c, NEW R, NEW r \in Lecture(q, c, R)
  PROVE  r.m \in M /\ r.reste = <<>>
<1>1. q # <<>> /\ Len(q) = 1
  BY Exclusion DEF Un
<1>2. r = [m |-> Head(q), reste |-> SubSeq(q, 2, Len(q))]
  BY <1>1 DEF Lecture
<1>3. Head(q) = q[1]
  BY <1>1
<1>4. SubSeq(q, 2, Len(q)) = <<>>
  BY <1>1, SubSeqProperties, EmptySeq
<1> QED
  BY <1>2, <1>3, <1>4 DEF Un

LEMMA LitDeux ==
  ASSUME Fusion = FALSE, NEW S, NEW q \in Seq(S), NEW A, NEW M, Deux(q, A, M),
         NEW c, NEW R, NEW r \in Lecture(q, c, R)
  PROVE  r.m \in A /\ Un(r.reste, M)
<1>1. q # <<>> /\ Len(q) = 2
  BY Exclusion DEF Deux
<1>2. r = [m |-> Head(q), reste |-> SubSeq(q, 2, Len(q))]
  BY <1>1 DEF Lecture
<1>3. Head(q) = q[1]
  BY <1>1
<1>4. Len(SubSeq(q, 2, 2)) = 1 /\ SubSeq(q, 2, 2)[1] = q[2]
  BY <1>1
<1> QED
  BY <1>1, <1>2, <1>3, <1>4 DEF Un, Deux

LEMMA LitRien ==
  ASSUME NEW c, NEW R
  PROVE  /\ c = "ouverte" => Lecture(<<>>, c, R) = {}
         /\ \A r \in Lecture(<<>>, c, R) : r.reste = <<>> /\ r.m \in R
  BY DEF Lecture

----------------------------------------------------------------------------
(***************************************************************************)
(* The steps of the clients.                                               *)
(***************************************************************************)

\* A client reads one message, or the answer in front of another one.
LEMMA ClientLitUn ==
  ASSUME TypeOK, Fiable, NEW i \in Joueurs, NEW r \in Lectures(i), NEW suite,
         Lire(i, r, suite), NEW M, Un(s2c[i], M)
  PROVE  r.m \in M /\ s2c'[i] = <<>> /\ cpc'[i] = suite
<1>1. s2c[i] \in Seq(MsgServeur)
  BY DEF TypeOK
<1>2. r.m \in M /\ r.reste = <<>>
  BY <1>1, LitUn DEF Fiable, Lectures
<1> QED
  BY <1>2 DEF Lire, TypeOK

LEMMA ClientLitDeux ==
  ASSUME TypeOK, Fiable, NEW i \in Joueurs, NEW r \in Lectures(i), NEW suite,
         Lire(i, r, suite), NEW A, NEW M, Deux(s2c[i], A, M)
  PROVE  r.m \in A /\ Un(s2c'[i], M) /\ cpc'[i] = suite
<1>1. s2c[i] \in Seq(MsgServeur)
  BY DEF TypeOK
<1>2. r.m \in A /\ Un(r.reste, M)
  BY <1>1, LitDeux DEF Fiable, Lectures
<1> QED
  BY <1>2 DEF Lire, TypeOK

\* A client with nothing to read waits.
LEMMA ClientAttend ==
  ASSUME NEW i, s2c[i] = <<>> PROVE Lectures(i) = {}
  BY LitRien DEF Lectures

\* A client writes, behind nothing or behind its answer.
LEMMA ClientEcritUn ==
  ASSUME TypeOK, NEW i \in Joueurs, NEW M, NEW m \in M, m \in MsgClient,
         c2s[i] = <<>>, EnvoyerClient(i, m)
  PROVE  Un(c2s'[i], M)
  BY AjoutUn DEF EnvoyerClient, TypeOK

LEMMA ClientEcritDeux ==
  ASSUME TypeOK, NEW i \in Joueurs, NEW A, NEW M, NEW m \in M, m \in MsgClient,
         Un(c2s[i], A), EnvoyerClient(i, m)
  PROVE  Deux(c2s'[i], A, M)
<1>1. c2s[i] \in Seq(MsgClient) /\ c2s'[i] = Append(c2s[i], m)
  BY DEF EnvoyerClient, TypeOK
<1> QED
  BY <1>1, AjoutDeux

\* The position of a client decides which action it takes.
LEMMA Garde ==
  ASSUME TypeOK, NEW i \in Joueurs, Client(i), ~Panne(i)
  PROVE  /\ cpc[i] = "acceptation" => Acceptation(i)
         /\ cpc[i] = "infos" => AttentePartie(i)
         /\ cpc[i] = "ordre" => EnvoyerBateau(i)
         /\ cpc[i] = "placer" => MenuPlacerBateau(i)
         /\ cpc[i] = "bateau_rep" => BateauRep(i)
         /\ cpc[i] = "plateau" => RecevoirPlateau(i)
         /\ cpc[i] = "go" => JouerCoup(i)
         /\ cpc[i] = "jouer" => FinTimer(i)
         /\ cpc[i] = "coup_rep" => CoupRep(i)
         /\ cpc[i] = "go_mort" => GoMort(i)
         /\ cpc[i] = "mort" => EnvoyerMort(i)
         /\ cpc[i] = "mort_rep" => MortRep(i)
         /\ cpc[i] = "etat" => RecevoirEtat(i)
         /\ cpc[i] = "fin" => Quitter(i)
         /\ cpc[i] # "ferme"
<1>1. CASE ClientAuto(i)
  BY <1>1 DEF ClientAuto, Acceptation, AttentePartie, EnvoyerBateau, BateauRep,
              RecevoirPlateau, JouerCoup, FinTimer, CoupRep, GoMort, EnvoyerMort, MortRep,
              RecevoirEtat
<1>2. CASE MenuPlacerBateau(i) \/ Quitter(i)
  BY <1>2 DEF MenuPlacerBateau, Quitter
<1> QED
  BY <1>1, <1>2 DEF Client

\* What player j knows and what its connection holds is left as it is.
Intouche(j) ==
  /\ cpc'[j] = cpc[j] /\ cetat'[j] = cetat[j] /\ bateau'[j] = bateau[j]
  /\ s2c'[j] = s2c[j] /\ c2s'[j] = c2s[j] /\ conn'[j] = conn[j]

\* A step of a client touches nothing of the others and nothing of the server.
LEMMA ClientSeul ==
  ASSUME TypeOK, NEW i \in Joueurs, Client(i)
  PROVE  /\ UNCHANGED serveur /\ UNCHANGED plateau /\ (~Panne(i) => pannes' = pannes)
         /\ \A j \in Joueurs \ {i} : Intouche(j)
<1> USE DEF Intouche, TypeOK, serveur, plateau, Lire, EnvoyerClient
<1>1. CASE Acceptation(i) \/ EnvoyerBateau(i)
  BY <1>1 DEF Acceptation, EnvoyerBateau
<1>2. CASE AttentePartie(i)
  BY <1>2 DEF AttentePartie
<1>3. CASE MenuPlacerBateau(i)
  BY <1>3 DEF MenuPlacerBateau
<1>4. CASE BateauRep(i)
  BY <1>4 DEF BateauRep
<1>5. CASE RecevoirPlateau(i)
  BY <1>5 DEF RecevoirPlateau
<1>6. CASE JouerCoup(i) \/ FinTimer(i)
  BY <1>6 DEF JouerCoup, FinTimer
<1>7. CASE CoupRep(i) \/ MortRep(i)
  BY <1>7 DEF CoupRep, MortRep
<1>8. CASE GoMort(i) \/ EnvoyerMort(i)
  BY <1>8 DEF GoMort, EnvoyerMort
<1>9. CASE RecevoirEtat(i)
  BY <1>9 DEF RecevoirEtat
<1>10. CASE Quitter(i)
  BY <1>10 DEF Quitter, Fermer
<1>11. CASE Panne(i)
  BY <1>11 DEF Panne, Fermer
<1> QED
  BY <1>1, <1>2, <1>3, <1>4, <1>5, <1>6, <1>7, <1>8, <1>9, <1>10, <1>11 DEF Client, ClientAuto

----------------------------------------------------------------------------
(***************************************************************************)
(* A step of a client leaves it at its stage of the dialogue.              *)
(***************************************************************************)

\* The ids and kinds of the messages.
LEMMA Messages ==
  /\ Ok.id = 0 /\ Ok \in Acquits /\ Recept \in Acquits
  /\ \A m \in Acquits : m.id = 0
  /\ Ok \in MsgClient /\ Recept \in MsgClient /\ Mort \in MsgClient /\ Ok \in MsgServeur
  /\ \A p \in Placements : Boat(p) \in MsgClient
  /\ \A c \in Tirs : Coup(c) \in MsgClient
  BY EmptySeq DEF Ok, Recept, Mort, Req, Acquits, MsgClient, MsgServeur

LEMMA InscritClient ==
  ASSUME TypeOK, Fiable, NEW i \in Joueurs, Client(i), ~Panne(i), Inscrit(i)
  PROVE  Inscrit(i)'
<1>1. CASE cpc[i] = "acceptation"
  <2>1. PICK r \in Lectures(i) : Lire(i, r, IF r.m.id = 0 THEN "infos" ELSE "sortie")
    BY <1>1, Garde DEF Acceptation
  <2>2. Un(s2c[i], {Ok})
    BY <1>1 DEF Inscrit
  <2>3. PICK suite : suite = (IF r.m.id = 0 THEN "infos" ELSE "sortie") /\ Lire(i, r, suite)
    BY <2>1
  <2>4. r.m \in {Ok} /\ s2c'[i] = <<>> /\ cpc'[i] = suite
    BY <2>2, <2>3, ClientLitUn
  <2> QED
    BY <1>1, <2>3, <2>4, Garde, Messages DEF Acceptation, Inscrit, Present
<1>2. CASE cpc[i] = "infos"
  BY <1>2, Garde, ClientAttend DEF AttentePartie, Inscrit
<1> QED
  BY <1>1, <1>2 DEF Inscrit

LEMMA AviseClient ==
  ASSUME TypeOK, Fiable, NEW i \in Joueurs, Client(i), ~Panne(i), Avise(i)
  PROVE  Avise(i)'
<1>1. CASE cpc[i] = "acceptation"
  <2>1. PICK r \in Lectures(i) : Lire(i, r, IF r.m.id = 0 THEN "infos" ELSE "sortie")
    BY <1>1, Garde DEF Acceptation
  <2>2. Deux(s2c[i], {Ok}, DId({4}))
    BY <1>1 DEF Avise
  <2>3. /\ r.m = Ok /\ Un(s2c'[i], DId({4}))
        /\ cpc'[i] = IF r.m.id = 0 THEN "infos" ELSE "sortie"
    BY <2>1, <2>2, ClientLitDeux
  <2> QED
    BY <1>1, <2>3, Garde, Messages DEF Acceptation, Avise, Present, DId
<1>2. CASE cpc[i] = "infos"
  <2>1. PICK r \in Lectures(i) :
          IF r.m.id = 4
          THEN /\ Lire(i, r, "ordre")
               /\ EnvoyerClient(i, Ok)
               /\ vue' = [vue EXCEPT ![i] = [c \in Case |-> "EMPTY"]]
          ELSE Lire(i, r, "sortie") /\ UNCHANGED <<c2s, vue>>
    BY <1>2, Garde DEF AttentePartie
  <2>2. Un(s2c[i], DId({4})) /\ c2s[i] = <<>>
    BY <1>2 DEF Avise
  <2>3. r.m.id = 4 /\ s2c'[i] = <<>>
    BY <2>1, <2>2, ClientLitUn DEF DId
  <2>4. cpc'[i] = "ordre"
    BY <2>1, <2>3 DEF Lire, TypeOK
  <2>5. Un(c2s'[i], Acquits)
    BY <2>1, <2>2, <2>3, ClientEcritUn, Messages
  <2> QED
    BY <1>2, <2>3, <2>4, <2>5, Garde DEF AttentePartie, Avise, Present
<1>3. CASE cpc[i] = "ordre"
  BY <1>3, Garde, ClientAttend DEF EnvoyerBateau, Avise
<1> QED
  BY <1>1, <1>2, <1>3 DEF Avise

LEMMA InformeClient ==
  ASSUME TypeOK, NEW i \in Joueurs, Client(i), ~Panne(i), Informe(i)
  PROVE  Informe(i)'
  BY Garde, ClientAttend DEF EnvoyerBateau, Informe

LEMMA DemandeClient ==
  ASSUME TypeOK, Fiable, NEW i \in Joueurs, Client(i), ~Panne(i), Demande(i)
  PROVE  Demande(i)'
<1>1. CASE cpc[i] = "ordre"
  <2>1. PICK r \in Lectures(i) : Lire(i, r, IF r.m.id = 3 THEN "placer" ELSE "sortie")
    BY <1>1, Garde DEF EnvoyerBateau
  <2>2. Un(s2c[i], DId({3}))
    BY <1>1 DEF Demande
  <2>3. /\ r.m \in DId({3}) /\ s2c'[i] = <<>>
        /\ cpc'[i] = IF r.m.id = 3 THEN "placer" ELSE "sortie"
    BY <2>1, <2>2, ClientLitUn
  <2> QED
    BY <1>1, <2>3, Garde DEF EnvoyerBateau, Demande, Present, DId
<1>2. CASE cpc[i] = "placer"
  <2>1. PICK p \in Placements :
          /\ bateau' = [bateau EXCEPT ![i] = [j \in Segment |-> Position(p[1], p[2], p[3], j)]]
          /\ EnvoyerClient(i, Boat(p))
    BY <1>2, Garde DEF MenuPlacerBateau
  <2>2. c2s[i] = <<>>
    BY <1>2 DEF Demande
  <2>3. Un(c2s'[i], {Boat(p)})
    BY <2>1, <2>2, ClientEcritUn, Messages
  <2>4. Dessine(i, p)'
    BY <2>1 DEF Dessine, TypeOK
  <2>5. cpc'[i] = "bateau_rep" /\ s2c' = s2c /\ conn' = conn /\ cetat' = cetat
    BY <1>2, Garde DEF MenuPlacerBateau, TypeOK
  <2> QED
    BY <1>2, <2>3, <2>4, <2>5 DEF Demande, Present
<1>3. CASE cpc[i] = "bateau_rep"
  BY <1>3, Garde, ClientAttend DEF BateauRep, Demande
<1> QED
  BY <1>1, <1>2, <1>3 DEF Demande

LEMMA PretClient ==
  ASSUME TypeOK, Fiable, NEW i \in Joueurs, Client(i), ~Panne(i), Pret(i)
  PROVE  Pret(i)'
<1>1. CASE cpc[i] = "bateau_rep"
  <2>1. PICK r \in Lectures(i) :
          IF r.m.id = 0
          THEN Lire(i, r, "plateau") /\ cetat' = [cetat EXCEPT ![i] = "EN_JEU"]
          ELSE Lire(i, r, "placer") /\ UNCHANGED cetat
    BY <1>1, Garde DEF BateauRep
  <2>2. Un(s2c[i], {Ok})
    BY <1>1 DEF Pret
  <2>3. r.m \in {Ok}
    BY <2>1, <2>2, ClientLitUn
  <2>4. Lire(i, r, "plateau") /\ cetat' = [cetat EXCEPT ![i] = "EN_JEU"]
    BY <2>1, <2>3, Messages
  <2>5. s2c'[i] = <<>> /\ cpc'[i] = "plateau" /\ cetat'[i] = "EN_JEU"
    BY <2>2, <2>4, ClientLitUn DEF TypeOK
  <2> QED
    BY <1>1, <2>5, Garde DEF BateauRep, Pret, Present
<1>2. CASE cpc[i] = "plateau"
  BY <1>2, Garde, ClientAttend DEF RecevoirPlateau, Pret
<1> QED
  BY <1>1, <1>2 DEF Pret

\* The board: the client reads it and goes on to its "go".
LEMMA MontreClient ==
  ASSUME TypeOK, Fiable, NEW i \in Joueurs, Client(i), ~Panne(i), Montre(i)
  PROVE  Montre(i)'
<1>1. CASE cpc[i] = "bateau_rep"
  <2>1. PICK r \in Lectures(i) :
          IF r.m.id = 0
          THEN Lire(i, r, "plateau") /\ cetat' = [cetat EXCEPT ![i] = "EN_JEU"]
          ELSE Lire(i, r, "placer") /\ UNCHANGED cetat
    BY <1>1, Garde DEF BateauRep
  <2>2. Deux(s2c[i], {Ok}, DId({2})) /\ c2s[i] = <<>>
    BY <1>1 DEF Montre, AttendGo, ApresPlateau
  <2>3. r.m \in {Ok}
    BY <2>1, <2>2, ClientLitDeux
  <2>4. Lire(i, r, "plateau") /\ cetat' = [cetat EXCEPT ![i] = "EN_JEU"]
    BY <2>1, <2>3, Messages
  <2>5. Un(s2c'[i], DId({2})) /\ cpc'[i] = "plateau" /\ cetat'[i] = "EN_JEU"
    BY <2>2, <2>4, ClientLitDeux DEF TypeOK
  <2> QED
    BY <1>1, <2>2, <2>5, Garde DEF BateauRep, Montre, Present, DId
<1>2. CASE cpc[i] = "plateau"
  <2>1. PICK r \in Lectures(i) :
          /\ Lire(i, r, ApresPlateau(cetat[i]))
          /\ IF r.m.id = 2
             THEN /\ EnvoyerClient(i, Ok)
                  /\ \E reste \in Reste(r.m.infos) :
                       vue' = [vue EXCEPT ![i] = DecoderPlateau(r.m.infos, bateau[i], reste)]
             ELSE UNCHANGED <<c2s, vue>>
    BY <1>2, Garde DEF RecevoirPlateau
  <2>2. Un(s2c[i], DId({2})) /\ c2s[i] = <<>>
    BY <1>2 DEF Montre, AttendGo, ApresPlateau
  <2>3. r.m \in DId({2}) /\ s2c'[i] = <<>> /\ cpc'[i] = ApresPlateau(cetat[i])
    BY <2>1, <2>2, ClientLitUn
  <2>4. Un(c2s'[i], Acquits)
    BY <2>1, <2>2, <2>3, ClientEcritUn, Messages DEF DId
  <2> QED
    BY <1>2, <2>3, <2>4, Garde DEF RecevoirPlateau, Montre, AttendGo, Present
<1>3. CASE AttendGo(i) /\ s2c[i] = <<>>
  BY <1>3, Garde, ClientAttend DEF JouerCoup, GoMort, AttendGo, ApresPlateau
<1> QED
  BY <1>1, <1>2, <1>3 DEF Montre

LEMMA VoitClient ==
  ASSUME TypeOK, NEW i \in Joueurs, Client(i), ~Panne(i), Voit(i)
  PROVE  Voit(i)'
  BY Garde, ClientAttend DEF JouerCoup, GoMort, AttendGo, ApresPlateau, Voit

\* The client sends its shot, or "mort".
LEMMA JoueClient ==
  ASSUME TypeOK, NEW i \in Joueurs, Client(i), ~Panne(i), Joue(i)
  PROVE  /\ UNCHANGED <<cetat, s2c, conn>> /\ AJoue(i)'
         /\ c2s[i] = <<>> => Un(c2s'[i], CoupDe(i))
         /\ \A A : Un(c2s[i], A) => Deux(c2s'[i], A, CoupDe(i))
<1>1. CASE cetat[i] = "EN_JEU"
  <2>1. PICK c \in Tirs : EnvoyerClient(i, Coup(c))
    BY <1>1, Garde DEF FinTimer, Joue
  <2>2. Coup(c) \in CoupDe(i) /\ Coup(c) \in MsgClient
    BY <1>1, Messages DEF CoupDe, Coups
  <2>3. UNCHANGED <<cetat, s2c, conn>> /\ AJoue(i)'
    BY <1>1, Garde DEF FinTimer, Joue, AJoue, TypeOK
  <2> QED
    BY <2>1, <2>2, <2>3, ClientEcritUn, ClientEcritDeux
<1>2. CASE cetat[i] # "EN_JEU"
  <2>1. EnvoyerClient(i, Mort)
    BY <1>2, Garde DEF EnvoyerMort, Joue
  <2>2. Mort \in CoupDe(i) /\ Mort \in MsgClient
    BY <1>2, Messages DEF CoupDe
  <2>3. UNCHANGED <<cetat, s2c, conn>> /\ AJoue(i)'
    BY <1>2, Garde DEF EnvoyerMort, Joue, AJoue, TypeOK
  <2> QED
    BY <2>1, <2>2, <2>3, ClientEcritUn, ClientEcritDeux
<1> QED
  BY <1>1, <1>2

LEMMA AppeleClient ==
  ASSUME TypeOK, Fiable, NEW i \in Joueurs, Client(i), ~Panne(i), Appele(i)
  PROVE  Appele(i)'
<1>1. CASE AttendGo(i)
  <2>1. Un(s2c[i], DId({5})) /\ c2s[i] = <<>> /\ Present(i)
    BY <1>1 DEF Appele, AttendGo, ApresPlateau, Joue, AJoue
  <2>2. CASE cetat[i] = "EN_JEU"
    <3>1. PICK r \in Lectures(i) :
            IF r.m.id = 5 THEN Lire(i, r, "jouer") /\ EnvoyerClient(i, Ok)
                          ELSE Lire(i, r, "etat") /\ UNCHANGED c2s
      BY <1>1, <2>2, Garde DEF JouerCoup, AttendGo, ApresPlateau
    <3>2. r.m \in DId({5})
      BY <2>1, <3>1, ClientLitUn
    <3>3. Lire(i, r, "jouer") /\ EnvoyerClient(i, Ok)
      BY <3>1, <3>2 DEF DId
    <3>4. s2c'[i] = <<>> /\ cpc'[i] = "jouer"
      BY <2>1, <3>3, ClientLitUn
    <3>5. Un(c2s'[i], Acquits)
      BY <2>1, <3>3, ClientEcritUn, Messages
    <3>6. UNCHANGED <<cetat, conn>>
      BY <1>1, <2>2, Garde DEF JouerCoup, AttendGo, ApresPlateau
    <3> QED
      BY <2>1, <2>2, <3>4, <3>5, <3>6 DEF Appele, Joue, Present
  <2>3. CASE cetat[i] # "EN_JEU"
    <3>1. PICK r \in Lectures(i) : Lire(i, r, "mort")
      BY <1>1, <2>3, Garde DEF GoMort, AttendGo, ApresPlateau
    <3>2. EnvoyerClient(i, Recept) /\ UNCHANGED <<cetat, conn>>
      BY <1>1, <2>3, Garde DEF GoMort, AttendGo, ApresPlateau
    <3>3. s2c'[i] = <<>> /\ cpc'[i] = "mort"
      BY <2>1, <3>1, ClientLitUn
    <3>4. Un(c2s'[i], Acquits)
      BY <2>1, <3>2, ClientEcritUn, Messages
    <3> QED
      BY <2>1, <2>3, <3>2, <3>3, <3>4 DEF Appele, Joue, Present
  <2> QED
    BY <2>2, <2>3
<1>2. CASE Joue(i)
  <2>1. Un(c2s[i], Acquits) /\ s2c[i] = <<>> /\ Present(i)
    BY <1>2 DEF Appele, AttendGo, ApresPlateau, Joue, AJoue
  <2>2. Deux(c2s'[i], Acquits, CoupDe(i))
    BY <1>2, <2>1, JoueClient
  <2>3. CoupDe(i)' = CoupDe(i)
    BY <1>2, JoueClient DEF CoupDe, Coups
  <2> QED
    BY <1>2, <2>1, <2>2, <2>3, JoueClient DEF Appele, Present
<1>3. CASE AJoue(i)
  <2>1. s2c[i] = <<>>
    BY <1>3 DEF Appele, AttendGo, ApresPlateau, Joue, AJoue
  <2> QED
    BY <1>3, <2>1, Garde, ClientAttend DEF CoupRep, MortRep, AJoue
<1> QED
  BY <1>1, <1>2, <1>3 DEF Appele

LEMMA ViseClient ==
  ASSUME TypeOK, Fiable, NEW i \in Joueurs, Client(i), ~Panne(i), Vise(i)
  PROVE  Vise(i)'
<1>1. CASE Joue(i)
  <2>1. c2s[i] = <<>> /\ s2c[i] = <<>> /\ Present(i)
    BY <1>1 DEF Vise, Joue, AJoue
  <2>2. Un(c2s'[i], CoupDe(i))
    BY <1>1, <2>1, JoueClient
  <2>3. CoupDe(i)' = CoupDe(i)
    BY <1>1, JoueClient DEF CoupDe, Coups
  <2> QED
    BY <1>1, <2>1, <2>2, <2>3, JoueClient DEF Vise, Present
<1>2. CASE AJoue(i)
  BY <1>2, Garde, ClientAttend DEF CoupRep, MortRep, AJoue, Vise
<1> QED
  BY <1>1, <1>2 DEF Vise

LEMMA TireClient ==
  ASSUME TypeOK, Fiable, NEW i \in Joueurs, Client(i), ~Panne(i), Tire(i)
  PROVE  Tire(i)'
<1>1. CASE AJoue(i)
  <2>1. PICK r \in Lectures(i) : Lire(i, r, "etat")
    BY <1>1, Garde DEF CoupRep, MortRep, AJoue
  <2>2. UNCHANGED <<cetat, c2s, conn>>
    BY <1>1, Garde DEF CoupRep, MortRep, AJoue
  <2>3. Un(s2c[i], {Ok})
    BY <1>1 DEF Tire, AJoue
  <2>4. s2c'[i] = <<>> /\ cpc'[i] = "etat"
    BY <2>1, <2>3, ClientLitUn
  <2> QED
    BY <2>2, <2>4 DEF Tire, Present
<1>2. CASE cpc[i] = "etat"
  BY <1>2, Garde, ClientAttend DEF RecevoirEtat, Tire, AJoue
<1> QED
  BY <1>1, <1>2 DEF Tire

\* A player leaves the final screen.
LEMMA QuitterClient ==
  ASSUME TypeOK, NEW i \in Joueurs, Quitter(i)
  PROVE  /\ cpc'[i] = "ferme" /\ conn'[i] # "ouverte" /\ s2c'[i] = <<>>
         /\ UNCHANGED <<cetat, c2s, plateau>>
  BY DEF Quitter, Fermer, TypeOK

\* What decides the verdicts does not change as long as the boats do not.
LEMMA FinaleFixe == UNCHANGED plateau => (Finale' <=> Finale) /\ Sorts' = Sorts
  BY DEF plateau, Finale, Sorts, DId

\* After the verdict.
LEMMA AilleursClient ==
  ASSUME TypeOK, NEW i \in Joueurs, Client(i), ~Panne(i), Ailleurs(i), s2c[i] = <<>>
  PROVE  Ailleurs(i)' /\ s2c'[i] = <<>> /\ c2s' = c2s
<1>1. UNCHANGED plateau /\ (Finale' <=> Finale)
  BY ClientSeul, FinaleFixe
<1>2. CASE Finale
  <2>1. Quitter(i)
    BY <1>2, Garde DEF Ailleurs
  <2> QED
    BY <1>1, <1>2, <2>1, QuitterClient DEF Ailleurs
<1>3. CASE ~Finale
  BY <1>3, Garde, ClientAttend DEF Ailleurs, RecevoirPlateau
<1> QED
  BY <1>2, <1>3

LEMMA JugeClient ==
  ASSUME TypeOK, Fiable, NEW i \in Joueurs, Client(i), ~Panne(i), Juge(i)
  PROVE  Juge(i)'
<1>0. (Finale' <=> Finale) /\ Sorts' = Sorts
  BY ClientSeul, FinaleFixe
<1>1. CASE AJoue(i) /\ Present(i)
  <2>1. PICK r \in Lectures(i) : Lire(i, r, "etat")
    BY <1>1, Garde DEF CoupRep, MortRep, AJoue
  <2>2. UNCHANGED <<cetat, c2s, conn>>
    BY <1>1, Garde DEF CoupRep, MortRep, AJoue
  <2>3. Deux(s2c[i], {Ok}, Sorts) /\ c2s[i] = <<>>
    BY <1>1 DEF Juge, AJoue, Ailleurs
  <2>4. Un(s2c'[i], Sorts) /\ cpc'[i] = "etat"
    BY <2>1, <2>3, ClientLitDeux
  <2> QED
    BY <1>0, <1>1, <2>2, <2>3, <2>4 DEF Juge, Present
<1>2. CASE cpc[i] = "etat"
  <2>1. PICK r \in Lectures(i) :
          LET e == EtatApres(cetat[i], r.m.id)
          IN  /\ Lire(i, r, IF e \in {"FIN_WIN", "FIN_LOSE"} THEN "fin" ELSE "plateau")
              /\ cetat' = [cetat EXCEPT ![i] = e]
              /\ IF r.m.id \in 7 .. 10 THEN EnvoyerClient(i, Ok) ELSE UNCHANGED c2s
    BY <1>2, Garde DEF RecevoirEtat
  <2> DEFINE e == EtatApres(cetat[i], r.m.id)
             suite == IF e \in {"FIN_WIN", "FIN_LOSE"} THEN "fin" ELSE "plateau"
  <2>2. Un(s2c[i], Sorts) /\ c2s[i] = <<>> /\ Present(i)
    BY <1>2 DEF Juge, AJoue, Ailleurs
  <2>3. Lire(i, r, suite)
    BY <2>1
  <2> HIDE DEF suite
  <2>4. r.m \in Sorts /\ s2c'[i] = <<>> /\ cpc'[i] = suite
    BY <2>2, <2>3, ClientLitUn
  <2>5. /\ Finale  => r.m.id \in {9, 10}
        /\ ~Finale => r.m.id \in {7, 8}
    BY <2>4 DEF Sorts, DId
  <2>6. Un(c2s'[i], Acquits)
    BY <2>1, <2>2, <2>5, ClientEcritUn, Messages
  <2>7. /\ Finale  => e \in {"FIN_WIN", "FIN_LOSE"}
        /\ ~Finale => e \in {"EN_JEU", "DEAD"}
    BY <2>2, <2>5 DEF EtatApres, Present
  <2>8. conn' = conn /\ cetat'[i] = e
    BY <1>2, <2>1, Garde DEF RecevoirEtat, TypeOK
  <2>9. Ailleurs(i)'
    BY <1>0, <2>2, <2>4, <2>7, <2>8 DEF Ailleurs, Present, suite
  <2> QED
    BY <2>4, <2>6, <2>9 DEF Juge
<1>3. CASE Ailleurs(i) /\ s2c[i] = <<>>
  <2>1. Un(c2s[i], Acquits)
    BY <1>3, Exclusion DEF Juge, AJoue, Ailleurs
  <2> QED
    BY <1>3, <2>1, AilleursClient DEF Juge
<1> QED
  BY <1>1, <1>2, <1>3 DEF Juge

LEMMA SaitClient ==
  ASSUME TypeOK, NEW i \in Joueurs, Client(i), ~Panne(i), Sait(i)
  PROVE  Sait(i)'
  BY AilleursClient DEF Sait

----------------------------------------------------------------------------
(***************************************************************************)
(* All players together: a step of one client.                             *)
(***************************************************************************)

\* A player that is left alone stays at its stage; for the last three also
\* the boats are left alone.
LEMMA Fige ==
  ASSUME NEW j, Intouche(j)
  PROVE  /\ Inscrit(j) => Inscrit(j)'
         /\ Avise(j) => Avise(j)'
         /\ Informe(j) => Informe(j)'
         /\ Demande(j) => Demande(j)'
         /\ Pret(j) => Pret(j)'
         /\ Montre(j) => Montre(j)'
         /\ Voit(j) => Voit(j)'
         /\ Appele(j) => Appele(j)'
         /\ Vise(j) => Vise(j)'
         /\ Tire(j) => Tire(j)'
         /\ UNCHANGED plateau => (Juge(j) => Juge(j)') /\ (Sait(j) => Sait(j)')
         /\ Parti(j) => Parti(j)'
         /\ Calme(j) => Calme(j)'
         /\ Prevenu(j) => Prevenu(j)'
<1> USE DEF Intouche, Present
<1>1. Inscrit(j) => Inscrit(j)'
  BY DEF Inscrit
<1>2. Avise(j) => Avise(j)'
  BY DEF Avise, DId
<1>3. Informe(j) => Informe(j)'
  BY DEF Informe
<1>4. Demande(j) => Demande(j)'
  BY DEF Demande, DId, Dessine
<1>5. Pret(j) => Pret(j)'
  BY DEF Pret
<1>6. Montre(j) => Montre(j)'
  BY DEF Montre, DId, AttendGo
<1>7. Voit(j) => Voit(j)'
  BY DEF Voit, AttendGo
<1>8. Appele(j) => Appele(j)'
  BY DEF Appele, AttendGo, Joue, AJoue, CoupDe, Coups, DId
<1>9. Vise(j) => Vise(j)'
  BY DEF Vise, Joue, AJoue, CoupDe, Coups
<1>10. Tire(j) => Tire(j)'
  BY DEF Tire, AJoue
<1>11. UNCHANGED plateau => (Juge(j) => Juge(j)') /\ (Sait(j) => Sait(j)')
  BY FinaleFixe DEF Juge, Sait, Ailleurs, AJoue
<1>12. Parti(j) => Parti(j)'
  BY DEF Parti
<1>13. Calme(j) => Calme(j)'
  BY DEF Calme, Parti, Final
<1>14. Prevenu(j) => Prevenu(j)'
  BY DEF Prevenu, Parti, Final, DId
<1> QED
  BY <1>1, <1>2, <1>3, <1>4, <1>5, <1>6, <1>7, <1>8, <1>9, <1>10, <1>11, <1>12, <1>13, <1>14

\* Whoever takes a step, a player stays at its stage.
LEMMA EtapeClient ==
  ASSUME TypeOK, Fiable, NEW i \in Joueurs, Client(i), ~Panne(i), NEW j \in Joueurs, Etape(j)
  PROVE  Etape(j)'
<1>1. UNCHANGED <<phase, idx>> /\ UNCHANGED plateau
  BY ClientSeul DEF serveur
<1>2. CASE j # i
  <2>1. Intouche(j)
    BY <1>2, ClientSeul
  <2> QED
    BY <1>1, <2>1, Fige DEF Etape
<1>3. CASE j = i
  BY <1>1, <1>3, InscritClient, AviseClient, InformeClient, DemandeClient, PretClient,
     MontreClient, VoitClient, AppeleClient, ViseClient, TireClient, JugeClient, SaitClient
  DEF Etape
<1> QED
  BY <1>2, <1>3

\* A client that dies leaves behind what it had sent.
LEMMA PanneSeule ==
  ASSUME TypeOK, NEW i \in Joueurs, Panne(i)
  PROVE  Ferme(i)' /\ c2s' = c2s /\ UNCHANGED <<phase, idx>>
  BY DEF Panne, Fermer, Ferme, TypeOK, serveur

LEMMA PanneReliquat ==
  ASSUME TypeOK, NEW i \in Joueurs, phase \notin AvantJeu, Etape(i)
  PROVE  Reliquat(i)
<1>1. CoupDe(i) \subseteq Salves
  BY DEF CoupDe, Salves
<1>2. CASE Pret(i) \/ Voit(i) \/ Tire(i) \/ Sait(i)
  BY <1>2 DEF Pret, Voit, Tire, Sait, Reliquat
<1>3. CASE Montre(i) /\ phase = "plateau_ack" /\ i = idx
  BY <1>3 DEF Montre, Reliquat
<1>4. CASE Appele(i) /\ phase = "go_ack" /\ i = idx
  BY <1>1, <1>4 DEF Appele, Reliquat, Deux
<1>5. CASE Vise(i) /\ ((phase \in {"go", "go_ack"} /\ i < idx) \/ (phase = "tir" /\ ~(i < idx)))
  BY <1>1, <1>5 DEF Vise, Reliquat, Un
<1>6. CASE Juge(i) /\ phase = "etat_ack" /\ i = idx
  BY <1>6 DEF Juge, Reliquat
<1> QED
  BY <1>2, <1>3, <1>4, <1>5, <1>6 DEF Etape, AvantJeu, TypeOK, Phases

\* One that is dead does nothing.
LEMMA EteintFige ==
  ASSUME NEW j, Intouche(j), UNCHANGED <<phase, idx>>, Eteint(j)
  PROVE  Eteint(j)'
  BY DEF Intouche, Eteint, Ferme, Reliquat, Salves, Coups

LEMMA EteintClient ==
  ASSUME TypeOK, NEW i \in Joueurs, Client(i), NEW j \in Joueurs, Eteint(j)
  PROVE  Eteint(j)'
<1>1. j # i
  BY Garde DEF Panne, Eteint, Ferme
<1> QED
  BY <1>1, ClientSeul, EteintFige DEF serveur

LEMMA EnCoursClient ==
  ASSUME TypeOK, Fiable, NEW i \in Joueurs, Client(i), Panne(i) => phase \notin AvantJeu, EnCours
  PROVE  EnCours'
<1> SUFFICES ASSUME NEW j \in Joueurs, Etape(j), Panne(i)
             PROVE  Etape(j)' \/ Eteint(j)'
  BY EtapeClient, EteintClient DEF EnCours
<1>1. UNCHANGED <<phase, idx>> /\ UNCHANGED plateau
  BY ClientSeul DEF serveur
<1>2. CASE j # i
  <2>1. Intouche(j)
    BY <1>2, ClientSeul
  <2> QED
    BY <1>1, <2>1, Fige DEF Etape
<1>3. CASE j = i
  <2>1. phase \notin AvantJeu \cup {"tue", "egare"}
    BY DEF Etape
  <2>2. Reliquat(j)'
    BY <1>3, <2>1, PanneSeule, PanneReliquat DEF Reliquat, Salves, Coups
  <2> QED
    BY <1>3, <2>1, <2>2, PanneSeule DEF Eteint
<1> QED
  BY <1>2, <1>3

\* After the end a client can only leave, or die.
LEMMA JeuFiniClient ==
  ASSUME TypeOK, NEW i \in Joueurs, Client(i), JeuFini
  PROVE  JeuFini'
<1>1. UNCHANGED <<phase, idx>>
  BY ClientSeul DEF serveur
<1>2. ASSUME NEW j \in Joueurs, j # i PROVE Apres(j)'
  <2>1. Apres(j) /\ Intouche(j)
    BY <1>2, ClientSeul DEF JeuFini
  <2> QED
    BY <1>1, <2>1, Fige DEF Apres
<1>3. Apres(i)'
  <2>1. Apres(i)
    BY DEF JeuFini
  <2>2. Parti(i) \/ Final(i)
    BY <2>1 DEF TypeOK, Phases, AvantJeu, Apres, Calme, Prevenu
  <2>3. cpc[i] # "ferme"
    BY Garde DEF Panne
  <2>4. cpc[i] = "fin" /\ c2s[i] = <<>> /\ ~Parti(i)
    BY <2>2, <2>3 DEF Parti, Final
  <2>5. Quitter(i) \/ Panne(i)
    BY <2>4, Garde
  <2>6. Parti(i)'
    BY <2>4, <2>5, QuitterClient, PanneSeule DEF Parti, Ferme
  <2> QED
    BY <1>1, <2>1, <2>4, <2>6 DEF Apres, Calme, Prevenu
<1> QED
  BY <1>2, <1>3 DEF JeuFini

\* A boat is drawn while it is asked for, and not changed after that.
LEMMA BateauClient ==
  ASSUME TypeOK, Fiable, NEW i \in Joueurs, Client(i), EnCours \/ JeuFini,
         (phase = "poll" /\ i < idx) \/ phase \notin AvantJeu
  PROVE  bateau' = bateau
<1>1. cpc[i] # "placer"
  <2>1. CASE EnCours
    <3>1. Etape(i) \/ cpc[i] = "ferme"
      BY <2>1 DEF EnCours, Eteint, Ferme
    <3> QED
      BY <3>1 DEF TypeOK, Phases, Etape, AvantJeu, Pret, Montre, Voit, Appele,
                  Vise, Tire, Juge, Sait, Ailleurs, AttendGo, ApresPlateau, Joue, AJoue
  <2>2. CASE JeuFini
    <3>1. Apres(i)
      BY <2>2 DEF JeuFini
    <3> QED
      BY <3>1 DEF TypeOK, Phases, AvantJeu, Apres, Calme, Prevenu, Parti, Final
  <2> QED
    BY <2>1, <2>2
<1>2. ~MenuPlacerBateau(i)
  BY <1>1 DEF MenuPlacerBateau
<1>3. CASE Quitter(i) \/ Panne(i)
  BY <1>3 DEF Quitter, Panne
<1>4. CASE ClientAuto(i)
  BY <1>4 DEF ClientAuto, Acceptation, AttentePartie, EnvoyerBateau, BateauRep,
              RecevoirPlateau, JouerCoup, FinTimer, CoupRep, GoMort, EnvoyerMort, MortRep,
              RecevoirEtat
<1> QED
  BY <1>2, <1>3, <1>4 DEF Client

LEMMA FlotteClient ==
  ASSUME TypeOK, Fiable, EnCours \/ JeuFini, Anneau, Flotte, NEW i \in Joueurs, Client(i)
  PROVE  Anneau' /\ Flotte'
<1>1. UNCHANGED <<phase, idx, nbRecu>> /\ UNCHANGED plateau
  BY ClientSeul DEF serveur
<1>2. Anneau'
  BY <1>1 DEF Anneau, plateau
<1>3. Flotte'
  <2> SUFFICES ASSUME NEW k \in Joueurs, (phase = "poll" /\ k < idx) \/ phase \notin AvantJeu
               PROVE  \A j \in Segment : bateaux'[k].cell[j].pos = bateau'[k][j]
    BY <1>1 DEF Flotte
  <2>1. bateau'[k] = bateau[k]
    <3>1. CASE k = i
      BY <3>1, BateauClient
    <3>2. CASE k # i
      BY <3>2, ClientSeul DEF Intouche
    <3> QED
      BY <3>1, <3>2
  <2> QED
    BY <1>1, <2>1 DEF Flotte, plateau
<1> QED
  BY <1>2, <1>3

LEMMA EnPasEnCours == EnPas => EnCours
  BY DEF EnPas, EnCours

LEMMA InvPInvD == InvP => InvD
  BY EnPasEnCours DEF InvP, InvD

LEMMA InvPClient ==
  ASSUME TypeOK, Sain, InvP, NEW i \in Joueurs, Client(i)
  PROVE  InvP'
<1>1. ~Panne(i)
  BY DEF InvP, Panne
<1>2. pannes' = 0 /\ Anneau' /\ Flotte'
  BY <1>1, ClientSeul, FlotteClient, EnPasEnCours DEF InvP, Sain
<1>3. EnPas => EnPas'
  BY <1>1, EtapeClient DEF EnPas, Sain
<1> QED
  BY <1>2, <1>3, JeuFiniClient DEF InvP

LEMMA InvDClient ==
  ASSUME TypeOK, Fiable, Tardif, Tardif', InvD, NEW i \in Joueurs, Client(i), ~Perdu
  PROVE  InvD'
<1>1. EnCours \/ JeuFini
  BY DEF InvD, Arret, Perdu
<1>2. Anneau' /\ Flotte'
  BY <1>1, FlotteClient DEF InvD
<1>3. Panne(i) => phase \notin AvantJeu
  BY PannesAssumption DEF Panne, Tardif, serveur, TypeOK
<1> QED
  BY <1>1, <1>2, <1>3, EnCoursClient, JeuFiniClient DEF InvD

----------------------------------------------------------------------------
(***************************************************************************)
(* The steps of the server, as long as the game lasts.                     *)
(***************************************************************************)

\* A write to a client that is there.
LEMMA ServeurEcrit ==
  ASSUME TypeOK, NEW i \in Joueurs, NEW m \in MsgServeur, Envoyer(i, m), conn[i] = "ouverte"
  PROVE  /\ conn' = conn
         /\ \A j \in Joueurs \ {i} : s2c'[j] = s2c[j]
         /\ s2c'[i] = Append(s2c[i], m)
  BY DEF Envoyer, TypeOK

LEMMA ServeurEcritUn ==
  ASSUME TypeOK, NEW i \in Joueurs, NEW M, NEW m \in M, m \in MsgServeur, Envoyer(i, m),
         conn[i] = "ouverte", s2c[i] = <<>>
  PROVE  Un(s2c'[i], M)
  BY ServeurEcrit, AjoutUn

LEMMA ServeurEcritDeux ==
  ASSUME TypeOK, NEW i \in Joueurs, NEW A, NEW M, NEW m \in M, m \in MsgServeur,
         Envoyer(i, m), conn[i] = "ouverte", Un(s2c[i], A)
  PROVE  Deux(s2c'[i], A, M)
<1>1. s2c[i] \in Seq(MsgServeur) /\ s2c'[i] = Append(s2c[i], m)
  BY ServeurEcrit DEF TypeOK
<1> QED
  BY <1>1, AjoutDeux

\* The loop over the players, one player at a time.
LEMMA BouclerPas ==
  ASSUME idx \in Joueurs, NEW ici, NEW suite, Boucler(ici, suite)
  PROVE  \/ phase' = ici /\ idx' = idx + 1
         \/ phase' = suite /\ idx' = 0 /\ idx = nbJoueur - 1
  BY JoueurAssumption DEF Boucler, Joueurs

\* A write to player i does not touch the others; one that is gone stays gone.
LEMMA EcritSeul ==
  ASSUME TypeOK, NEW i \in Joueurs, NEW m, Envoyer(i, m), UNCHANGED <<cpc, cetat, bateau>>
  PROVE  /\ \A j \in Joueurs \ {i} : c2s'[j] = c2s[j] => Intouche(j)
         /\ \A j \in Joueurs : Ferme(j) => Ferme(j)'
         /\ Parti(i) /\ c2s'[i] = <<>> => Parti(i)'
<1>1. \A j \in Joueurs \ {i} : s2c'[j] = s2c[j] /\ conn'[j] = conn[j]
  BY DEF Envoyer, TypeOK
<1>2. conn[i] # "ouverte" => s2c' = s2c /\ conn'[i] # "ouverte"
  BY DEF Envoyer, TypeOK
<1>3. \A j \in Joueurs : Ferme(j) => Ferme(j)'
  BY <1>1, <1>2 DEF Ferme
<1> QED
  BY <1>1, <1>2, <1>3 DEF Intouche, Parti

\* envoyer touches player i = idx only, recevoir too.
LEMMA EnvoyerPuisSeul ==
  ASSUME TypeOK, NEW ici, NEW m \in MsgServeur, NEW suite, EnvoyerPuis(ici, m, suite),
         NEW i \in Joueurs, i = idx
  PROVE  /\ \A j \in Joueurs \ {i} : Intouche(j)
         /\ UNCHANGED <<cpc, cetat, c2s>> /\ UNCHANGED plateau
         /\ conn[i] = "ouverte" => conn' = conn
         /\ phase = ici /\ phase' = suite /\ idx' = i
         /\ Envoyer(i, m)
<1>1. Envoyer(i, m) /\ UNCHANGED <<cpc, cetat, bateau, c2s>>
  BY DEF EnvoyerPuis, clients
<1>2. \A j \in Joueurs \ {i} : Intouche(j)
  BY <1>1, EcritSeul
<1>3. conn[i] = "ouverte" => conn' = conn
  BY <1>1, ServeurEcrit
<1> QED
  BY <1>1, <1>2, <1>3 DEF EnvoyerPuis, plateau

LEMMA RecevoirAckSeul ==
  ASSUME TypeOK, NEW ici, NEW debut, NEW suite, RecevoirAck(ici, debut, suite),
         NEW i \in Joueurs, i = idx
  PROVE  /\ \A j \in Joueurs \ {i} : Intouche(j)
         /\ UNCHANGED <<cpc, cetat, s2c, conn>> /\ UNCHANGED plateau
         /\ phase = ici
         /\ \/ phase' = debut /\ idx' = i + 1
            \/ phase' = suite /\ idx' = 0 /\ i = nbJoueur - 1
         /\ \E r \in Lecture(c2s[i], conn[i], Residus) : c2s'[i] = r.reste
  BY BouclerPas DEF RecevoirAck, Intouche, clients, plateau, TypeOK

\* A read from a client that is there.
LEMMA ServeurLit ==
  ASSUME TypeOK, Fiable, NEW i \in Joueurs, conn[i] = "ouverte",
         NEW r \in Lecture(c2s[i], conn[i], Residus)
  PROVE  /\ c2s[i] # <<>>
         /\ \A M : Un(c2s[i], M) => r.m \in M /\ r.reste = <<>>
         /\ \A A, M : Deux(c2s[i], A, M) => r.m \in A /\ Un(r.reste, M)
<1>1. c2s[i] # <<>>
  BY LitRien
<1>2. c2s[i] \in Seq(MsgClient)
  BY DEF TypeOK
<1> QED
  BY <1>1, <1>2, LitUn, LitDeux DEF Fiable

\* The server is at one of the players.
LEMMA Tour ==
  ASSUME TypeOK, phase \notin {"poll", "tue", "egare"}
  PROVE  \E i \in Joueurs : i = idx /\ ~(i < idx)
  BY DEF TypeOK, Perdu, Joueurs

\* In the first phases that one is at its stage.
LEMMA AuPas ==
  ASSUME TypeOK, EnPas, phase # "poll"
  PROVE  \E i \in Joueurs : i = idx /\ Etape(i) /\ ~(i < idx)
<1>1. phase \notin {"tue", "egare"}
  BY ZeroJoueur DEF EnPas, Etape
<1> QED
  BY <1>1, Tour DEF EnPas

\* The infos.
LEMMA EnvoyerInfosEnPas ==
  ASSUME TypeOK, Fiable, EnPas, EnvoyerInfos
  PROVE  EnPas'
<1> DEFINE m == Req(4, "infos", <<nbJoueur, taillePlateau, tailleBateau>>)
<1>0. phase = "infos"
  BY DEF EnvoyerInfos, EnvoyerPuis
<1>1. PICK i \in Joueurs : i = idx /\ Etape(i) /\ ~(i < idx)
  BY <1>0, AuPas
<1>2. Inscrit(i) /\ conn[i] = "ouverte"
  BY <1>0, <1>1 DEF Etape, Inscrit, Present
<1>3. m \in DId({4}) /\ m \in MsgServeur
  BY TailleAssumption, JoueurAssumption DEF DId, Req, MsgServeur
<1> HIDE DEF m
<1>4. EnvoyerPuis("infos", m, "infos_ack")
  BY DEF EnvoyerInfos, m
<1>5. /\ \A j \in Joueurs \ {i} : Intouche(j)
      /\ UNCHANGED <<cpc, cetat, c2s, conn>>
      /\ phase' = "infos_ack" /\ idx' = i
      /\ Envoyer(i, m)
  BY <1>1, <1>2, <1>3, <1>4, EnvoyerPuisSeul
<1>6. Avise(i)'
  <2>1. CASE cpc[i] = "acceptation"
    <3>1. Deux(s2c'[i], {Ok}, DId({4}))
      BY <1>2, <1>3, <1>5, <2>1, ServeurEcritDeux DEF Inscrit
    <3> QED
      BY <1>2, <1>5, <2>1, <3>1 DEF Inscrit, Avise, Present, DId
  <2>2. CASE cpc[i] = "infos"
    <3>1. Un(s2c'[i], DId({4}))
      BY <1>2, <1>3, <1>5, <2>2, ServeurEcritUn DEF Inscrit
    <3> QED
      BY <1>2, <1>5, <2>2, <3>1 DEF Inscrit, Avise, Present, DId
  <2> QED
    BY <1>2, <2>1, <2>2 DEF Inscrit
<1>7. ASSUME NEW j \in Joueurs, j # i PROVE Etape(j)'
  BY <1>0, <1>1, <1>5, <1>7, Fige DEF EnPas, Etape
<1> QED
  BY <1>1, <1>5, <1>6, <1>7 DEF EnPas, Etape

LEMMA InfosAckEnPas ==
  ASSUME TypeOK, Fiable, EnPas, InfosAck
  PROVE  EnPas'
<1>0. phase = "infos_ack"
  BY DEF InfosAck, RecevoirAck
<1>1. PICK i \in Joueurs : i = idx /\ Etape(i) /\ ~(i < idx)
  BY <1>0, AuPas
<1>2. Avise(i) /\ conn[i] = "ouverte"
  BY <1>0, <1>1 DEF Etape, Avise, Present
<1>3. /\ \A j \in Joueurs \ {i} : Intouche(j)
      /\ UNCHANGED <<cpc, cetat, s2c, conn>>
      /\ \/ phase' = "infos" /\ idx' = i + 1
         \/ phase' = "bateaux" /\ idx' = 0 /\ i = nbJoueur - 1
      /\ \E r \in Lecture(c2s[i], conn[i], Residus) : c2s'[i] = r.reste
  BY <1>1, RecevoirAckSeul DEF InfosAck
<1>4. Informe(i)'
  <2>1. PICK r \in Lecture(c2s[i], conn[i], Residus) : c2s'[i] = r.reste
    BY <1>3
  <2>2. cpc[i] = "ordre" /\ s2c[i] = <<>> /\ Un(c2s[i], Acquits) /\ Present(i)
    BY <1>2, <2>1, ServeurLit DEF Avise
  <2>3. c2s'[i] = <<>>
    BY <1>2, <2>1, <2>2, ServeurLit
  <2> QED
    BY <1>3, <2>2, <2>3 DEF Informe, Present
<1>5. ASSUME NEW j \in Joueurs, j # i PROVE Etape(j)'
  BY <1>0, <1>1, <1>3, <1>5, Fige DEF EnPas, Etape, Joueurs
<1> QED
  BY <1>1, <1>3, <1>4, <1>5 DEF EnPas, Etape, Joueurs

\* The board.
LEMMA EnvoyerPlateauEtape ==
  ASSUME TypeOK, Fiable, EnvoyerPlateau, NEW j \in Joueurs, Etape(j)
  PROVE  Etape(j)'
<1> DEFINE m == Req(2, "plateau", EncoderPlateau(cell))
<1>0. phase = "plateau"
  BY DEF EnvoyerPlateau, EnvoyerPuis
<1>1. PICK i \in Joueurs : i = idx /\ ~(i < idx)
  BY <1>0, Tour
<1>2. m \in DId({2}) /\ m \in MsgServeur
  BY EncoderType DEF DId, Req, MsgServeur
<1> HIDE DEF m
<1>3. EnvoyerPuis("plateau", m, "plateau_ack")
  BY DEF EnvoyerPlateau, m
<1>4. /\ \A k \in Joueurs \ {i} : Intouche(k)
      /\ UNCHANGED <<cpc, cetat, c2s>> /\ UNCHANGED plateau
      /\ conn[i] = "ouverte" => conn' = conn
      /\ phase' = "plateau_ack" /\ idx' = i
      /\ Envoyer(i, m)
  BY <1>1, <1>2, <1>3, EnvoyerPuisSeul
<1>5. CASE j = i
  <2>0. Pret(i) /\ conn[i] = "ouverte"
    BY <1>0, <1>1, <1>5 DEF Etape, Pret, Present
  <2>1. ASSUME cpc[i] = "bateau_rep" PROVE Montre(i)'
    <3>1. Deux(s2c'[i], {Ok}, DId({2}))
      BY <1>2, <1>4, <2>0, <2>1, ServeurEcritDeux DEF Pret
    <3> QED
      BY <1>4, <2>0, <2>1, <3>1 DEF Pret, Montre, Present, DId
  <2>2. ASSUME cpc[i] = "plateau" PROVE Montre(i)'
    <3>1. Un(s2c'[i], DId({2}))
      BY <1>2, <1>4, <2>0, <2>2, ServeurEcritUn DEF Pret
    <3> QED
      BY <1>4, <2>0, <2>2, <3>1 DEF Pret, Montre, Present, DId
  <2>3. Montre(i)'
    BY <2>0, <2>1, <2>2 DEF Pret
  <2> QED
    BY <1>1, <1>4, <1>5, <2>3 DEF Etape
<1>6. CASE j # i
  BY <1>0, <1>1, <1>4, <1>6, Fige DEF Etape
<1> QED
  BY <1>5, <1>6

LEMMA PlateauAckEtape ==
  ASSUME TypeOK, Fiable, PlateauAck, NEW j \in Joueurs, Etape(j)
  PROVE  Etape(j)'
<1>0. phase = "plateau_ack"
  BY DEF PlateauAck, RecevoirAck
<1>1. PICK i \in Joueurs : i = idx /\ ~(i < idx)
  BY <1>0, Tour
<1>2. /\ \A k \in Joueurs \ {i} : Intouche(k)
      /\ UNCHANGED <<cpc, cetat, s2c, conn>>
      /\ \/ phase' = "plateau" /\ idx' = i + 1
         \/ phase' = "go" /\ idx' = 0 /\ i = nbJoueur - 1
      /\ \E r \in Lecture(c2s[i], conn[i], Residus) : c2s'[i] = r.reste
  BY <1>1, RecevoirAckSeul DEF PlateauAck
<1>3. CASE j = i
  <2>0. Montre(i) /\ conn[i] = "ouverte"
    BY <1>0, <1>1, <1>3 DEF Etape, Montre, Present
  <2>1. PICK r \in Lecture(c2s[i], conn[i], Residus) : c2s'[i] = r.reste
    BY <1>2
  <2>2. AttendGo(i) /\ s2c[i] = <<>> /\ Un(c2s[i], Acquits) /\ Present(i)
    BY <2>0, <2>1, ServeurLit DEF Montre
  <2>3. c2s'[i] = <<>>
    BY <2>0, <2>1, <2>2, ServeurLit
  <2>4. Voit(i)'
    BY <1>2, <2>2, <2>3 DEF Voit, Present, AttendGo
  <2> QED
    BY <1>1, <1>2, <1>3, <2>4 DEF Etape, Joueurs
<1>4. CASE j # i
  BY <1>0, <1>1, <1>2, <1>4, Fige DEF Etape, Joueurs
<1> QED
  BY <1>3, <1>4

\* "go".
LEMMA EnvoyerGoEtape ==
  ASSUME TypeOK, Fiable, EnvoyerGo, NEW j \in Joueurs, Etape(j)
  PROVE  Etape(j)'
<1> DEFINE m == Req(5, "go", <<>>)
<1>0. phase = "go"
  BY DEF EnvoyerGo, EnvoyerPuis
<1>1. PICK i \in Joueurs : i = idx /\ ~(i < idx)
  BY <1>0, Tour
<1>2. m \in DId({5}) /\ m \in MsgServeur
  BY EmptySeq DEF DId, Req, MsgServeur
<1> HIDE DEF m
<1>3. EnvoyerPuis("go", m, "go_ack")
  BY DEF EnvoyerGo, m
<1>4. /\ \A k \in Joueurs \ {i} : Intouche(k)
      /\ UNCHANGED <<cpc, cetat, c2s>> /\ UNCHANGED plateau
      /\ conn[i] = "ouverte" => conn' = conn
      /\ phase' = "go_ack" /\ idx' = i
      /\ Envoyer(i, m)
  BY <1>1, <1>2, <1>3, EnvoyerPuisSeul
<1>5. CASE j = i
  <2>0. Voit(i) /\ conn[i] = "ouverte"
    BY <1>0, <1>1, <1>5 DEF Etape, Voit, Present
  <2>1. Un(s2c'[i], DId({5}))
    BY <1>2, <1>4, <2>0, ServeurEcritUn DEF Voit
  <2>2. Appele(i)'
    BY <1>4, <2>0, <2>1 DEF Voit, Appele, AttendGo, Present, DId
  <2> QED
    BY <1>1, <1>4, <1>5, <2>2 DEF Etape
<1>6. CASE j # i
  BY <1>0, <1>1, <1>4, <1>6, Fige DEF Etape
<1> QED
  BY <1>5, <1>6

LEMMA GoAckEtape ==
  ASSUME TypeOK, Fiable, GoAck, NEW j \in Joueurs, Etape(j)
  PROVE  Etape(j)'
<1>0. phase = "go_ack"
  BY DEF GoAck, RecevoirAck
<1>1. PICK i \in Joueurs : i = idx /\ ~(i < idx)
  BY <1>0, Tour
<1>2. /\ \A k \in Joueurs \ {i} : Intouche(k)
      /\ UNCHANGED <<cpc, cetat, s2c, conn>>
      /\ \/ phase' = "go" /\ idx' = i + 1
         \/ phase' = "tir" /\ idx' = 0 /\ i = nbJoueur - 1
      /\ \E r \in Lecture(c2s[i], conn[i], Residus) : c2s'[i] = r.reste
  BY <1>1, RecevoirAckSeul DEF GoAck
<1>3. CASE j = i
  <2>0. Appele(i) /\ conn[i] = "ouverte"
    BY <1>0, <1>1, <1>3 DEF Etape, Appele, Present
  <2>1. PICK r \in Lecture(c2s[i], conn[i], Residus) : c2s'[i] = r.reste
    BY <1>2
  <2>2. s2c[i] = <<>> /\ Present(i)
    BY <2>0, <2>1, ServeurLit DEF Appele
  <2>3. ASSUME Joue(i), Un(c2s[i], Acquits) PROVE Vise(i)'
    <3>1. c2s'[i] = <<>>
      BY <2>0, <2>1, <2>3, ServeurLit
    <3> QED
      BY <1>2, <2>2, <2>3, <3>1 DEF Vise, Present, Joue
  <2>4. ASSUME AJoue(i), Deux(c2s[i], Acquits, CoupDe(i)) PROVE Vise(i)'
    <3>1. Un(c2s'[i], CoupDe(i))
      BY <2>0, <2>1, <2>4, ServeurLit
    <3>2. CoupDe(i)' = CoupDe(i)
      BY <1>2 DEF CoupDe, Coups
    <3> QED
      BY <1>2, <2>2, <2>4, <3>1, <3>2 DEF Vise, Present, AJoue
  <2>5. Vise(i)'
    BY <2>0, <2>1, <2>3, <2>4, ServeurLit DEF Appele
  <2> QED
    BY <1>1, <1>2, <1>3, <2>5 DEF Etape, Joueurs
<1>4. CASE j # i
  BY <1>0, <1>1, <1>2, <1>4, Fige DEF Etape, Joueurs
<1> QED
  BY <1>3, <1>4

\* The verdict.
LEMMA VerdictSort ==
  ASSUME NEW i
  PROVE  Req(Verdict(bateaux, nbBateau, i), NomEtat(Verdict(bateaux, nbBateau, i)), <<>>)
           \in Sorts \cap MsgServeur
<1> DEFINE v == Verdict(bateaux, nbBateau, i)
<1>1. v \in IF Finale THEN {9, 10} ELSE {7, 8}
  BY DEF Verdict, Finale
<1>2. NomEtat(v) \in {"continue", "stop", "fin"}
  BY DEF NomEtat
<1> HIDE DEF v
<1>3. Req(v, NomEtat(v), <<>>) \in MsgServeur
  BY <1>1, <1>2, EmptySeq DEF Req, MsgServeur
<1>4. Req(v, NomEtat(v), <<>>) \in Sorts
  BY <1>1, <1>3 DEF Req, Sorts, DId
<1> QED
  BY <1>3, <1>4 DEF v

LEMMA EnvoyerEtatEtape ==
  ASSUME TypeOK, Fiable, EnvoyerEtat, NEW j \in Joueurs, Etape(j)
  PROVE  Etape(j)'
<1> DEFINE m == Req(Verdict(bateaux, nbBateau, idx), NomEtat(Verdict(bateaux, nbBateau, idx)), <<>>)
<1>0. phase = "etat"
  BY DEF EnvoyerEtat, EnvoyerPuis
<1>1. PICK i \in Joueurs : i = idx /\ ~(i < idx)
  BY <1>0, Tour
<1>2. m \in Sorts /\ m \in MsgServeur
  BY VerdictSort
<1> HIDE DEF m
<1>3. EnvoyerPuis("etat", m, "etat_ack")
  BY DEF EnvoyerEtat, m
<1>4. /\ \A k \in Joueurs \ {i} : Intouche(k)
      /\ UNCHANGED <<cpc, cetat, c2s>> /\ UNCHANGED plateau
      /\ conn[i] = "ouverte" => conn' = conn
      /\ phase' = "etat_ack" /\ idx' = i
      /\ Envoyer(i, m)
  BY <1>1, <1>2, <1>3, EnvoyerPuisSeul
<1>5. CASE j = i
  <2>0. Tire(i) /\ conn[i] = "ouverte"
    BY <1>0, <1>1, <1>5 DEF Etape, Tire, Present
  <2>1. Sorts' = Sorts
    BY <1>4, FinaleFixe
  <2>2. ASSUME AJoue(i), Un(s2c[i], {Ok}) PROVE Juge(i)'
    <3>1. Deux(s2c'[i], {Ok}, Sorts)
      BY <1>2, <1>4, <2>0, <2>2, ServeurEcritDeux
    <3> QED
      BY <1>4, <2>0, <2>1, <2>2, <3>1 DEF Tire, Juge, AJoue, Present
  <2>3. ASSUME cpc[i] = "etat", s2c[i] = <<>> PROVE Juge(i)'
    <3>1. Un(s2c'[i], Sorts)
      BY <1>2, <1>4, <2>0, <2>3, ServeurEcritUn
    <3> QED
      BY <1>4, <2>0, <2>1, <2>3, <3>1 DEF Tire, Juge, Present
  <2>4. Juge(i)'
    BY <2>0, <2>2, <2>3 DEF Tire
  <2> QED
    BY <1>1, <1>4, <1>5, <2>4 DEF Etape
<1>6. CASE j # i
  BY <1>0, <1>1, <1>4, <1>6, Fige DEF Etape
<1> QED
  BY <1>5, <1>6

\* The verdict is acknowledged; behind the last one every player knows.
LEMMA EtatAckEtape ==
  ASSUME TypeOK, Fiable, EtatAck, NEW j \in Joueurs, Etape(j)
  PROVE  IF phase' = "etat" THEN Etape(j)' ELSE Sait(j)'
<1> DEFINE suite == IF etat = 2 THEN "retour" ELSE "plateau"
<1>0. phase = "etat_ack"
  BY DEF EtatAck, RecevoirAck
<1>1. PICK i \in Joueurs : i = idx /\ ~(i < idx)
  BY <1>0, Tour
<1>2. /\ \A k \in Joueurs \ {i} : Intouche(k)
      /\ UNCHANGED <<cpc, cetat, s2c, conn>> /\ UNCHANGED plateau
      /\ \/ phase' = "etat" /\ idx' = i + 1
         \/ phase' = suite /\ idx' = 0 /\ i = nbJoueur - 1
      /\ \E r \in Lecture(c2s[i], conn[i], Residus) : c2s'[i] = r.reste
  BY <1>1, RecevoirAckSeul DEF EtatAck
<1>3. CASE j = i
  <2>0. Juge(i)
    BY <1>0, <1>1, <1>3 DEF Etape
  <2>1. PICK r \in Lecture(c2s[i], conn[i], Residus) : c2s'[i] = r.reste
    BY <1>2
  <2>2. Ailleurs(i) /\ s2c[i] = <<>> /\ Un(c2s[i], Acquits)
    BY <2>0, <2>1, LitRien DEF Juge, Present
  <2>3. c2s'[i] = <<>>
    <3>1. c2s[i] \in Seq(MsgClient)
      BY DEF TypeOK
    <3> QED
      BY <2>1, <2>2, <3>1, LitUn DEF Fiable
  <2>4. Sait(i)'
    BY <1>2, <2>2, <2>3, FinaleFixe DEF Sait, Ailleurs, Present
  <2> QED
    BY <1>1, <1>2, <1>3, <2>4 DEF Etape, Joueurs
<1>4. CASE j # i
  <2>1. Intouche(j)
    BY <1>2, <1>4
  <2>2. CASE phase' = "etat" /\ idx' = i + 1
    BY <1>0, <1>1, <1>2, <1>4, <2>1, <2>2, Fige DEF Etape, Joueurs
  <2>3. CASE phase' = suite /\ i = nbJoueur - 1
    <3>1. j < idx
      BY <1>1, <1>4, <2>3, JoueurAssumption DEF Joueurs
    <3>2. Sait(j)'
      BY <1>0, <1>2, <2>1, <3>1, Fige DEF Etape
    <3> QED
      BY <2>3, <3>2
  <2> QED
    BY <1>2, <2>2, <2>3
<1> QED
  BY <1>3, <1>4

\* Behind the last verdict another round begins, or the end.
LEMMA FinDeTour ==
  ASSUME TypeOK, EtatAck, phase' # "etat", NEW j \in Joueurs, Sait(j)'
  PROVE  IF phase' = "plateau" /\ Finale' THEN Apres(j)' ELSE Etape(j)'
<1>1. phase' \in {"retour", "plateau"} /\ idx' = 0 /\ ~(j < 0)
  BY DEF EtatAck, RecevoirAck, Boucler, Joueurs
<1>2. CASE phase' = "retour"
  BY <1>2 DEF Etape
<1>3. CASE phase' = "plateau" /\ Finale'
  <2>1. Calme(j)'
    BY <1>3 DEF Sait, Ailleurs, Calme, Parti, Final
  <2> QED
    BY <1>1, <1>3, <2>1 DEF Apres, AvantJeu
<1>4. CASE phase' = "plateau" /\ ~Finale'
  <2>1. Pret(j)'
    BY <1>4 DEF Sait, Ailleurs, Pret, Present
  <2> QED
    BY <1>1, <1>4, <2>1 DEF Etape
<1> QED
  BY <1>1, <1>2, <1>3, <1>4

\* The boats are asked for.
LEMMA DemanderBateauxEnPas ==
  ASSUME TypeOK, Fiable, EnPas, DemanderBateaux
  PROVE  EnPas'
<1> DEFINE m == Req(3, "bateaux", <<>>)
<1>0. phase = "bateaux"
  BY DEF DemanderBateaux
<1>1. PICK i \in Joueurs : i = idx /\ Etape(i) /\ ~(i < idx)
  BY <1>0, AuPas
<1>2. Informe(i) /\ conn[i] = "ouverte"
  BY <1>0, <1>1 DEF Etape, Informe, Present
<1>3. m \in DId({3}) /\ m \in MsgServeur
  BY EmptySeq DEF DId, Req, MsgServeur
<1>4. Envoyer(i, m) /\ UNCHANGED <<cpc, cetat, bateau, c2s>>
  BY <1>1 DEF DemanderBateaux, clients
<1> HIDE DEF m
<1>5. \/ phase' = "bateaux" /\ idx' = i + 1
      \/ phase' = "poll" /\ idx' = 0 /\ i = nbJoueur - 1
  BY <1>1, BouclerPas DEF DemanderBateaux
<1>6. conn' = conn /\ \A j \in Joueurs \ {i} : Intouche(j)
  BY <1>2, <1>3, <1>4, ServeurEcrit DEF Intouche
<1>7. Demande(i)'
  <2>1. Un(s2c'[i], DId({3}))
    BY <1>2, <1>3, <1>4, ServeurEcritUn DEF Informe
  <2> QED
    BY <1>2, <1>4, <1>6, <2>1 DEF Informe, Demande, Present, DId
<1>8. ASSUME NEW j \in Joueurs, j # i PROVE Etape(j)'
  BY <1>0, <1>1, <1>5, <1>6, <1>8, Fige DEF EnPas, Etape, Joueurs
<1> QED
  BY <1>1, <1>5, <1>7, <1>8 DEF EnPas, Etape, Joueurs

\* A message from the player the ring is at: its boat.
LEMMA BateauRecu ==
  ASSUME TypeOK, Fiable, EnPas, RecevoirBateau, NEW i \in Joueurs, i = idx
  PROVE  \E p \in Placements :
           /\ Dessine(i, p) /\ CompterBateau(Boat(p), i)
           /\ cpc[i] = "bateau_rep" /\ s2c[i] = <<>> /\ c2s'[i] = <<>> /\ Present(i)
<1>1. Demande(i)
  BY DEF RecevoirBateau, EnPas, Etape, Joueurs
<1>2. PICK r \in Lecture(c2s[i], conn[i], Residus) :
        c2s' = [c2s EXCEPT ![i] = r.reste] /\ CompterBateau(r.m, i)
  BY DEF RecevoirBateau
<1>3. /\ cpc[i] = "bateau_rep" /\ s2c[i] = <<>> /\ Present(i)
      /\ \E p \in Placements : Un(c2s[i], {Boat(p)}) /\ Dessine(i, p)
  BY <1>1, <1>2, LitRien DEF Demande, Present
<1>4. PICK p \in Placements : Un(c2s[i], {Boat(p)}) /\ Dessine(i, p)
  BY <1>3
<1>5. r.m \in {Boat(p)} /\ r.reste = <<>>
  BY <1>2, <1>3, <1>4, ServeurLit DEF Present
<1>6. c2s'[i] = <<>>
  BY <1>2, <1>5 DEF TypeOK
<1> QED
  BY <1>2, <1>3, <1>4, <1>5, <1>6

\* It is counted, the next player follows in the ring.
LEMMA RecevoirBateauEnPas ==
  ASSUME TypeOK, Fiable, Anneau, EnPas, RecevoirBateau
  PROVE  EnPas' /\ Anneau'
<1>1. PICK i \in Joueurs : i = idx
  BY DEF RecevoirBateau
<1>2. PICK p \in Placements :
           /\ Dessine(i, p) /\ CompterBateau(Boat(p), i)
           /\ cpc[i] = "bateau_rep" /\ s2c[i] = <<>> /\ c2s'[i] = <<>> /\ Present(i)
  BY <1>1, BateauRecu
<1>3. phase = "poll" /\ nbRecu = i /\ nbBateau = i
  BY <1>1 DEF RecevoirBateau, Anneau
<1>4. Boat(p).id = 3 /\ Boat(p).infos = p /\ p # <<>>
  BY PlacementsAssumption DEF Boat, Req
<1>5. /\ nbRecu' = i + 1 /\ nbBateau' = i + 1
      /\ IF i + 1 = nbJoueur THEN phase' = "pause" /\ idx' = 0
                             ELSE phase' = "poll" /\ idx' = i + 1
  BY <1>1, <1>2, <1>3, <1>4, BateauDedans, JoueurAssumption
  DEF CompterBateau, PlacerBateau, SlotSuivant, Joueurs
<1>6. Envoyer(i, Ok) /\ UNCHANGED <<cpc, cetat, bateau>>
  BY <1>1 DEF RecevoirBateau, clients
<1>7. /\ conn' = conn /\ Un(s2c'[i], {Ok})
      /\ \A j \in Joueurs \ {i} : Intouche(j)
  <2>1. conn' = conn /\ \A j \in Joueurs \ {i} : s2c'[j] = s2c[j]
    BY <1>2, <1>6, Messages, ServeurEcrit DEF Present
  <2>2. Un(s2c'[i], {Ok})
    BY <1>2, <1>6, Messages, ServeurEcritUn DEF Present
  <2>3. \A j \in Joueurs \ {i} : c2s'[j] = c2s[j]
    BY <1>1 DEF RecevoirBateau, TypeOK
  <2> QED
    BY <1>6, <2>1, <2>2, <2>3 DEF Intouche
<1>8. Pret(i)'
  BY <1>2, <1>6, <1>7 DEF Pret, Present
<1>9. ASSUME NEW j \in Joueurs, j # i PROVE Etape(j)'
  BY <1>1, <1>3, <1>5, <1>7, <1>9, Fige, JoueurAssumption DEF EnPas, Etape, Joueurs
<1>10. EnPas'
  BY <1>5, <1>8, <1>9 DEF EnPas, Etape, Joueurs
<1>11. Anneau'
  BY <1>5, JoueurAssumption DEF Anneau, AvantJeu, Joueurs
<1> QED
  BY <1>10, <1>11

\* A message from the player whose shot is due: its shot, or "mort".
LEMMA TirRecu ==
  ASSUME TypeOK, Fiable, NEW i \in Joueurs, Vise(i),
         NEW r \in Lecture(c2s[i], conn[i], Residus)
  PROVE  AJoue(i) /\ r.m \in CoupDe(i) /\ r.reste = <<>> /\ Present(i) /\ s2c[i] = <<>>
<1>1. AJoue(i) /\ Un(c2s[i], CoupDe(i)) /\ Present(i) /\ s2c[i] = <<>>
  BY LitRien DEF Vise, Present
<1>2. r.m \in CoupDe(i) /\ r.reste = <<>>
  BY <1>1, ServeurLit DEF Present
<1> QED
  BY <1>1, <1>2

\* As many boats are counted as there are players: the loops over them stay
\* inside the list.
LEMMA PasTrop ==
  ASSUME Anneau, phase \notin AvantJeu
  PROVE  /\ RecevoirTir => Boucler("tir", "verif")
         /\ VerifierFinPartie => phase' = "etat"
<1>1. ~TropDeBateaux
  BY BateauxAssumption, JoueurAssumption DEF Anneau, TropDeBateaux
<1> QED
  BY <1>1 DEF RecevoirTir, VerifierFinPartie

LEMMA RecevoirTirEtape ==
  ASSUME TypeOK, Fiable, Anneau, RecevoirTir, NEW j \in Joueurs, Etape(j)
  PROVE  Etape(j)'
<1>0. phase = "tir"
  BY DEF RecevoirTir
<1>1. PICK i \in Joueurs : i = idx /\ ~(i < idx)
  BY <1>0, Tour
<1>2. PICK r \in Lecture(c2s[i], conn[i], Residus) : c2s' = [c2s EXCEPT ![i] = r.reste]
  BY <1>1 DEF RecevoirTir
<1>3. /\ Envoyer(i, Ok) /\ UNCHANGED <<cpc, cetat, bateau>>
      /\ \/ phase' = "tir" /\ idx' = i + 1
         \/ phase' = "verif" /\ idx' = 0 /\ i = nbJoueur - 1
  BY <1>0, <1>1, PasTrop, BouclerPas DEF RecevoirTir, clients, AvantJeu
<1>4. CASE j = i
  <2>1. AJoue(i) /\ r.reste = <<>> /\ Present(i) /\ s2c[i] = <<>>
    BY <1>0, <1>1, <1>2, <1>4, TirRecu DEF Etape
  <2>2. conn' = conn /\ Un(s2c'[i], {Ok})
    BY <1>3, <2>1, Messages, ServeurEcrit, ServeurEcritUn DEF Present
  <2>3. c2s'[i] = <<>>
    BY <1>2, <2>1 DEF TypeOK
  <2>4. Tire(i)'
    BY <1>3, <2>1, <2>2, <2>3 DEF Tire, AJoue, Present
  <2> QED
    BY <1>3, <1>4, <2>4 DEF Etape, Joueurs
<1>5. CASE j # i
  <2>1. c2s'[j] = c2s[j]
    BY <1>2, <1>5
  <2>2. Intouche(j)
    BY <1>3, <1>5, <2>1, EcritSeul
  <2> QED
    BY <1>0, <1>1, <1>3, <1>5, <2>2, Fige DEF Etape, Joueurs
<1> QED
  BY <1>4, <1>5

\* Steps that touch no player.
LEMMA SansReseau ==
  ASSUME UNCHANGED <<clients, reseau>> PROVE \A j \in Joueurs : Intouche(j)
  BY DEF Intouche, clients, reseau

LEMMA CalculEtape ==
  ASSUME Anneau, VerifierFinPartie \/ Lancer, NEW j \in Joueurs, Etape(j)
  PROVE  Etape(j)'
<1>1. /\ \/ phase = "verif" /\ phase' = "etat"
         \/ phase = "pause" /\ phase' = "plateau"
      /\ idx' = 0
  BY PasTrop DEF VerifierFinPartie, Lancer, Anneau, AvantJeu
<1>2. Intouche(j) /\ ~(j < 0)
  BY SansReseau DEF VerifierFinPartie, Lancer, clients, reseau, Joueurs
<1> QED
  BY <1>1, <1>2, Fige DEF Etape

\* What a read leaves of the queue of a dead client.
LEMMA LitReste ==
  ASSUME TypeOK, Fiable, NEW i \in Joueurs, NEW r \in Lecture(c2s[i], conn[i], Residus)
  PROVE  /\ c2s[i] = <<>> \/ Un(c2s[i], Acquits) \/ Un(c2s[i], Salves) => r.reste = <<>>
         /\ Deux(c2s[i], Acquits, Salves) => Un(r.reste, Salves)
<1>1. c2s[i] \in Seq(MsgClient)
  BY DEF TypeOK
<1>2. c2s[i] = <<>> => r.reste = <<>>
  BY LitRien
<1>3. Un(c2s[i], Acquits) \/ Un(c2s[i], Salves) => r.reste = <<>>
  BY <1>1, LitUn DEF Fiable
<1>4. Deux(c2s[i], Acquits, Salves) => Un(r.reste, Salves)
  BY <1>1, LitDeux DEF Fiable
<1> QED
  BY <1>2, <1>3, <1>4

\* The turns of a dead client come and go like those of the others.
LEMMA EteintServeur ==
  ASSUME TypeOK, Fiable, Anneau, Serveur \/ Lancer, ~EcritureFatale, NEW j \in Joueurs,
         Eteint(j)
  PROVE  Eteint(j)'
<1> USE DEF AvantJeu
<1>0. /\ phase \notin AvantJeu \cup {"tue", "egare"} /\ Ferme(j) /\ Reliquat(j) /\ Salves' = Salves
  BY DEF Eteint, Salves, Coups
<1>1. PICK i \in Joueurs : i = idx
  BY <1>0, Tour
<1>2. CASE EnvoyerPlateau \/ EnvoyerGo \/ EnvoyerEtat
  <2>1. PICK m : /\ Envoyer(i, m) /\ UNCHANGED <<cpc, cetat, bateau, c2s, idx>>
                 /\ <<phase, phase'>> \in {<<"plateau", "plateau_ack">>, <<"go", "go_ack">>,
                                           <<"etat", "etat_ack">>}
    BY <1>1, <1>2 DEF EnvoyerPlateau, EnvoyerGo, EnvoyerEtat, EnvoyerPuis, clients
  <2>2. Ferme(j)'
    BY <1>0, <2>1, EcritSeul
  <2>3. Reliquat(j)'
    BY <1>0, <2>1 DEF Reliquat
  <2> QED
    BY <2>1, <2>2, <2>3 DEF Eteint
<1>3. CASE PlateauAck \/ GoAck \/ EtatAck
  <2>1. /\ \/ phase = "plateau_ack" /\ phase' \in {"plateau", "go"}
           \/ phase = "go_ack" /\ phase' = "go" /\ idx' = i + 1
           \/ phase = "go_ack" /\ phase' = "tir" /\ idx' = 0
           \/ phase = "etat_ack" /\ phase' \in {"etat", "plateau", "retour"}
        /\ UNCHANGED <<cpc, s2c, conn>> /\ \A k \in Joueurs \ {i} : c2s'[k] = c2s[k]
    BY <1>1, <1>3 DEF PlateauAck, GoAck, EtatAck, RecevoirAck, Boucler, clients, TypeOK
  <2>2. PICK r \in Lecture(c2s[i], conn[i], Residus) : c2s'[i] = r.reste
    BY <1>1, <1>3 DEF PlateauAck, GoAck, EtatAck, RecevoirAck, TypeOK
  <2>3. Ferme(j)'
    BY <1>0, <2>1 DEF Ferme
  <2>4. Reliquat(j)'
    <3>1. CASE j = i
      BY <1>0, <1>1, <2>1, <2>2, <3>1, LitReste DEF Reliquat, Joueurs
    <3>2. CASE j # i
      BY <1>0, <1>1, <2>1, <3>2 DEF Reliquat, Joueurs
    <3> QED
      BY <3>1, <3>2
  <2> QED
    BY <2>1, <2>3, <2>4 DEF Eteint
<1>4. CASE RecevoirTir
  <2>1. PICK r \in Lecture(c2s[i], conn[i], Residus) : c2s' = [c2s EXCEPT ![i] = r.reste]
    BY <1>1, <1>4 DEF RecevoirTir
  <2>2. /\ Envoyer(i, Ok) /\ UNCHANGED <<cpc, cetat, bateau>> /\ phase = "tir"
        /\ \/ phase' = "tir" /\ idx' = i + 1
           \/ phase' = "verif" /\ i = nbJoueur - 1
    BY <1>0, <1>1, <1>4, PasTrop, BouclerPas DEF RecevoirTir, clients
  <2>3. Ferme(j)'
    BY <1>0, <2>2, EcritSeul
  <2>4. Reliquat(j)'
    <3>1. c2s[j] = <<>> \/ (~(j < i) /\ Un(c2s[j], Salves))
      BY <1>0, <1>1, <2>2 DEF Reliquat
    <3>2. CASE j = i
      <4>1. c2s'[i] = <<>>
        BY <2>1, <3>1, <3>2, LitReste DEF TypeOK
      <4> QED
        BY <3>2, <4>1 DEF Reliquat
    <3>3. CASE j # i
      <4>1. c2s'[j] = c2s[j]
        BY <2>1, <3>3 DEF TypeOK
      <4>2. i = nbJoueur - 1 => j < i
        BY <3>3, JoueurAssumption DEF Joueurs
      <4>3. ~(j < i) => ~(j < i + 1)
        BY <3>3 DEF Joueurs
      <4> QED
        BY <1>0, <2>2, <3>1, <4>1, <4>2, <4>3 DEF Reliquat
    <3> QED
      BY <3>2, <3>3
  <2> QED
    BY <2>2, <2>3, <2>4 DEF Eteint
<1>5. CASE VerifierFinPartie \/ Lancer
  <2>1. /\ Intouche(j)
        /\ phase \in {"verif", "pause"} /\ phase' \in {"etat", "plateau"}
    BY <1>0, <1>5, PasTrop, SansReseau DEF VerifierFinPartie, Lancer, clients, reseau
  <2>2. c2s'[j] = <<>>
    BY <1>0, <2>1 DEF Reliquat, Intouche
  <2> QED
    BY <1>0, <2>1, <2>2 DEF Eteint, Ferme, Reliquat, Intouche
<1>6. ~EnvoyerInfos /\ ~InfosAck /\ ~DemanderBateaux /\ ~RecevoirBateau
  BY <1>0 DEF EnvoyerInfos, EnvoyerPuis, InfosAck, RecevoirAck, DemanderBateaux, RecevoirBateau
<1> QED
  BY <1>2, <1>3, <1>4, <1>5, <1>6 DEF Serveur

\* The ring never reaches the slots beyond the players.
LEMMA PasDeFantome == ASSUME Anneau PROVE ~RecevoirFantome
  BY JoueurAssumption DEF Anneau, RecevoirFantome, Joueurs

\* No write is fatal while everybody is there.
LEMMA PasDEcritureFatale == ASSUME EnPas PROVE ~EcritureFatale
<1> SUFFICES ASSUME EcritureFatale PROVE FALSE
  OBVIOUS
<1>1. idx \in Joueurs /\ ~(idx < idx) /\ conn[idx] = "reset"
  BY DEF EcritureFatale, Joueurs
<1>2. Etape(idx)
  BY <1>1 DEF EnPas
<1> QED
  BY <1>1, <1>2 DEF EcritureFatale, Etape, Inscrit, Informe, Demande, Pret, Voit, Vise, Tire, Present

----------------------------------------------------------------------------
(***************************************************************************)
(* The steps of the server after the end.                                  *)
(***************************************************************************)

\* A read that returns without a message comes from a client that is gone.
LEMMA LitParti ==
  ASSUME NEW i, Calme(i) \/ Prevenu(i), NEW r \in Lecture(c2s[i], conn[i], Residus)
  PROVE  Parti(i) /\ r.reste = <<>>
<1>1. c2s[i] = <<>>
  BY DEF Calme, Prevenu, Parti, Final
<1>2. conn[i] # "ouverte" /\ r.reste = <<>>
  BY <1>1, LitRien
<1> QED
  BY <1>2 DEF Calme, Prevenu, Final

\* The board is sent to whoever is left.
LEMMA EnvoyerPlateauFini ==
  ASSUME TypeOK, JeuFini, EnvoyerPlateau
  PROVE  JeuFini'
<1> DEFINE m == Req(2, "plateau", EncoderPlateau(cell))
<1>1. phase = "plateau" /\ idx \in Joueurs
  BY DEF EnvoyerPlateau, EnvoyerPuis, TypeOK, Perdu
<1>2. PICK i \in Joueurs : i = idx
  BY <1>1
<1>3. m \in DId({2}) /\ m \in MsgServeur
  BY EncoderType DEF DId, Req, MsgServeur
<1>4. /\ Envoyer(i, m) /\ UNCHANGED <<cpc, cetat, bateau, c2s>>
      /\ phase' = "plateau_ack" /\ idx' = i
  BY <1>2 DEF EnvoyerPlateau, EnvoyerPuis, clients
<1> HIDE DEF m
<1>5. Prevenu(i)'
  <2>1. Calme(i)
    BY <1>1, <1>2 DEF JeuFini, Apres, Joueurs
  <2>2. CASE Parti(i)
    BY <1>4, <2>2, EcritSeul DEF Prevenu, Parti
  <2>3. CASE Final(i) /\ s2c[i] = <<>>
    <3>1. Un(s2c'[i], DId({2})) /\ conn' = conn
      BY <1>3, <1>4, <2>3, ServeurEcritUn, ServeurEcrit DEF Final
    <3> QED
      BY <1>4, <2>3, <3>1 DEF Prevenu, Final, DId
  <2> QED
    BY <2>1, <2>2, <2>3 DEF Calme
<1>6. ASSUME NEW j \in Joueurs, j # i PROVE Apres(j)'
  <2>1. Apres(j) /\ Intouche(j)
    BY <1>4, <1>6, EcritSeul DEF JeuFini
  <2> QED
    BY <1>1, <1>2, <1>4, <1>6, <2>1, Fige DEF Apres, AvantJeu
<1> QED
  BY <1>4, <1>5, <1>6 DEF JeuFini, Apres, AvantJeu, Joueurs

\* A client that is left does not acknowledge it: the server goes on when that
\* client has closed its socket.
LEMMA PlateauAckFini ==
  ASSUME TypeOK, JeuFini, PlateauAck
  PROVE  JeuFini'
<1>1. phase = "plateau_ack" /\ idx \in Joueurs
  BY DEF PlateauAck, RecevoirAck, TypeOK, Perdu
<1>2. PICK i \in Joueurs : i = idx
  BY <1>1
<1>3. /\ \A j \in Joueurs \ {i} : Intouche(j)
      /\ UNCHANGED <<cpc, cetat, s2c, conn>>
      /\ \/ phase' = "plateau" /\ idx' = i + 1
         \/ phase' = "go" /\ idx' = 0 /\ i = nbJoueur - 1
      /\ \E r \in Lecture(c2s[i], conn[i], Residus) : c2s'[i] = r.reste
  BY <1>2, RecevoirAckSeul DEF PlateauAck
<1>4. Parti(i)'
  <2>1. Prevenu(i)
    BY <1>1, <1>2 DEF JeuFini, Apres, Joueurs
  <2>2. Parti(i) /\ c2s'[i] = <<>>
    BY <1>3, <2>1, LitParti
  <2> QED
    BY <1>3, <2>2 DEF Parti
<1>5. ASSUME NEW j \in Joueurs, j # i PROVE Apres(j)'
  <2>1. Apres(j) /\ Intouche(j)
    BY <1>3, <1>5 DEF JeuFini
  <2> QED
    BY <1>1, <1>2, <1>3, <1>5, <2>1, Fige DEF Apres, AvantJeu, Joueurs
<1> QED
  BY <1>3, <1>4, <1>5 DEF JeuFini, Apres, AvantJeu, Joueurs, Calme

\* From then on the server is alone: what it writes is lost, what it reads is
\* what its buffer held.
Seul == \A j \in Joueurs : Parti(j)

LEMMA SeulEcrit ==
  ASSUME TypeOK, Seul, NEW ici, NEW m, NEW suite, EnvoyerPuis(ici, m, suite)
  PROVE  Seul'
<1>1. CASE idx \in Joueurs
  BY <1>1, EcritSeul, Fige DEF Seul, EnvoyerPuis, clients, Parti
<1>2. CASE idx \notin Joueurs
  <2>1. UNCHANGED <<cpc, c2s>> /\ s2c' = s2c /\ conn' = conn
    BY <1>2 DEF EnvoyerPuis, Envoyer, TypeOK, clients
  <2> QED
    BY <2>1 DEF Seul, Parti
<1> QED
  BY <1>1, <1>2

LEMMA SeulLit ==
  ASSUME TypeOK, Seul, idx \in Joueurs, NEW ici, NEW debut, NEW suite,
         RecevoirAck(ici, debut, suite)
  PROVE  Seul'
<1>1. PICK i \in Joueurs : i = idx
  OBVIOUS
<1>2. Parti(i)'
  <2>1. Parti(i) /\ UNCHANGED <<cpc, s2c, conn>>
    BY <1>1, RecevoirAckSeul DEF Seul
  <2>2. c2s'[i] = <<>>
    BY <1>1, <2>1, RecevoirAckSeul, LitParti DEF Calme
  <2> QED
    BY <2>1, <2>2 DEF Parti
<1>3. ASSUME NEW j \in Joueurs, j # i PROVE Parti(j)'
  BY <1>1, <1>3, RecevoirAckSeul, Fige DEF Seul
<1> QED
  BY <1>2, <1>3 DEF Seul

LEMMA SeulTir ==
  ASSUME TypeOK, Seul, RecevoirTir
  PROVE  Seul'
<1>1. PICK i \in Joueurs : i = idx
  BY DEF RecevoirTir, TypeOK, Perdu
<1>2. PICK r \in Lecture(c2s[i], conn[i], Residus) : c2s' = [c2s EXCEPT ![i] = r.reste]
  BY <1>1 DEF RecevoirTir
<1>3. Parti(i) /\ c2s'[i] = <<>>
  BY <1>2, LitParti DEF Seul, Calme, TypeOK
<1>4. Envoyer(i, Ok) /\ UNCHANGED <<cpc, cetat, bateau>>
  BY <1>1 DEF RecevoirTir, clients
<1>5. Parti(i)'
  BY <1>3, <1>4, EcritSeul
<1>6. ASSUME NEW j \in Joueurs, j # i PROVE Parti(j)'
  BY <1>2, <1>4, <1>6, EcritSeul, Fige DEF Seul, TypeOK
<1> QED
  BY <1>5, <1>6 DEF Seul

\* The phases of the server after the end.
Tours == {"go", "go_ack", "tir", "verif", "etat", "etat_ack"}

LEMMA FinSeul ==
  /\ JeuFini /\ phase \in Tours => Seul
  /\ Seul' /\ phase' \in Tours \cup {"plateau", "retour"} => JeuFini'
<1>1. JeuFini /\ phase \in Tours => Seul
  BY DEF JeuFini, Apres, Tours, Seul
<1>2. Seul' /\ phase' \in Tours \cup {"plateau", "retour"} => JeuFini'
  BY DEF JeuFini, Apres, Tours, Seul, Calme, AvantJeu
<1> QED
  BY <1>1, <1>2

LEMMA TourSeul ==
  ASSUME TypeOK, Anneau, JeuFini,
         EnvoyerGo \/ GoAck \/ RecevoirTir \/ VerifierFinPartie \/ EnvoyerEtat \/ EtatAck
  PROVE  JeuFini'
<1>1. CASE EnvoyerGo
  <2>1. phase = "go" /\ phase' = "go_ack"
    BY <1>1 DEF EnvoyerGo, EnvoyerPuis
  <2> QED
    BY <1>1, <2>1, FinSeul, SeulEcrit DEF EnvoyerGo, Tours
<1>2. CASE GoAck
  <2>1. phase = "go_ack" /\ phase' \in {"go", "tir"} /\ idx \in Joueurs
    BY <1>2 DEF GoAck, RecevoirAck, Boucler, TypeOK, Perdu
  <2> QED
    BY <1>2, <2>1, FinSeul, SeulLit DEF GoAck, Tours
<1>3. CASE RecevoirTir
  <2>1. phase = "tir" /\ phase' \in {"tir", "verif"}
    BY <1>3, PasTrop DEF RecevoirTir, Boucler, AvantJeu
  <2> QED
    BY <1>3, <2>1, FinSeul, SeulTir DEF Tours
<1>4. CASE VerifierFinPartie
  <2>1. phase = "verif" /\ phase' = "etat" /\ UNCHANGED <<clients, reseau>>
    BY <1>4, PasTrop DEF VerifierFinPartie, AvantJeu
  <2>2. Seul'
    BY <2>1, FinSeul, SansReseau, Fige DEF Seul, Tours
  <2> QED
    BY <2>1, <2>2, FinSeul DEF Tours
<1>5. CASE EnvoyerEtat
  <2>1. phase = "etat" /\ phase' = "etat_ack"
    BY <1>5 DEF EnvoyerEtat, EnvoyerPuis
  <2> QED
    BY <1>5, <2>1, FinSeul, SeulEcrit DEF EnvoyerEtat, Tours
<1>6. CASE EtatAck
  <2>1. phase = "etat_ack" /\ phase' \in {"etat", "retour", "plateau"} /\ idx \in Joueurs
    BY <1>6 DEF EtatAck, RecevoirAck, Boucler, TypeOK, Perdu
  <2> QED
    BY <1>6, <2>1, FinSeul, SeulLit DEF EtatAck, Tours
<1> QED
  BY <1>1, <1>2, <1>3, <1>4, <1>5, <1>6

\* A write on a connection that was reset ends the server.
LEMMA FataleFini ==
  ASSUME TypeOK, JeuFini, EcritureFatale
  PROVE  JeuFini'
<1>1. phase \in {"plateau", "go", "tir", "etat"} /\ phase' = "tue"
  BY ZeroJoueur DEF EcritureFatale, JeuFini, Apres, AvantJeu
<1>2. \A j \in Joueurs : Intouche(j)
  BY SansReseau DEF EcritureFatale
<1>3. \A j \in Joueurs : Calme(j)
  BY <1>1 DEF JeuFini, Apres, Calme
<1> QED
  BY <1>1, <1>2, <1>3, Fige DEF JeuFini, Apres, AvantJeu

----------------------------------------------------------------------------
(***************************************************************************)
(* What is under way at each stage.                                        *)
(***************************************************************************)

LEMMA OkServeur == Ok \in DId({0})
  BY EmptySeq DEF Ok, Req, DId, MsgServeur

\* A kind of messages inside a wider one.
LEMMA UnPlus == ASSUME NEW q, NEW M, NEW N, M \subseteq N, Un(q, M) PROVE Un(q, N)
  BY DEF Un

LEMMA DeuxPlus ==
  ASSUME NEW q, NEW A, NEW M, NEW N, M \subseteq N, Deux(q, A, M) PROVE Deux(q, A, N)
  BY DEF Deux

LEMMA DIdPlus == ASSUME NEW I, NEW J, I \subseteq J PROVE DId(I) \subseteq DId(J)
  BY DEF DId

\* Each stage, and what is under way then.
LEMMA Descente ==
  ASSUME NEW i, \/ Inscrit(i) \/ Avise(i) \/ Informe(i) \/ Demande(i) \/ Pret(i) \/ Montre(i)
                \/ Voit(i) \/ Appele(i) \/ Vise(i) \/ Tire(i) \/ Juge(i) \/ Sait(i)
                \/ Parti(i) \/ Calme(i) \/ Prevenu(i)
  PROVE  Descend(i)
<1>1. {Ok} \subseteq DId({0})
  BY OkServeur
<1>2. \A I \in SUBSET (2 .. 10) : DId(I) \subseteq DId(2 .. 10)
  BY DIdPlus
<1>3. CASE Inscrit(i)
  BY <1>1, <1>3, UnPlus DEF Inscrit, Descend, AttenduClient
<1>4. CASE Avise(i)
  <2>1. DId({4}) \subseteq DId(2 .. 10)
    BY DIdPlus
  <2> QED
    BY <1>4, <2>1, DeuxPlus DEF Avise, Descend, AttenduClient
<1>5. CASE Informe(i) \/ Voit(i) \/ Vise(i) \/ Sait(i) \/ Parti(i) \/ Calme(i)
  BY <1>5 DEF Informe, Voit, Vise, Sait, Parti, Calme, Descend
<1>6. CASE Demande(i)
  BY <1>6 DEF Demande, Descend, AttenduClient
<1>7. CASE Pret(i)
  BY <1>1, <1>7, UnPlus DEF Pret, Descend, AttenduClient
<1>8. CASE Montre(i)
  <2>1. DId({2}) \subseteq DId(2 .. 10)
    BY DIdPlus
  <2> QED
    BY <1>8, <2>1, DeuxPlus DEF Montre, Descend, AttenduClient
<1>9. CASE Appele(i)
  BY <1>9 DEF Appele, AttendGo, ApresPlateau, Descend, AttenduClient
<1>10. CASE Tire(i)
  BY <1>1, <1>10, UnPlus DEF Tire, AJoue, Descend, AttenduClient
<1>11. CASE Juge(i)
  <2>1. Sorts \subseteq DId(2 .. 10) /\ Sorts \subseteq DId(7 .. 10)
    BY DIdPlus DEF Sorts
  <2> QED
    BY <1>11, <2>1, UnPlus, DeuxPlus DEF Juge, AJoue, Descend, AttenduClient
<1>12. CASE Prevenu(i)
  BY <1>12 DEF Prevenu, Final, Parti, Descend, AttenduClient
<1> QED
  BY <1>3, <1>4, <1>5, <1>6, <1>7, <1>8, <1>9, <1>10, <1>11, <1>12

LEMMA Montee ==
  ASSUME NEW i, \/ Inscrit(i) \/ Avise(i) \/ Informe(i) \/ Demande(i) \/ Pret(i) \/ Montre(i)
                \/ Voit(i) \/ Appele(i) \/ Vise(i) \/ Tire(i) \/ Juge(i) \/ Sait(i)
                \/ Parti(i) \/ Calme(i) \/ Prevenu(i)
  PROVE  Monte(i)
<1>1. CoupDe(i) \subseteq Salves
  BY DEF CoupDe, Salves
<1>2. Appele(i) => Monte(i)
  BY <1>1, DeuxPlus DEF Appele, Un, Monte
<1> QED
  BY <1>2 DEF Inscrit, Avise, Informe, Demande, Pret, Montre, Voit, Vise, Tire, Juge, Sait,
              Parti, Calme, Prevenu, Final, Un, Monte

\* Every player is at one of them.
LEMMA Etapes ==
  ASSUME TypeOK, NEW i, Etape(i) \/ Apres(i)
  PROVE  \/ Inscrit(i) \/ Avise(i) \/ Informe(i) \/ Demande(i) \/ Pret(i) \/ Montre(i)
         \/ Voit(i) \/ Appele(i) \/ Vise(i) \/ Tire(i) \/ Juge(i) \/ Sait(i)
         \/ Parti(i) \/ Calme(i) \/ Prevenu(i)
<1>1. phase \in Phases
  BY DEF TypeOK
<1>2. CASE Etape(i)
  BY <1>1, <1>2 DEF Etape, Phases
<1>3. CASE Apres(i)
  BY <1>1, <1>3 DEF Apres, Phases, AvantJeu
<1> QED
  BY <1>2, <1>3

\* What a dead client has left, and what is under way to every player.
LEMMA EteintRoute == ASSUME NEW i, Eteint(i) PROVE Descend(i) /\ Monte(i)
  BY DEF Eteint, Ferme, Reliquat, Un, Descend, Monte

LEMMA EnRoute ==
  ASSUME TypeOK, EnCours \/ JeuFini \/ Arret, NEW i \in Joueurs
  PROVE  Descend(i) /\ Monte(i)
<1>1. Etape(i) \/ Apres(i) => Descend(i) /\ Monte(i)
  BY Etapes, Descente, Montee
<1> QED
  BY <1>1, EteintRoute DEF EnCours, JeuFini, Arret

----------------------------------------------------------------------------
(***************************************************************************)
(* The steps of the server, what they do to the fleet.                     *)
(***************************************************************************)

\* The server does not touch what the clients know.
LEMMA ServeurSeul == ASSUME Serveur \/ Lancer PROVE UNCHANGED clients /\ pannes' = pannes
  BY DEF Serveur, EnvoyerInfos, InfosAck, DemanderBateaux, RecevoirBateau, EnvoyerPlateau,
     PlateauAck, EnvoyerGo, GoAck, RecevoirTir, VerifierFinPartie, EnvoyerEtat, EtatAck,
     EcritureFatale, EnvoyerPuis, RecevoirAck, Lancer

\* Outside of the placement the count of the boats is fixed.
LEMMA ApresPlacement ==
  ASSUME TypeOK, Anneau, Serveur \/ Lancer, phase \notin AvantJeu
  PROVE  /\ phase' \notin AvantJeu \cup {"pause", "egare"} /\ nbBateau' = nbBateau
         /\ idx' \in Joueurs
         /\ phase' = "verif" => idx' = 0
         /\ ~RecevoirTir => bateaux' = bateaux
<1> USE DEF AvantJeu, plateau
<1>0. idx \in Joueurs
  BY DEF Anneau
<1>1. CASE Lancer \/ VerifierFinPartie \/ EcritureFatale
  BY <1>0, <1>1, PasTrop DEF Lancer, VerifierFinPartie, EcritureFatale
<1>2. CASE EnvoyerPlateau \/ EnvoyerGo \/ EnvoyerEtat
  BY <1>0, <1>2 DEF EnvoyerPlateau, EnvoyerGo, EnvoyerEtat, EnvoyerPuis
<1>3. CASE PlateauAck \/ GoAck \/ EtatAck
  BY <1>0, <1>3, BouclerPas, BouclerType DEF PlateauAck, GoAck, EtatAck, RecevoirAck
<1>4. CASE RecevoirTir
  <2>1. Boucler("tir", "verif")
    BY <1>4, PasTrop
  <2>2. nbBateau' = nbBateau
    BY <1>4 DEF RecevoirTir
  <2> QED
    BY <1>0, <1>4, <2>1, <2>2, BouclerPas, BouclerType
<1>5. ~EnvoyerInfos /\ ~InfosAck /\ ~DemanderBateaux /\ ~RecevoirBateau
  BY DEF EnvoyerInfos, EnvoyerPuis, InfosAck, RecevoirAck, DemanderBateaux, RecevoirBateau
<1> QED
  BY <1>1, <1>2, <1>3, <1>4, <1>5 DEF Serveur

\* Before the ring begins no boat is counted, and the ring begins at player 0.
LEMMA AvantPlacement ==
  ASSUME TypeOK, Fiable, Anneau, EnPas, Serveur \/ Lancer,
         phase \in {"infos", "infos_ack", "bateaux"}
  PROVE  /\ nbBateau' = nbBateau /\ idx' \in Joueurs
         /\ \/ phase' \in {"infos", "infos_ack", "bateaux"}
            \/ phase' = "poll" /\ idx' = 0 /\ nbRecu' = 0
<1> USE DEF plateau
<1>0. idx \in Joueurs
  BY DEF Anneau
<1>1. CASE EnvoyerInfos
  BY <1>0, <1>1 DEF EnvoyerInfos, EnvoyerPuis
<1>2. CASE InfosAck
  BY <1>0, <1>2, BouclerPas, BouclerType DEF InfosAck, RecevoirAck
<1>3. CASE DemanderBateaux
  BY <1>0, <1>3, BouclerPas, BouclerType DEF DemanderBateaux
<1>4. ~EcritureFatale
  BY PasDEcritureFatale
<1>5. ~Lancer /\ ~VerifierFinPartie /\ ~RecevoirTir /\ ~RecevoirBateau
  BY DEF Lancer, VerifierFinPartie, RecevoirTir, RecevoirBateau
<1>6. ~EnvoyerPlateau /\ ~EnvoyerGo /\ ~EnvoyerEtat /\ ~PlateauAck /\ ~GoAck /\ ~EtatAck
  BY DEF EnvoyerPlateau, EnvoyerGo, EnvoyerEtat, EnvoyerPuis, PlateauAck, GoAck, EtatAck,
         RecevoirAck
<1> QED
  BY <1>1, <1>2, <1>3, <1>4, <1>5, <1>6 DEF Serveur

\* Until the boats are placed everybody is there.
LEMMA Debut ==
  ASSUME TypeOK, EnCours \/ JeuFini \/ Arret, phase \in AvantJeu PROVE EnPas
  BY ZeroJoueur DEF EnCours, Eteint, EnPas, JeuFini, Apres, Arret, AvantJeu

\* While the ring runs only the boats come in.
LEMMA PollServeur ==
  ASSUME EnPas, Serveur \/ Lancer, phase = "poll"
  PROVE  RecevoirBateau
<1>1. ~EcritureFatale
  BY PasDEcritureFatale
<1> QED
  BY <1>1 DEF Serveur, EnvoyerInfos, InfosAck, DemanderBateaux, EnvoyerPlateau,
     PlateauAck, EnvoyerGo, GoAck, RecevoirTir, VerifierFinPartie, EnvoyerEtat, EtatAck,
     EnvoyerPuis, RecevoirAck, Lancer

LEMMA AnneauServeur ==
  ASSUME TypeOK, Fiable, Anneau, EnCours \/ JeuFini \/ Arret, Serveur \/ Lancer
  PROVE  Anneau'
<1>1. CASE phase \notin AvantJeu
  BY <1>1, ApresPlacement DEF Anneau, AvantJeu
<1>2. CASE phase \in AvantJeu
  <2>1. EnPas
    BY <1>2, Debut
  <2>2. CASE phase = "poll"
    BY <2>1, <2>2, PollServeur, RecevoirBateauEnPas
  <2>3. CASE phase # "poll"
    <3>1. phase \in {"infos", "infos_ack", "bateaux"} /\ nbBateau = 0
      BY <1>2, <2>3 DEF AvantJeu, Anneau
    <3> QED
      BY <2>1, <3>1, AvantPlacement, JoueurAssumption DEF Anneau, AvantJeu
  <2> QED
    BY <2>2, <2>3
<1> QED
  BY <1>1, <1>2

\* The boat that is received is placed for its player, and the next one follows.
LEMMA BateauCompte ==
  ASSUME TypeOK, Fiable, Anneau, EnPas, RecevoirBateau, NEW i \in Joueurs, i = idx
  PROVE  \E p \in Placements :
           /\ Dessine(i, p)
           /\ bateaux' = [bateaux EXCEPT ![i] = BateauPlace(p[1], p[2], p[3])]
           /\ cell' = CasesPlacees(cell, p[1], p[2], p[3])
           /\ i \in DOMAIN bateaux
           /\ IF i + 1 = nbJoueur THEN phase' = "pause" ELSE phase' = "poll" /\ idx' = i + 1
<1>1. PICK p \in Placements : Dessine(i, p) /\ CompterBateau(Boat(p), i)
  BY BateauRecu
<1>2. phase = "poll" /\ nbRecu = i
  BY DEF RecevoirBateau, Anneau
<1>3. Boat(p).id = 3 /\ Boat(p).infos = p /\ p # <<>>
  BY PlacementsAssumption DEF Boat, Req
<1>4. /\ bateaux' = [bateaux EXCEPT ![i] = BateauPlace(p[1], p[2], p[3])]
      /\ cell' = CasesPlacees(cell, p[1], p[2], p[3])
      /\ IF i + 1 = nbJoueur THEN phase' = "pause" ELSE phase' = "poll" /\ idx' = i + 1
  BY <1>1, <1>2, <1>3, BateauDedans, JoueurAssumption
  DEF CompterBateau, PlacerBateau, SlotSuivant, Joueurs
<1>5. i \in 0 .. MAX_BATEAUX - 1
  BY BateauDedans
<1> QED
  BY <1>1, <1>4, <1>5 DEF TypeOK

\* It is the one its player has drawn.
LEMMA BateauFidele ==
  ASSUME TypeOK, Fiable, Anneau, Flotte, EnPas, RecevoirBateau
  PROVE  Flotte'
<1>1. PICK i \in Joueurs : i = idx
  BY DEF RecevoirBateau
<1>2. PICK p \in Placements :
        /\ Dessine(i, p)
        /\ bateaux' = [bateaux EXCEPT ![i] = BateauPlace(p[1], p[2], p[3])]
        /\ i \in DOMAIN bateaux
        /\ IF i + 1 = nbJoueur THEN phase' = "pause" ELSE phase' = "poll" /\ idx' = i + 1
  BY <1>1, BateauCompte
<1>3. phase = "poll" /\ bateau' = bateau
  BY DEF RecevoirBateau, clients
<1>4. \A j \in Segment : bateaux'[i].cell[j].pos = bateau[i][j]
  BY <1>2 DEF BateauPlace, Dessine
<1>5. ASSUME NEW k \in Joueurs, k < i
      PROVE  \A j \in Segment : bateaux'[k].cell[j].pos = bateau[k][j]
  <2>1. bateaux'[k] = bateaux[k]
    BY <1>2, <1>5 DEF Joueurs, TypeOK
  <2> QED
    BY <1>1, <1>3, <1>5, <2>1 DEF Flotte
<1>6. ASSUME NEW k \in Joueurs, (phase' = "poll" /\ k < idx') \/ phase' \notin AvantJeu
      PROVE  k = i \/ k < i
  BY <1>2, <1>6, JoueurAssumption DEF Joueurs, AvantJeu
<1> QED
  BY <1>3, <1>4, <1>5, <1>6 DEF Flotte

LEMMA FlotteServeur ==
  ASSUME TypeOK, Fiable, Anneau, Flotte, EnCours \/ JeuFini \/ Arret,
         Serveur \/ Lancer
  PROVE  Flotte'
<1>0. bateau' = bateau
  BY ServeurSeul DEF clients
<1>1. CASE phase \notin AvantJeu
  <2> SUFFICES ASSUME NEW i \in Joueurs, NEW j \in Segment
               PROVE  bateaux'[i].cell[j].pos = bateaux[i].cell[j].pos
    BY <1>0, <1>1, ApresPlacement DEF Flotte
  <2>1. CASE RecevoirTir
    <3>1. i \in 0 .. MAX_BATEAUX - 1
      BY BateauxAssumption, JoueurAssumption DEF Joueurs
    <3>2. i \in DOMAIN bateaux
      BY <3>1 DEF TypeOK
    <3>3. \A c : TirerBateau(bateaux, c, nbBateau)[i].cell[j].pos = bateaux[i].cell[j].pos
      BY <3>2 DEF TirerBateau
    <3>4. bateaux' = bateaux \/ \E c : bateaux' = TirerBateau(bateaux, c, nbBateau)
      BY <2>1 DEF RecevoirTir, Tirer
    <3> QED
      BY <3>3, <3>4
  <2>2. CASE ~RecevoirTir
    BY <1>1, <2>2, ApresPlacement
  <2> QED
    BY <2>1, <2>2
<1>2. CASE phase \in AvantJeu
  <2>1. EnPas
    BY <1>2, Debut
  <2>2. CASE phase = "poll"
    BY <2>1, <2>2, PollServeur, BateauFidele
  <2>3. CASE phase # "poll"
    <3>1. phase \in {"infos", "infos_ack", "bateaux"}
      BY <1>2, <2>3 DEF AvantJeu
    <3> QED
      BY <2>1, <3>1, AvantPlacement DEF Flotte, AvantJeu, Joueurs
  <2> QED
    BY <2>2, <2>3
<1> QED
  BY <1>1, <1>2

----------------------------------------------------------------------------
(***************************************************************************)
(* The invariant.                                                          *)
(***************************************************************************)

\* The players enter the game registered.
LEMMA InvInitial == ASSUME Fiable, Init PROVE Anneau /\ Flotte /\ EnPas
<1>1. nbBateau = 0 /\ phase = "infos" /\ idx = 0
  BY DEF Fiable, Init
<1>2. Anneau /\ Flotte
  BY <1>1, ZeroJoueur DEF Anneau, Flotte, AvantJeu
<1>3. ASSUME NEW i \in Joueurs PROVE Inscrit(i)
  <2>1. PICK tard \in SUBSET Joueurs :
          /\ cpc = [j \in Joueurs |-> IF j \in tard THEN "acceptation" ELSE "infos"]
          /\ s2c = [j \in Joueurs |-> IF j \in tard THEN <<Ok>> ELSE <<>>]
    BY DEF Init
  <2>2. Present(i) /\ c2s[i] = <<>>
    BY <2>1 DEF Init, Present
  <2>3. CASE i \in tard
    BY <2>1, <2>2, <2>3 DEF Inscrit, Un
  <2>4. CASE i \notin tard
    BY <2>1, <2>2, <2>4 DEF Inscrit
  <2> QED
    BY <2>3, <2>4
<1>4. EnPas
  BY <1>1, <1>3 DEF EnPas, Etape, Joueurs
<1> QED
  BY <1>1, <1>2, <1>4

LEMMA InvsInit ==
  ASSUME Fiable, Init
  PROVE  InvD /\ (Sain => InvP)
<1>1. pannes = Pannes
  BY DEF Init
<1> QED
  BY <1>1, InvInitial, EnPasEnCours DEF InvD, InvP, Sain

\* The step of the server, at its stage or after the end.
LEMMA EtapeServeur ==
  ASSUME TypeOK, Fiable, Anneau, Serveur \/ Lancer, phase \notin AvantJeu, ~EtatAck,
         ~EcritureFatale, NEW j \in Joueurs, Etape(j)
  PROVE  Etape(j)'
<1>1. ~EnvoyerInfos /\ ~InfosAck /\ ~DemanderBateaux /\ ~RecevoirBateau
  BY DEF AvantJeu, EnvoyerInfos, EnvoyerPuis, InfosAck, RecevoirAck, DemanderBateaux,
         RecevoirBateau
<1> QED
  BY <1>1, EnvoyerPlateauEtape, PlateauAckEtape, EnvoyerGoEtape, GoAckEtape, RecevoirTirEtape,
     EnvoyerEtatEtape, CalculEtape DEF Serveur

LEMMA PlacementServeur ==
  ASSUME TypeOK, Fiable, Anneau, EnPas, Serveur \/ Lancer, phase \in AvantJeu
  PROVE  EnPas'
<1>1. ~EnvoyerPlateau /\ ~EnvoyerGo /\ ~EnvoyerEtat /\ ~PlateauAck /\ ~GoAck /\ ~EtatAck
  BY DEF AvantJeu, EnvoyerPlateau, EnvoyerGo, EnvoyerEtat, EnvoyerPuis, PlateauAck, GoAck,
         EtatAck, RecevoirAck
<1>2. ~Lancer /\ ~VerifierFinPartie /\ ~RecevoirTir
  BY DEF AvantJeu, Lancer, VerifierFinPartie, RecevoirTir
<1> QED
  BY <1>1, <1>2, EnvoyerInfosEnPas, InfosAckEnPas, DemanderBateauxEnPas, RecevoirBateauEnPas,
     PasDEcritureFatale DEF Serveur

LEMMA EnPasServeur ==
  ASSUME TypeOK, Fiable, Anneau, EnPas, Serveur \/ Lancer
  PROVE  EnPas' \/ JeuFini'
<1>1. ASSUME EtatAck, phase' # "etat" PROVE EnPas' \/ JeuFini'
  <2>1. \A j \in Joueurs : Sait(j)'
    BY <1>1, EtatAckEtape DEF EnPas
  <2> QED
    BY <1>1, <2>1, FinDeTour DEF EnPas, JeuFini
<1>2. ASSUME EtatAck, phase' = "etat" PROVE EnPas'
  BY <1>2, EtatAckEtape DEF EnPas
<1>3. ASSUME ~EtatAck, phase \notin AvantJeu PROVE EnPas'
  BY <1>3, EtapeServeur, PasDEcritureFatale DEF EnPas
<1> QED
  BY <1>1, <1>2, <1>3, PlacementServeur

\* With dead clients, the step may also be the last one of the server.
LEMMA EnCoursServeur ==
  ASSUME TypeOK, Fiable, Anneau, EnCours, Serveur \/ Lancer
  PROVE  EnCours' \/ JeuFini' \/ Arret'
<1>1. ASSUME phase \in AvantJeu PROVE EnCours'
  <2>1. EnPas'
    BY <1>1, Debut, PlacementServeur
  <2> QED
    BY <2>1 DEF EnPas, EnCours
<1>2. ASSUME EcritureFatale PROVE Arret'
  <2>1. phase' = "tue" /\ UNCHANGED <<s2c, c2s, cpc>>
    BY <1>2 DEF EcritureFatale, clients, reseau
  <2>2. \A i \in Joueurs : Descend(i)' /\ Monte(i)'
    BY <2>1, EnRoute DEF Descend, Monte, DId, Salves, Coups
  <2> QED
    BY <2>1, <2>2 DEF Arret
<1>3. ASSUME EtatAck, phase' # "etat" PROVE EnCours' \/ JeuFini'
  <2>1. phase' \in {"retour", "plateau"} /\ ~EcritureFatale
    BY <1>3 DEF EtatAck, EcritureFatale, RecevoirAck, Boucler
  <2>2. \A j \in Joueurs : Sait(j)' \/ Eteint(j)'
    BY <1>3, <2>1, EtatAckEtape, EteintServeur DEF EnCours
  <2>3. CASE phase' = "plateau" /\ Finale'
    <3>1. ASSUME NEW j \in Joueurs, Eteint(j)' PROVE Apres(j)'
      <4>1. Parti(j)'
        BY <2>3, <3>1 DEF Eteint, Ferme, Reliquat, Parti
      <4> QED
        BY <2>3, <4>1 DEF Apres, Calme, AvantJeu
    <3> QED
      BY <1>3, <2>2, <2>3, <3>1, FinDeTour DEF JeuFini
  <2>4. CASE ~(phase' = "plateau" /\ Finale')
    BY <1>3, <2>2, <2>4, FinDeTour DEF EnCours
  <2> QED
    BY <2>3, <2>4
<1>4. ASSUME EtatAck, phase' = "etat" PROVE EnCours'
  <2>1. ~EcritureFatale
    BY <1>4 DEF EtatAck, EcritureFatale, RecevoirAck
  <2> QED
    BY <1>4, <2>1, EtatAckEtape, EteintServeur DEF EnCours
<1>5. ASSUME ~EtatAck, ~EcritureFatale, phase \notin AvantJeu PROVE EnCours'
  BY <1>5, EtapeServeur, EteintServeur DEF EnCours
<1> QED
  BY <1>1, <1>2, <1>3, <1>4, <1>5

LEMMA JeuFiniServeur ==
  ASSUME TypeOK, Anneau, JeuFini, Serveur \/ Lancer
  PROVE  JeuFini'
<1>1. phase \notin AvantJeu \cup {"pause"}
  BY ZeroJoueur DEF JeuFini, Apres
<1>2. ~EnvoyerInfos /\ ~InfosAck /\ ~DemanderBateaux /\ ~RecevoirBateau /\ ~Lancer
  BY <1>1 DEF AvantJeu, EnvoyerInfos, EnvoyerPuis, InfosAck, RecevoirAck, DemanderBateaux,
              RecevoirBateau, Lancer
<1> QED
  BY <1>2, EnvoyerPlateauFini, PlateauAckFini, TourSeul, FataleFini DEF Serveur

\* Behind its last step there is none.
LEMMA ArretFini == ASSUME Arret PROVE ~(Serveur \/ Lancer)
  BY DEF Arret, Serveur, EnvoyerInfos, InfosAck, DemanderBateaux, RecevoirBateau,
     EnvoyerPlateau, PlateauAck, EnvoyerGo, GoAck, RecevoirTir, VerifierFinPartie, EnvoyerEtat,
     EtatAck, EcritureFatale, EnvoyerPuis, RecevoirAck, Lancer

\* A step in which nothing happens.
LEMMA Repos ==
  ASSUME Termine \/ UNCHANGED vars
  PROVE  /\ Anneau /\ Flotte => Anneau' /\ Flotte'
         /\ EnPas => EnPas'
         /\ EnCours => EnCours'
         /\ JeuFini => JeuFini'
         /\ Arret => Arret'
<1>1. /\ UNCHANGED <<phase, idx, nbRecu, bateaux, nbBateau, bateau, cpc, s2c, c2s>>
      /\ UNCHANGED plateau /\ \A j \in Joueurs : Intouche(j)
  BY DEF Termine, vars, plateau, Intouche
<1>2. Anneau /\ Flotte => Anneau' /\ Flotte'
  BY <1>1 DEF Anneau, Flotte
<1>3. \A j \in Joueurs : Etape(j) => Etape(j)'
  BY <1>1, Fige DEF Etape
<1>4. \A j \in Joueurs : Eteint(j) => Eteint(j)'
  BY <1>1, EteintFige
<1>5. JeuFini => JeuFini'
  BY <1>1, Fige DEF JeuFini, Apres
<1>6. Arret => Arret'
  BY <1>1 DEF Arret, Descend, Monte, DId, Salves, Coups
<1> QED
  BY <1>2, <1>3, <1>4, <1>5, <1>6 DEF EnPas, EnCours

LEMMA InvPStep == ASSUME Sain, Inv, InvP, [Next]_vars PROVE InvP'
<1> USE DEF Inv, Sain
<1>1. CASE Serveur \/ Lancer
  <2>1. pannes' = 0 /\ Anneau' /\ Flotte'
    BY <1>1, ServeurSeul, AnneauServeur, FlotteServeur, EnPasEnCours DEF InvP
  <2>2. EnPas' \/ JeuFini'
    BY <1>1, EnPasServeur, JeuFiniServeur DEF InvP
  <2> QED
    BY <2>1, <2>2 DEF InvP
<1>2. CASE \E i \in Joueurs : Client(i)
  BY <1>2, InvPClient
<1>3. ~RecevoirFantome
  BY PasDeFantome DEF InvP
<1>4. CASE Termine \/ UNCHANGED vars
  <2>1. pannes' = pannes
    BY <1>4 DEF Termine, vars
  <2> QED
    BY <1>4, <2>1, Repos DEF InvP
<1> QED
  BY <1>1, <1>2, <1>3, <1>4 DEF Next

LEMMA InvDStep == ASSUME Fiable, Inv, InvD, Tardif, Tardif', [Next]_vars PROVE InvD'
<1> USE DEF Inv
<1>1. CASE Serveur \/ Lancer
  <2>1. Anneau' /\ Flotte'
    BY <1>1, AnneauServeur, FlotteServeur DEF InvD
  <2>2. EnCours' \/ JeuFini' \/ Arret'
    BY <1>1, EnCoursServeur, JeuFiniServeur, ArretFini DEF InvD
  <2> QED
    BY <2>1, <2>2 DEF InvD
<1>2. CASE ~Perdu /\ \E i \in Joueurs : Client(i)
  BY <1>2, InvDClient
<1>3. ~RecevoirFantome
  BY PasDeFantome DEF InvD
<1>4. CASE Termine \/ UNCHANGED vars
  BY <1>4, Repos DEF InvD
<1> QED
  BY <1>1, <1>2, <1>3, <1>4 DEF Next

----------------------------------------------------------------------------
(***************************************************************************)
(* What the invariant says of the queues.                                  *)
(***************************************************************************)

\* A queue that is not empty, and what is in front of it.
LEMMA Tete ==
  ASSUME NEW S, NEW q \in Seq(S), NEW A, NEW M
  PROVE  /\ Un(q, A) => Head(q) \in A
         /\ Deux(q, A, M) => Head(q) \in A /\ q[2] \in M
<1>1. q # <<>> => Head(q) = q[1]
  OBVIOUS
<1> QED
  BY <1>1, Exclusion DEF Un, Deux

\* What the server finds where it reads.
LEMMA Lue ==
  ASSUME TypeOK, EnCours \/ JeuFini \/ Arret, NEW i \in Joueurs, i = idx, c2s[i] # <<>>,
         phase \in Ecoutes
  PROVE  Head(c2s[i]).id \in AttenduServeur(phase)
<1>0. c2s[i] \in Seq(MsgClient) /\ ~(i < idx)
  BY DEF TypeOK, Joueurs
<1>1. EnCours
  BY <1>0 DEF JeuFini, Apres, Ecoutes, AvantJeu, Parti, Calme, Prevenu, Final, Arret
<1>2. Etape(i) \/ Eteint(i)
  BY <1>1 DEF EnCours
<1>3. CASE phase \in {"infos_ack", "plateau_ack", "go_ack", "etat_ack"}
  <2>1. Avise(i) \/ Montre(i) \/ Appele(i) \/ Juge(i) \/ Reliquat(i)
    BY <1>0, <1>2, <1>3 DEF Etape, Eteint
  <2>2. \/ Un(c2s[i], Acquits) \/ Deux(c2s[i], Acquits, CoupDe(i))
        \/ Deux(c2s[i], Acquits, Salves)
    BY <1>0, <1>3, <2>1 DEF Avise, Montre, Appele, Juge, Reliquat
  <2>3. Head(c2s[i]) \in Acquits
    BY <1>0, <2>2, Tete
  <2> QED
    BY <1>3, <2>3, Messages DEF AttenduServeur
<1>4. CASE phase = "poll"
  <2>1. PICK p \in Placements : Un(c2s[i], {Boat(p)})
    BY <1>0, <1>2, <1>4 DEF Etape, Eteint, AvantJeu, Demande
  <2>2. Head(c2s[i]) \in {Boat(p)}
    BY <1>0, <2>1, Tete
  <2> QED
    BY <1>4, <2>2 DEF AttenduServeur, Boat, Req
<1>5. CASE phase = "tir"
  <2>1. Un(c2s[i], CoupDe(i)) \/ Un(c2s[i], Salves)
    BY <1>0, <1>2, <1>5 DEF Etape, Vise, Eteint, Reliquat
  <2>2. Head(c2s[i]) \in Salves
    BY <1>0, <2>1, Tete DEF CoupDe, Salves
  <2> QED
    BY <1>5, <2>2 DEF AttenduServeur, Salves, Coups, Coup, Mort, Req
<1> QED
  BY <1>3, <1>4, <1>5 DEF Ecoutes

LEMMA InvDProtocole == ASSUME TypeOK, InvD PROVE ProtocoleRespecte
<1>1. ASSUME NEW i \in Joueurs, s2c[i] # <<>>
      PROVE  Head(s2c[i]).id \in AttenduClient(cpc[i])
  <2>1. Descend(i)
    BY EnRoute DEF InvD
  <2>2. s2c[i] \in Seq(MsgServeur)
    BY DEF TypeOK
  <2>3. CASE Un(s2c[i], DId(AttenduClient(cpc[i])))
    <3>1. Head(s2c[i]) \in DId(AttenduClient(cpc[i]))
      BY <2>2, <2>3, Tete
    <3> QED
      BY <3>1 DEF DId
  <2>4. CASE Deux(s2c[i], {Ok}, DId(2 .. 10)) /\ 0 \in AttenduClient(cpc[i])
    <3>1. Head(s2c[i]) = Ok
      BY <2>2, <2>4, Tete
    <3> QED
      BY <2>4, <3>1, Messages
  <2> QED
    BY <1>1, <2>1, <2>3, <2>4 DEF Descend
<1> QED
  BY <1>1, Lue DEF InvD, ProtocoleRespecte

LEMMA InvDDeux == ASSUME TypeOK, InvD PROVE DeuxAuPlus
<1> SUFFICES ASSUME NEW i \in Joueurs
             PROVE  /\ Len(s2c[i]) <= 1 \/ (Len(s2c[i]) = 2 /\ Head(s2c[i]) = Ok /\ s2c[i][2] # Ok)
                    /\ Len(c2s[i]) <= 1 \/ (Len(c2s[i]) = 2 /\ Head(c2s[i]).id = 0 /\ c2s[i][2].id = 6)
  BY DEF DeuxAuPlus
<1>1. Descend(i) /\ Monte(i)
  BY EnRoute DEF InvD
<1>2. s2c[i] \in Seq(MsgServeur) /\ c2s[i] \in Seq(MsgClient)
  BY DEF TypeOK
<1>3. Len(s2c[i]) <= 1 \/ (Len(s2c[i]) = 2 /\ Head(s2c[i]) = Ok /\ s2c[i][2] # Ok)
  <2>1. CASE s2c[i] = <<>>
    BY <2>1
  <2>2. CASE Un(s2c[i], DId(AttenduClient(cpc[i])))
    BY <2>2 DEF Un
  <2>3. CASE Deux(s2c[i], {Ok}, DId(2 .. 10))
    <3>1. Head(s2c[i]) = Ok /\ s2c[i][2] \in DId(2 .. 10)
      BY <1>2, <2>3, Tete
    <3> QED
      BY <2>3, <3>1, Messages DEF Deux, DId
  <2> QED
    BY <1>1, <2>1, <2>2, <2>3 DEF Descend
<1>4. Len(c2s[i]) <= 1 \/ (Len(c2s[i]) = 2 /\ Head(c2s[i]).id = 0 /\ c2s[i][2].id = 6)
  <2>1. CASE c2s[i] = <<>> \/ Len(c2s[i]) = 1
    BY <2>1
  <2>2. CASE Deux(c2s[i], Acquits, Salves)
    <3>1. Head(c2s[i]) \in Acquits /\ c2s[i][2] \in Salves
      BY <1>2, <2>2, Tete
    <3>2. c2s[i][2].id = 6
      BY <3>1 DEF Salves, Coups, Coup, Mort, Req
    <3> QED
      BY <2>2, <3>1, <3>2, Messages DEF Deux
  <2> QED
    BY <1>1, <2>1, <2>2 DEF Monte
<1> QED
  BY <1>3, <1>4

\* The server stays inside its arrays.
LEMMA InvDTableaux == ASSUME InvD PROVE DansLesTableaux
<1>1. phase # "egare"
  BY ZeroJoueur DEF InvD, EnCours, Etape, Eteint, JeuFini, Apres, Arret
<1> QED
  BY <1>1 DEF InvD, Anneau, DansLesTableaux

\* Where the server reads and finds nothing, it is not the client's turn to read.
LEMMA InvDInterbloques == ASSUME TypeOK, InvD PROVE JamaisInterbloques
<1> SUFFICES ASSUME NEW i \in Joueurs, i = idx, phase \in Ecoutes, c2s[i] = <<>>,
                    conn[i] = "ouverte", cpc[i] \in Lecteurs
             PROVE  s2c[i] # <<>>
  BY DEF JamaisInterbloques
<1>1. ~(i < idx)
  BY DEF Joueurs
<1>2. ~Un(c2s[i], Acquits) /\ ~\E p \in Placements : Un(c2s[i], {Boat(p)})
  BY DEF Un
<1>3. ~Un(c2s[i], CoupDe(i)) /\ ~Deux(c2s[i], Acquits, CoupDe(i))
  BY DEF Un, Deux
<1>4. CASE JeuFini
  BY <1>1, <1>4 DEF JeuFini, Apres, Ecoutes, AvantJeu, Lecteurs, Parti, Prevenu, Final
<1>5. CASE EnCours
  <2>1. Avise(i) \/ Demande(i) \/ Montre(i) \/ Appele(i) \/ Vise(i) \/ Juge(i)
    BY <1>1, <1>5 DEF EnCours, Etape, Eteint, Ferme, Ecoutes
  <2>2. CASE Avise(i) \/ Demande(i)
    BY <1>2, <2>2, Exclusion DEF Avise, Demande, Lecteurs
  <2>3. CASE Montre(i) \/ Juge(i)
    BY <1>2, <2>3, Exclusion DEF Montre, Juge
  <2>4. CASE Appele(i) \/ Vise(i)
    BY <1>2, <1>3, <2>4, Exclusion DEF Appele, Vise, Joue, Lecteurs
  <2> QED
    BY <2>1, <2>2, <2>3, <2>4
<1> QED
  BY <1>4, <1>5 DEF InvD, Arret, Ecoutes

\* A shot that the server takes into account comes from a player in play.
LEMMA TirEnJeu ==
  ASSUME Fiable, Inv, InvD, [Next]_vars, phase = "tir", cell' # cell, cpc[idx] # "ferme"
  PROVE  cetat[idx] = "EN_JEU"
<1>0. TypeOK
  BY DEF Inv
<1>1. PICK i \in Joueurs : i = idx /\ ~(i < idx)
  BY DEF InvD, Anneau, Joueurs
<1>2. RecevoirTir
  <2>1. ~\E k \in Joueurs : Client(k)
    BY <1>0, ClientSeul DEF plateau
  <2>2. ~Lancer /\ ~RecevoirFantome /\ ~Termine /\ ~UNCHANGED vars
    BY DEF Lancer, RecevoirFantome, Termine, plateau, vars
  <2>3. Serveur
    BY <2>1, <2>2 DEF Next
  <2> QED
    BY <2>3 DEF Serveur, EnvoyerInfos, InfosAck, DemanderBateaux, RecevoirBateau,
       EnvoyerPlateau, PlateauAck, EnvoyerGo, GoAck, VerifierFinPartie, EnvoyerEtat, EtatAck,
       EcritureFatale, EnvoyerPuis, RecevoirAck, plateau
<1>3. EnCours
  BY <1>1 DEF InvD, Arret, JeuFini, Apres, Parti, AvantJeu
<1>4. Vise(i)
  BY <1>1, <1>3 DEF EnCours, Eteint, Ferme, Etape
<1>5. PICK r \in Lecture(c2s[i], conn[i], Residus) : EstTir(r.m)
  BY <1>1, <1>2 DEF RecevoirTir
<1>6. r.m \in CoupDe(i)
  BY <1>0, <1>4, <1>5, TirRecu
<1>7. r.m # Mort
  BY <1>5 DEF EstTir, Mort, Req
<1> QED
  BY <1>1, <1>6, <1>7 DEF CoupDe

----------------------------------------------------------------------------
(***************************************************************************)
(* What is left to do, and the steps that take from it.                    *)
(***************************************************************************)

TravailOK == \A k \in Joueurs : Appels(k) \in 0 .. 8 /\ Pas(k) \in 0 .. 11

LEMMA TravailType == TypeOK => TravailOK
<1> SUFFICES ASSUME TypeOK, NEW i \in Joueurs PROVE Appels(i) \in 0 .. 8 /\ Pas(i) \in 0 .. 11
  BY DEF TravailOK
<1>1. Appels(i) \in 0 .. 8
  BY DEF Appels, Selon
<1>2. Pas(i) \in 0 .. 11
  BY DEF Pas
<1> QED
  BY <1>1, <1>2

\* What a read of client i takes is what its code waits for, the board comes
\* before the shots, and no client leaves before the end.
LEMMA LuClient ==
  ASSUME TypeOK, InvD, ~Perdu, NEW i \in Joueurs, NEW r \in Lectures(i)
  PROVE  r.m.id \in AttenduClient(cpc[i]) /\ (cpc[i] = "plateau" => phase \in AvantLesTirs)
<1>1. s2c[i] # <<>>
  BY ClientAttend
<1>2. r.m = Head(s2c[i])
  BY <1>1 DEF Lectures, Lecture
<1>3. r.m.id \in AttenduClient(cpc[i])
  BY <1>1, <1>2, InvDProtocole DEF ProtocoleRespecte
<1>4. ASSUME cpc[i] = "plateau" PROVE phase \in AvantLesTirs
  <2>1. ~JeuFini
    BY <1>1, <1>4 DEF JeuFini, Apres, TypeOK, Phases, AvantJeu, Parti, Calme, Prevenu, Final
  <2>2. Etape(i)
    BY <1>1, <2>1 DEF InvD, EnCours, Eteint, Ferme, Arret, Perdu
  <2>3. /\ ~Tire(i) /\ ~Voit(i) /\ ~Vise(i) /\ ~Appele(i)
        /\ ~Sait(i) /\ ~Juge(i)
    BY <1>1, <1>4 DEF Tire, Voit, Vise, Appele, Sait, Juge, AttendGo, Joue, AJoue, ApresPlateau
  <2>4. phase \in Phases
    BY DEF TypeOK
  <2> QED
    BY <2>2, <2>3, <2>4 DEF Etape, Phases, AvantLesTirs, AvantJeu
<1> QED
  BY <1>3, <1>4

LEMMA PasDeSortie ==
  ASSUME TypeOK, EnCours \/ JeuFini, NEW i \in Joueurs PROVE cpc[i] # "sortie"
  BY Etapes DEF EnCours, Eteint, Ferme, JeuFini, Inscrit, Avise, Informe, Demande, Pret,
     Montre, Voit, Appele, Vise, Tire, Juge, Sait, Parti, Calme, Prevenu, Final, AttendGo, Joue, AJoue, ApresPlateau, Ailleurs

\* A client never goes back before the next round.
LEMMA PasClient ==
  ASSUME TypeOK, Fiable, InvD, ~Perdu, NEW i \in Joueurs, Client(i), ~Panne(i)
  PROVE  Pas(i)' < Pas(i)
<1> USE DEF Pas, AttenduClient
<1>0. cpc[i] # "sortie"
  BY PasDeSortie DEF InvD, Arret, Perdu
<1>1. phase' = phase
  BY ClientSeul DEF serveur
<1>2. ASSUME NEW r, NEW suite, Lire(i, r, suite) PROVE cpc'[i] = suite
  BY <1>2 DEF Lire, TypeOK
<1>3. CASE Acceptation(i) \/ AttentePartie(i) \/ EnvoyerBateau(i)
  BY <1>2, <1>3 DEF Acceptation, AttentePartie, EnvoyerBateau
<1>4. CASE MenuPlacerBateau(i)
  BY <1>4 DEF MenuPlacerBateau, TypeOK
<1>5. CASE BateauRep(i)
  <2>1. PICK r \in Lectures(i) :
          IF r.m.id = 0 THEN Lire(i, r, "plateau") ELSE Lire(i, r, "placer")
    BY <1>5 DEF BateauRep
  <2>2. r.m.id = 0 /\ cpc[i] = "bateau_rep"
    BY <1>5, LuClient DEF BateauRep
  <2> QED
    BY <1>1, <1>2, <2>1, <2>2
<1>6. CASE RecevoirPlateau(i)
  <2>1. PICK r \in Lectures(i) : Lire(i, r, ApresPlateau(cetat[i]))
    BY <1>6 DEF RecevoirPlateau
  <2>2. cpc[i] = "plateau" /\ phase \in AvantLesTirs
    BY <1>6, <2>1, LuClient DEF RecevoirPlateau
  <2> QED
    BY <1>2, <2>1, <2>2 DEF ApresPlateau
<1>7. CASE JouerCoup(i) \/ CoupRep(i) \/ GoMort(i) \/ MortRep(i)
  BY <1>2, <1>7 DEF JouerCoup, CoupRep, GoMort, MortRep
<1>8. CASE FinTimer(i) \/ EnvoyerMort(i)
  BY <1>8 DEF FinTimer, EnvoyerMort, TypeOK
<1>9. CASE RecevoirEtat(i)
  <2>1. cpc[i] = "etat" /\ cpc'[i] \in {"fin", "plateau"}
    BY <1>2, <1>9 DEF RecevoirEtat
  <2>2. phase \notin AvantLesTirs
    <3>1. PICK r \in Lectures(i) : TRUE
      BY <1>9 DEF RecevoirEtat
    <3>2. s2c[i] # <<>>
      BY <3>1, ClientAttend
    <3>3. Etape(i)
      BY <2>1 DEF InvD, EnCours, Eteint, Ferme, Arret, JeuFini, Apres, TypeOK, Phases, AvantJeu,
                  Parti, Calme, Prevenu, Final, Perdu
    <3>4. /\ ~Inscrit(i) /\ ~Avise(i) /\ ~Informe(i) /\ ~Demande(i) /\ ~Pret(i)
          /\ ~Montre(i) /\ ~Voit(i)
      BY <2>1 DEF Inscrit, Avise, Informe, Demande, Pret, Montre, Voit, AttendGo, ApresPlateau
    <3> QED
      BY <3>3, <3>4 DEF Etape, AvantLesTirs, AvantJeu
  <2> QED
    BY <1>1, <2>1, <2>2
<1>10. CASE Quitter(i)
  BY <1>0, <1>10 DEF Quitter, Fermer, TypeOK
<1> QED
  BY <1>3, <1>4, <1>5, <1>6, <1>7, <1>8, <1>9, <1>10 DEF Client, ClientAuto

LEMMA AvanceClient ==
  ASSUME TypeOK, TypeOK', Fiable, InvD, ~Perdu, NEW i \in Joueurs, Client(i), ~Panne(i)
  PROVE  /\ \A k \in Joueurs : Travail(k)' <= Travail(k)
         /\ Travail(i)' < Travail(i)
<1>1. /\ phase' = phase /\ idx' = idx
      /\ \A k \in Joueurs \ {i} : cpc'[k] = cpc[k]
  BY ClientSeul DEF serveur, Intouche
<1>2. \A k \in Joueurs : Appels(k)' = Appels(k)
  BY <1>1 DEF Appels, Selon
<1>3. \A k \in Joueurs \ {i} : Pas(k)' = Pas(k)
  BY <1>1 DEF Pas
<1>4. Pas(i)' < Pas(i)
  BY PasClient
<1>5. TravailOK /\ TravailOK'
  BY TravailType, PTL
<1> QED
  BY <1>2, <1>3, <1>4, <1>5 DEF Travail, TravailOK

\* The server calls on the players one after the other, and on each the number
\* of times the phase says.
LEMMA AppelsServeur ==
  ASSUME Fiable, TypeOK, Anneau, EnCours \/ JeuFini \/ Arret, Serveur,
         ~(phase = "etat_ack" /\ phase' = "plateau")
  PROVE  /\ \A k \in Joueurs : Appels(k)' <= Appels(k)
         /\ \E k \in Joueurs : Appels(k)' < Appels(k)
         /\ phase' \in AvantLesTirs => phase \in AvantLesTirs
<1>0. idx \in Joueurs
  BY DEF Anneau
<1> USE DEF Appels, Selon, Joueurs, AvantLesTirs, AvantJeu, Boucler
<1>1. CASE EnvoyerInfos \/ EnvoyerPlateau \/ EnvoyerGo \/ EnvoyerEtat
  BY <1>0, <1>1 DEF EnvoyerInfos, EnvoyerPlateau, EnvoyerGo, EnvoyerEtat, EnvoyerPuis
<1>2. CASE InfosAck
  BY <1>0, <1>2 DEF InfosAck, RecevoirAck
<1>3. CASE PlateauAck
  BY <1>0, <1>3 DEF PlateauAck, RecevoirAck
<1>4. CASE GoAck
  BY <1>0, <1>4 DEF GoAck, RecevoirAck
<1>5. CASE EtatAck
  BY <1>0, <1>5 DEF EtatAck, RecevoirAck
<1>6. CASE DemanderBateaux
  BY <1>0, <1>6 DEF DemanderBateaux
<1>7. CASE RecevoirBateau
  <2>1. phase = "poll" /\ idx \in Joueurs
    BY <1>7 DEF RecevoirBateau
  <2>2. EnPas
    BY <2>1, Debut DEF AvantJeu
  <2>3. IF idx + 1 = nbJoueur THEN phase' = "pause" ELSE phase' = "poll" /\ idx' = idx + 1
    BY <1>7, <2>1, <2>2, BateauCompte
  <2> QED
    BY <2>1, <2>3
<1>8. CASE RecevoirTir
  <2>1. phase = "tir" /\ Boucler("tir", "verif")
    BY <1>8, PasTrop DEF RecevoirTir
  <2> QED
    BY <1>0, <2>1
<1>9. CASE VerifierFinPartie
  <2>1. phase = "verif" /\ idx' = idx
    BY <1>9 DEF VerifierFinPartie
  <2>2. phase' = "etat" /\ idx = 0
    BY <1>9, <2>1, PasTrop DEF Anneau
  <2> QED
    BY <1>0, <2>1, <2>2
<1>10. CASE EcritureFatale
  BY <1>10 DEF EcritureFatale
<1> QED
  BY <1>1, <1>2, <1>3, <1>4, <1>5, <1>6, <1>7, <1>8, <1>9, <1>10 DEF Serveur

LEMMA AvanceServeur ==
  ASSUME Fiable, TypeOK, TypeOK', Anneau, EnCours \/ JeuFini \/ Arret, Serveur,
         ~(phase = "etat_ack" /\ phase' = "plateau")
  PROVE  /\ \A k \in Joueurs : Travail(k)' <= Travail(k)
         /\ \E k \in Joueurs : Travail(k)' < Travail(k)
<1>1. cpc' = cpc
  BY ServeurSeul DEF clients
<1>2. \A k \in Joueurs : Pas(k)' <= Pas(k)
  BY <1>1, AppelsServeur DEF Pas
<1>3. TravailOK /\ TravailOK'
  BY TravailType, PTL
<1>4. \A k \in Joueurs : Travail(k)' <= Travail(k)
  BY <1>2, <1>3, AppelsServeur DEF Travail, TravailOK
<1>5. PICK k \in Joueurs : Appels(k)' < Appels(k)
  BY AppelsServeur
<1>6. Travail(k)' < Travail(k)
  BY <1>2, <1>3, <1>5 DEF Travail, TravailOK
<1> QED
  BY <1>4, <1>6

----------------------------------------------------------------------------
(***************************************************************************)
(* The theorems.                                                           *)
(***************************************************************************)

LEMMA InvPToujours == ASSUME Sain PROVE Spec => [](Inv /\ InvP)
<1>1. Init => Inv /\ InvP
  BY InvInit, InvsInit DEF Sain
<1>2. Inv /\ InvP /\ [Next]_vars => (Inv /\ InvP)'
  BY InvStep, InvPStep
<1> QED
  BY <1>1, <1>2, PTL DEF Spec

\* Nobody comes back to life.
LEMMA PannesJamaisRendues == ASSUME TypeOK, [Next]_vars PROVE pannes' <= pannes
<1>0. pannes \in Int
  BY PannesAssumption DEF TypeOK
<1>1. ASSUME NEW i \in Joueurs, Client(i) PROVE pannes' <= pannes
  BY <1>0, <1>1, ClientSeul DEF Panne
<1>2. CASE RecevoirFantome \/ Termine \/ UNCHANGED vars
  BY <1>0, <1>2 DEF RecevoirFantome, Termine, vars
<1> QED
  BY <1>0, <1>1, <1>2, ServeurSeul DEF Next

LEMMA InvDToujours == ASSUME Fiable PROVE Spec /\ PannesTardives => [](Inv /\ InvD)
<1>1. Init => Inv /\ InvD
  BY InvInit, InvsInit
<1>2. Inv /\ InvD /\ Tardif /\ Tardif' /\ [Next]_vars => (Inv /\ InvD)'
  BY InvStep, InvDStep
<1>3. PannesTardives => []Tardif
  BY PTL DEF PannesTardives, Tardif, AvantJeu
<1> QED
  BY <1>1, <1>2, <1>3, PTL DEF Spec

\* Without failures nobody dies in the placement either.
LEMMA SainTardif == ASSUME Sain PROVE Spec => PannesTardives
<1>1. Inv => (phase \in AvantJeu => pannes = Pannes)
  BY DEF Sain, Inv, TypeOK
<1> QED
  BY <1>1, InvPToujours, PTL DEF PannesTardives

\* The reads and writes of serveur.c and client.c match one by one, from the
\* infos to the last verdict, whatever the number of players and whoever is
\* late, sunk or dead since the placement: each side finds the message its
\* code waits for, never more than two are under way in one direction, the two
\* never wait for each other, and the server stays inside its arrays, whatever
\* the board and the list held before.
THEOREM DialogueTenuToujours == ASSUME Fiable PROVE Spec => DialogueTenu
<1>1. Inv /\ InvD => DansLesTableaux /\ ProtocoleRespecte /\ DeuxAuPlus /\ JamaisInterbloques
  BY InvDTableaux, InvDProtocole, InvDDeux, InvDInterbloques DEF Inv
<1> QED
  BY <1>1, InvDToujours, PTL DEF DialogueTenu

\* The two slots of the ring that are no players are not polled, and no boat is
\* placed or counted beyond the list, before the first death of a client, in
\* whatever game the death comes.
THEOREM MemoireTenueToujours == ASSUME Fiable PROVE Spec => []MemoireTenue
<1> DEFINE I == Inv /\ (pannes = Pannes => InvD)
<1>1. Init => I
  BY InvInit, InvsInit
<1>2. I /\ [Next]_vars => I'
  <2> SUFFICES ASSUME Inv, pannes = Pannes => InvD, [Next]_vars, pannes' = Pannes
               PROVE  InvD'
    BY InvStep
  <2>1. pannes = Pannes
    <3>1. pannes \in 0 .. Pannes /\ pannes' <= pannes
      BY PannesJamaisRendues DEF Inv, TypeOK
    <3> QED
      BY <3>1, PannesAssumption
  <2> QED
    BY <2>1, InvDStep DEF Tardif
<1>3. I => MemoireTenue
  BY InvDTableaux DEF MemoireTenue
<1> QED
  BY <1>1, <1>2, <1>3, PTL DEF Spec

\* Without failures all of this holds of every game.
THEOREM ProtocoleToujours == ASSUME Sain PROVE Spec => []ProtocoleRespecte
  BY DialogueTenuToujours, SainTardif, PTL DEF DialogueTenu, Sain

\* The programs rely on TCP handing over two messages separately only behind
\* an acknowledgement; there are never three under way in one direction.
THEOREM DeuxAuPlusToujours == ASSUME Sain PROVE Spec => []DeuxAuPlus
  BY DialogueTenuToujours, SainTardif, PTL DEF DialogueTenu, Sain

\* The two programs never wait for each other.
THEOREM JamaisInterbloquesToujours == ASSUME Sain PROVE Spec => []JamaisInterbloques
  BY DialogueTenuToujours, SainTardif, PTL DEF DialogueTenu, Sain

\* With every step between the beginnings of two rounds less is left to do, for
\* any number of players: the placement and each round are finite, and as the
\* programs never wait for each other they end as soon as the players act.
THEOREM AvanceTardive == ASSUME Fiable PROVE Spec /\ PannesTardives => Avance
<1>1. Inv /\ InvD /\ Inv' /\ [Next]_vars =>
        [\/ phase \in {"pause", "etat_ack"} /\ phase' = "plateau"
         \/ pannes' < pannes
         \/ /\ \A i \in Joueurs : Travail(i)' <= Travail(i)
            /\ \E i \in Joueurs : Travail(i)' < Travail(i)]_vars
  <2> SUFFICES ASSUME Inv, InvD, Inv', Next, ~UNCHANGED vars,
                      ~(phase \in {"pause", "etat_ack"} /\ phase' = "plateau"),
                      ~(pannes' < pannes)
               PROVE  /\ \A i \in Joueurs : Travail(i)' <= Travail(i)
                      /\ \E i \in Joueurs : Travail(i)' < Travail(i)
    OBVIOUS
  <2>1. ~Lancer /\ ~RecevoirFantome /\ ~Termine
    BY PasDeFantome DEF Lancer, Termine, Perdu, Inv, InvD
  <2>2. CASE Serveur
    BY <2>2, AvanceServeur DEF Inv, InvD
  <2>3. CASE ~Perdu /\ \E i \in Joueurs : Client(i)
    <3>1. PICK i \in Joueurs : Client(i)
      BY <2>3
    <3>2. ~Panne(i)
      BY DEF Panne, Inv, TypeOK
    <3> QED
      BY <2>3, <3>1, <3>2, AvanceClient DEF Inv
  <2> QED
    BY <2>1, <2>2, <2>3 DEF Next
<1> QED
  BY <1>1, InvDToujours, PTL DEF Spec, Avance

\* Without failures the same holds of every game.
THEOREM AvanceToujours == ASSUME Sain PROVE Spec => Avance
  BY AvanceTardive, SainTardif, PTL DEF Sain

LEMMA InvDFlotte == InvD => FlotteFidele
  BY DEF InvD, Anneau, Flotte, FlotteFidele, AvantJeu

\* recevoir_bateaux leaves its ring with one boat of each player, at the place
\* where that player's program has drawn it.
THEOREM FlotteFideleToujours == ASSUME Sain PROVE Spec => []FlotteFidele
  BY InvDFlotte, InvDToujours, SainTardif, PTL DEF Sain

\* recevoir_tir polls a sunk player like any other: what it finds there is
\* "mort", and the board does not change; whoever has died in the rounds.
THEOREM CoulesSeTaisentTardive == ASSUME Fiable PROVE Spec /\ PannesTardives => CoulesSeTaisent
<1>1. Inv /\ InvD /\ [Next]_vars =>
        [phase = "tir" /\ cell' # cell /\ cpc[idx] # "ferme" => cetat[idx] = "EN_JEU"]_vars
  BY TirEnJeu
<1> QED
  BY <1>1, InvDToujours, PTL DEF Spec, CoulesSeTaisent

\* Without failures the same holds of every game.
THEOREM CoulesSeTaisentToujours == ASSUME Sain PROVE Spec => CoulesSeTaisent
  BY CoulesSeTaisentTardive, SainTardif, PTL DEF Sain
==============================================================================
