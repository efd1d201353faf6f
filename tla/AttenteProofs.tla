--------------------------- MODULE AttenteProofs ---------------------------
(***************************************************************************)
(* Proofs about the waiting room, for any set of clients, any number of    *)
(* places, any length of the listening queue and any number of crashes.    *)
(***************************************************************************)
EXTENDS Attente, SequenceTheorems, FiniteSetTheorems, TLAPS

\* What the two threads know of each other: the display thread ends when it
\* sets etat, with two players or more; the main thread takes a connection
\* only for a free place, and begins the game only when etat is set.
Ordre ==
  /\ tpc = "fini" <=> etat = 1
  /\ etat = 1 => nbJoueur >= 2
  /\ mpc \in {"accept", "pseudo"} => nbJoueur < maxJoueur
  /\ mpc = "pseudo" => courant \in Clients
  /\ mpc = "lance" => etat = 1

Inv == TypeOK /\ Ordre

\* The room opens empty, with a place for the first player.
LEMMA InvInit == Init => Inv
  BY MaxAssumption, FileAssumption, PannesAssumption
  DEF Init, Inv, TypeOK, Ordre, nbJoueur

----------------------------------------------------------------------------
\* A queue without its first element is a shorter queue of the same kind.
LEMMA QueueEnMoins ==
  ASSUME NEW S, NEW q \in Seq(S), q # <<>>
  PROVE  Head(q) \in S /\ Tail(q) \in Seq(S) /\ Len(Tail(q)) <= Len(q)
  BY HeadTailProperties

\* A queue with one element more.
LEMMA QueueEnPlus ==
  ASSUME NEW S, NEW q \in Seq(S), NEW x \in S
  PROVE  Append(q, x) \in Seq(S) /\ Len(Append(q, x)) = Len(q) + 1
  BY AppendProperties

\* Both facts for a queue of messages of one kind.
LEMMA QueueDIds ==
  ASSUME NEW n
  PROVE  /\ <<>> \in Seq({n})
         /\ \A q \in Seq({n}) : /\ Append(q, n) \in Seq({n})
                                /\ q # <<>> => Tail(q) \in Seq({n})
  BY QueueEnMoins, QueueEnPlus

\* The main thread.
LEMMA PrincipalStep == Inv /\ Principal => Inv'
<1> SUFFICES ASSUME Inv, Principal PROVE Inv'
  OBVIOUS
<1> USE DEF Inv, nbJoueur
<1>1. CASE Boucler
  <2>1. Len(players) \in Nat
    BY LenProperties DEF TypeOK
  <2> QED
    BY <1>1, <2>1, MaxAssumption DEF Boucler, Complet, TypeOK, Ordre
<1>2. CASE Joindre
  <2>1. conn' \in [Clients -> {"aucune", "ouverte", "fermee", "reset", "close"}]
    BY <1>2 DEF Joindre, Lancer, TypeOK
  <2>2. file' = <<>> /\ file' \in Seq(Clients) /\ Len(file') <= FILE_ECOUTE
    BY <1>2, FileAssumption DEF Joindre, Lancer
  <2> QED
    BY <1>2, <2>1, <2>2 DEF Joindre, Lancer, TypeOK, Ordre
<1>3. CASE Accepter
  <2>1. /\ Head(file) \in Clients
        /\ Tail(file) \in Seq(Clients)
        /\ Len(Tail(file)) <= FILE_ECOUTE
    <3>1. Len(file) \in Nat /\ Len(Tail(file)) \in Nat
      BY <1>3, QueueEnMoins, LenProperties DEF Accepter, TypeOK
    <3> QED
      BY <1>3, <3>1, QueueEnMoins, FileAssumption DEF Accepter, TypeOK
  <2>2. CASE etat = 1
    <3>1. conn' \in [Clients -> {"aucune", "ouverte", "fermee", "reset", "close"}]
      BY <1>3, <2>2 DEF Accepter, Lancer, TypeOK
    <3>2. file' = <<>> /\ file' \in Seq(Clients) /\ Len(file') <= FILE_ECOUTE
      BY <1>3, <2>2, FileAssumption DEF Accepter, Lancer
    <3> QED
      BY <1>3, <2>1, <2>2, <3>1, <3>2 DEF Accepter, Lancer, TypeOK, Ordre
  <2>3. CASE etat # 1
    <3>1. s2c' \in [Clients -> Seq({0})]
      <4>1. s2c[Head(file)] \in Seq({0}) /\ Append(s2c[Head(file)], 0) \in Seq({0})
        BY <2>1, QueueDIds DEF TypeOK
      <4> QED
        BY <1>3, <2>1, <2>3, <4>1 DEF Accepter, Envoyer, TypeOK
    <3>2. conn' \in [Clients -> {"aucune", "ouverte", "fermee", "reset", "close"}]
      BY <1>3, <2>1, <2>3 DEF Accepter, Envoyer, TypeOK
    <3> QED
      BY <1>3, <2>1, <2>3, <3>1, <3>2 DEF Accepter, TypeOK, Ordre
  <2> QED
    BY <2>2, <2>3
<1>4. CASE RecevoirPseudo
  <2>1. PICK r \in Lectures(courant) :
          /\ c2s' = [c2s EXCEPT ![courant] = r.reste]
          /\ mpc' = "boucle"
          /\ IF r.id = 1
             THEN players' = Append(players, courant) /\ Envoyer(courant, 0)
             ELSE /\ UNCHANGED <<players, s2c>>
                  /\ conn' = [conn EXCEPT ![courant] = "close"]
    BY <1>4 DEF RecevoirPseudo, Inscrire
  <2>2. courant \in Clients /\ nbJoueur < maxJoueur
    BY <1>4 DEF RecevoirPseudo, Ordre
  <2>3. r.reste \in Seq({1})
    <3>1. CASE c2s[courant] # <<>>
      <4>1. r.reste = Tail(c2s[courant])
        BY <2>1, <3>1 DEF Lectures
      <4> QED
        BY <2>2, <3>1, <4>1, QueueEnMoins DEF TypeOK
    <3>2. CASE c2s[courant] = <<>>
      <4>1. r.reste = <<>>
        BY <2>1, <3>2 DEF Lectures
      <4> QED
        BY <4>1, QueueDIds
    <3> QED
      BY <3>1, <3>2
  <2>4. c2s' \in [Clients -> Seq({1})]
    BY <2>1, <2>3 DEF TypeOK
  <2>5. /\ players' \in Seq(Clients)
        /\ nbJoueur' <= maxJoueur
        /\ nbJoueur' >= nbJoueur
        /\ Len(players) \in Nat /\ Len(players') \in Nat
    <3>1. Len(players) \in Nat
      BY LenProperties DEF TypeOK
    <3>2. CASE r.id = 1
      <4>1. players' \in Seq(Clients) /\ Len(players') = Len(players) + 1
        <5>1. players \in Seq(Clients) /\ players' = Append(players, courant)
          BY <2>1, <3>2 DEF TypeOK
        <5> QED
          BY <2>2, <5>1, QueueEnPlus
      <4> QED
        BY <2>2, <3>1, <4>1, MaxAssumption
    <3>3. CASE r.id # 1
      BY <2>1, <3>1, <3>3 DEF TypeOK
    <3> QED
      BY <3>2, <3>3
  <2>6. s2c' \in [Clients -> Seq({0})]
    <3>1. s2c[courant] \in Seq({0}) /\ Append(s2c[courant], 0) \in Seq({0})
      BY <2>2, QueueDIds DEF TypeOK
    <3> QED
      BY <2>1, <2>2, <3>1 DEF Envoyer, TypeOK
  <2>7. conn' \in [Clients -> {"aucune", "ouverte", "fermee", "reset", "close"}]
    BY <2>1, <2>2 DEF Envoyer, TypeOK
  <2>8. TypeOK'
    BY <1>4, <2>1, <2>4, <2>5, <2>6, <2>7 DEF RecevoirPseudo, TypeOK
  <2>9. Ordre'
    BY <1>4, <2>1, <2>5 DEF RecevoirPseudo, Ordre
  <2> QED
    BY <2>8, <2>9
<1>5. CASE EcritureFatale
  BY <1>5 DEF EcritureFatale, TypeOK, Ordre
<1> QED
  BY <1>1, <1>2, <1>3, <1>4, <1>5 DEF Principal

\* A client.
LEMMA ClientStep == ASSUME NEW c \in Clients PROVE Inv /\ Client(c) => Inv'
<1> SUFFICES ASSUME Inv, Client(c) PROVE Inv'
  OBVIOUS
<1> USE DEF Inv, nbJoueur
<1>1. CASE Connecter(c)
  <2>1. file' \in Seq(Clients) /\ Len(file') <= FILE_ECOUTE
    <3>1. Len(file) \in Nat
      BY LenProperties DEF TypeOK
    <3>2. Append(file, c) \in Seq(Clients) /\ Len(Append(file, c)) <= FILE_ECOUTE
      BY <1>1, <3>1, QueueEnPlus, FileAssumption DEF Connecter, TypeOK
    <3> QED
      BY <1>1, <3>2 DEF Connecter, TypeOK
  <2> QED
    BY <1>1, <2>1 DEF Connecter, TypeOK, Ordre
<1>2. CASE Invitation(c)
  <2>1. s2c' \in [Clients -> Seq({0})]
    <3>1. s2c[c] # <<>> => Tail(s2c[c]) \in Seq({0})
      <4>1. s2c[c] \in Seq({0})
        BY DEF TypeOK
      <4> QED
        BY <4>1, QueueDIds
    <3> QED
      BY <1>2, <3>1 DEF Invitation, TypeOK
  <2> QED
    BY <1>2, <2>1 DEF Invitation, TypeOK, Ordre
<1>3. CASE Acceptation(c)
  <2>1. s2c' \in [Clients -> Seq({0})]
    <3>1. s2c[c] # <<>> => Tail(s2c[c]) \in Seq({0})
      <4>1. s2c[c] \in Seq({0})
        BY DEF TypeOK
      <4> QED
        BY <4>1, QueueDIds
    <3> QED
      BY <1>3, <3>1 DEF Acceptation, TypeOK
  <2> QED
    BY <1>3, <2>1 DEF Acceptation, TypeOK, Ordre
<1>4. CASE Saisir(c)
  <2>1. c2s' \in [Clients -> Seq({1})]
    <3>1. c2s[c] \in Seq({1}) /\ Append(c2s[c], 1) \in Seq({1})
      BY QueueDIds DEF TypeOK
    <3> QED
      BY <1>4, <3>1 DEF Saisir, TypeOK
  <2> QED
    BY <1>4, <2>1 DEF Saisir, TypeOK, Ordre
<1>5. CASE Panne(c)
  <2>1. s2c' \in [Clients -> Seq({0})]
    BY <1>5 DEF Panne, TypeOK
  <2>2. pannes' \in 0 .. Pannes
    BY <1>5, PannesAssumption DEF Panne, TypeOK
  <2> QED
    BY <1>5, <2>1, <2>2 DEF Panne, TypeOK, Ordre
<1> QED
  BY <1>1, <1>2, <1>3, <1>4, <1>5 DEF Client, ClientAuto

\* Every step preserves the invariant.
LEMMA InvStep == Inv /\ [Next]_vars => Inv'
<1> SUFFICES ASSUME Inv, [Next]_vars PROVE Inv'
  OBVIOUS
<1>1. CASE Entree
  BY <1>1 DEF Entree, Inv, TypeOK, Ordre, nbJoueur
<1>2. CASE Repos \/ UNCHANGED vars
  BY <1>2 DEF Repos, vars, Inv, TypeOK, Ordre, nbJoueur
<1> QED
  BY <1>1, <1>2, PrincipalStep, ClientStep DEF Next

----------------------------------------------------------------------------
\* The room never holds more players than the parameter allows, and every
\* variable keeps its type, whoever connects, crashes or launches, and when.
THEOREM TypeCorrect == Spec => []TypeOK
<1>1. Inv => TypeOK
  BY DEF Inv
<1> QED
  BY <1>1, InvInit, InvStep, PTL DEF Spec

\* However the two threads interleave, attente_joueur begins a game only after
\* the operator's Enter, with at least two players.
THEOREM LancementVouluToujours == Spec => []LancementVoulu
<1>1. Inv => LancementVoulu
  <2> SUFFICES ASSUME Inv PROVE LancementVoulu
    OBVIOUS
  <2>1. Len(players) \in Nat
    BY LenProperties DEF Inv, TypeOK
  <2> QED
    BY <2>1, MaxAssumption DEF Inv, TypeOK, Ordre, LancementVoulu, nbJoueur
<1> QED
  BY <1>1, InvInit, InvStep, PTL DEF Spec
----------------------------------------------------------------------------
(***************************************************************************)
(* Who is left out when the game begins.                                   *)
(***************************************************************************)

\* The elements of a queue.
Elements(q) == {q[k] : k \in 1 .. Len(q)}
EnFile == Elements(file)

\* A client whose connection the server has neither served nor closed.
Libre(c) == c \notin Inscrits /\ conn[c] = "ouverte" /\ cpc[c] # "ferme"

\* The listening socket is open until the launch.  Until then a client that is
\* not registered waits in the queue, or is the one the main thread serves;
\* after it only the client of the last accept can be left.
Oubli ==
  /\ mpc # "lance" <=> ecoute
  /\ mpc \notin {"lance", "tue"} =>
       \A c \in Clients : Libre(c) => c \in EnFile \/ (mpc = "pseudo" /\ c = courant)
  /\ mpc = "lance" => \A c \in Clients : Libre(c) => c = courant

\* Elements of a queue that grows, or loses its first element.
LEMMA ElementsEnPlus ==
  ASSUME NEW S, NEW q \in Seq(S), NEW x \in S
  PROVE  /\ Append(q, x) \in Seq(S)
         /\ Elements(Append(q, x)) = Elements(q) \cup {x}
<1>1. /\ Append(q, x) \in Seq(S)
      /\ Len(q) \in Nat
      /\ Len(Append(q, x)) = Len(q) + 1
      /\ \A k \in 1 .. Len(q) : Append(q, x)[k] = q[k]
      /\ Append(q, x)[Len(q) + 1] = x
  BY AppendProperties, LenProperties
<1> QED
  BY <1>1 DEF Elements

\* The elements of a queue and those of its tail.
LEMMA ElementsEnMoins ==
  ASSUME NEW S, NEW q \in Seq(S), q # <<>>
  PROVE  /\ Tail(q) \in Seq(S)
         /\ Elements(q) = {Head(q)} \cup Elements(Tail(q))
<1>1. /\ Tail(q) \in Seq(S)
      /\ Len(q) \in Nat /\ Len(q) >= 1
      /\ Len(Tail(q)) = Len(q) - 1
      /\ \A k \in 1 .. Len(Tail(q)) : Tail(q)[k] = q[k + 1]
      /\ Head(q) = q[1]
  BY HeadTailProperties, LenProperties, EmptySeq
<1>2. ASSUME NEW k \in 1 .. Len(q)
      PROVE  q[k] = Head(q) \/ \E j \in 1 .. Len(Tail(q)) : q[k] = Tail(q)[j]
  <2>1. CASE k = 1
    BY <1>1, <2>1
  <2>2. CASE k # 1
    <3>1. k - 1 \in 1 .. Len(Tail(q)) /\ Tail(q)[k - 1] = q[k]
      BY <1>1, <2>2
    <3> QED
      BY <3>1
  <2> QED
    BY <2>1, <2>2
<1>3. ASSUME NEW j \in 1 .. Len(Tail(q))
      PROVE  \E k \in 1 .. Len(q) : Tail(q)[j] = q[k]
  <2>1. j + 1 \in 1 .. Len(q) /\ Tail(q)[j] = q[j + 1]
    BY <1>1
  <2> QED
    BY <2>1
<1>4. Head(q) \in {q[k] : k \in 1 .. Len(q)}
  BY <1>1
<1> QED
  BY <1>1, <1>2, <1>3, <1>4 DEF Elements

\* The empty room.
LEMMA OubliInit == Init => Oubli
  BY DEF Init, Oubli, Libre

\* A step that leaves the threads, the queue and the players alone, and in
\* which no connection opens, leaves nobody out.
LEMMA OubliCalme ==
  ASSUME Oubli, UNCHANGED <<mpc, players, courant, file, ecoute>>,
         \A c \in Clients : conn'[c] = "ouverte" /\ cpc'[c] # "ferme"
                              => conn[c] = "ouverte" /\ cpc[c] # "ferme"
  PROVE  Oubli'
  BY DEF Oubli, Libre, EnFile, Inscrits, nbJoueur

\* The main thread: the launch empties the queue.
LEMMA OubliPrincipal == Inv /\ Oubli /\ Principal => Oubli'
<1> SUFFICES ASSUME Inv, Oubli, Principal PROVE Oubli'
  OBVIOUS
<1> USE DEF Inv
<1>1. CASE Boucler
  BY <1>1 DEF Boucler, Oubli, Libre, EnFile, Inscrits, nbJoueur
<1>2. CASE Joindre
  <2>1. ASSUME NEW c \in Clients PROVE ~Libre(c)'
    <3>1. Libre(c)' => Libre(c) /\ c \notin EnFile
      <4>1. conn'[c] = IF c \in EnFile THEN "reset" ELSE conn[c]
        BY <1>2 DEF Joindre, Lancer, EnFile, Elements
      <4>2. Inscrits' = Inscrits /\ cpc' = cpc
        BY <1>2 DEF Joindre, Inscrits, nbJoueur
      <4> QED
        BY <4>1, <4>2 DEF Libre
    <3> QED
      BY <1>2, <3>1 DEF Joindre, Oubli
  <2> QED
    BY <1>2, <2>1 DEF Joindre, Lancer, Oubli
<1>3. CASE Accepter
  <2>1. /\ Head(file) \in Clients
        /\ EnFile = {Head(file)} \cup Elements(Tail(file))
    <3>1. file \in Seq(Clients) /\ file # <<>>
      BY <1>3 DEF Accepter, TypeOK
    <3> QED
      BY <3>1, ElementsEnMoins, QueueEnMoins DEF EnFile
  <2>2. CASE etat = 1
    <3>1. ASSUME NEW c \in Clients, Libre(c)' PROVE c = courant'
      <4>1. Libre(c) /\ c \notin Elements(Tail(file))
        <5>1. conn'[c] = IF c \in Elements(Tail(file)) THEN "reset" ELSE conn[c]
          BY <1>3, <2>2 DEF Accepter, Lancer, Elements
        <5>2. Inscrits' = Inscrits /\ cpc' = cpc
          BY <1>3 DEF Accepter, Inscrits, nbJoueur
        <5> QED
          BY <3>1, <5>1, <5>2 DEF Libre
      <4>2. c \in EnFile
        BY <1>3, <4>1 DEF Accepter, Oubli
      <4> QED
        BY <1>3, <2>1, <4>1, <4>2 DEF Accepter
    <3> QED
      BY <1>3, <2>2, <3>1 DEF Accepter, Lancer, Oubli
  <2>3. CASE etat # 1
    <3>1. ASSUME NEW c \in Clients, Libre(c)' PROVE c \in EnFile' \/ c = courant'
      <4>1. Libre(c)
        BY <1>3, <2>1, <2>3, <3>1 DEF Accepter, Envoyer, Libre, Inscrits, nbJoueur, TypeOK
      <4>2. c \in EnFile
        BY <1>3, <4>1 DEF Accepter, Oubli
      <4>3. file' = Tail(file) /\ courant' = Head(file)
        BY <1>3, <2>3 DEF Accepter
      <4> QED
        BY <2>1, <4>2, <4>3 DEF EnFile
    <3> QED
      BY <1>3, <2>3, <3>1 DEF Accepter, Oubli
  <2> QED
    BY <2>2, <2>3
<1>4. CASE RecevoirPseudo
  <2>1. courant \in Clients
    BY <1>4 DEF RecevoirPseudo, Ordre
  <2>2. \/ players' = Append(players, courant) /\ Envoyer(courant, 0)
        \/ /\ UNCHANGED players
           /\ conn' = [conn EXCEPT ![courant] = "close"]
    BY <1>4 DEF RecevoirPseudo, Inscrire
  <2>3. Inscrits \subseteq Inscrits' /\ (courant \in Inscrits' \/ conn'[courant] = "close")
    <3>1. CASE players' = Append(players, courant)
      <4>1. Inscrits = Elements(players) /\ Inscrits' = Elements(players')
        BY DEF Inscrits, nbJoueur, Elements
      <4>2. players \in Seq(Clients)
        BY DEF TypeOK
      <4> QED
        BY <2>1, <3>1, <4>1, <4>2, ElementsEnPlus
    <3>2. CASE UNCHANGED players /\ conn' = [conn EXCEPT ![courant] = "close"]
      BY <2>1, <3>2 DEF TypeOK, Inscrits, nbJoueur
    <3> QED
      BY <2>2, <3>1, <3>2
  <2>4. ASSUME NEW c \in Clients, Libre(c)' PROVE c \in EnFile'
    <3>1. conn[c] = "ouverte" /\ cpc[c] # "ferme" /\ c # courant
      BY <1>4, <2>1, <2>2, <2>3, <2>4 DEF RecevoirPseudo, Envoyer, Libre, TypeOK
    <3>2. Libre(c)
      BY <2>3, <2>4, <3>1 DEF Libre
    <3> QED
      BY <1>4, <3>1, <3>2 DEF RecevoirPseudo, Oubli, EnFile
  <2> QED
    BY <1>4, <2>4 DEF RecevoirPseudo, Oubli
<1>5. CASE EcritureFatale
  BY <1>5 DEF EcritureFatale, Oubli
<1> QED
  BY <1>1, <1>2, <1>3, <1>4, <1>5 DEF Principal

\* The clients: only one that joins the queue opens a connection.
LEMMA OubliClient == ASSUME NEW c \in Clients PROVE Inv /\ Oubli /\ Client(c) => Oubli'
<1> SUFFICES ASSUME Inv, Oubli, Client(c) PROVE Oubli'
  OBVIOUS
<1>1. CASE Connecter(c)
  <2>1. CASE ecoute
    <3>1. EnFile' = EnFile \cup {c}
      <4>1. file \in Seq(Clients) /\ file' = Append(file, c)
        BY <1>1, <2>1 DEF Connecter, Inv, TypeOK
      <4> QED
        BY <4>1, ElementsEnPlus DEF EnFile
    <3>2. ASSUME NEW b \in Clients, b # c PROVE Libre(b)' => Libre(b)
      BY <1>1, <2>1, <3>2 DEF Connecter, Libre, Inscrits, nbJoueur, Inv, TypeOK
    <3> QED
      BY <1>1, <2>1, <3>1, <3>2 DEF Connecter, Oubli
  <2>2. CASE ~ecoute
    BY <1>1, <2>2, OubliCalme DEF Connecter, Inv, TypeOK
  <2> QED
    BY <2>1, <2>2
<1>2. CASE Invitation(c)
  BY <1>2, OubliCalme DEF Invitation, Inv, TypeOK
<1>3. CASE Acceptation(c)
  BY <1>3, OubliCalme DEF Acceptation, Inv, TypeOK
<1>4. CASE Saisir(c)
  BY <1>4, OubliCalme DEF Saisir, Inv, TypeOK
<1>5. CASE Panne(c)
  BY <1>5, OubliCalme DEF Panne, Inv, TypeOK
<1> QED
  BY <1>1, <1>2, <1>3, <1>4, <1>5 DEF Client, ClientAuto

\* Every step.
LEMMA OubliStep == Inv /\ Oubli /\ [Next]_vars => Oubli'
<1> SUFFICES ASSUME Inv, Oubli, [Next]_vars PROVE Oubli'
  OBVIOUS
<1>1. CASE Entree
  BY <1>1, OubliCalme DEF Entree
<1>2. CASE Repos \/ UNCHANGED vars
  BY <1>2, OubliCalme DEF Repos, vars
<1> QED
  BY <1>1, <1>2, OubliPrincipal, OubliClient DEF Next

\* However many clients connect, and whenever Enter is pressed, the launch
\* leaves at most one of them connected and waiting for ever: attente_joueur
\* closes the listening socket, and with it the whole queue.
THEOREM UnSeulOublieToujours == Spec => []UnSeulOublie
<1>1. Oubli => UnSeulOublie
  <2> SUFFICES ASSUME Oubli, mpc = "lance"
               PROVE  Cardinality({c \in Clients \ Inscrits :
                                     conn[c] = "ouverte" /\ cpc[c] # "ferme"}) <= 1
    BY DEF UnSeulOublie
  <2> DEFINE L == {c \in Clients \ Inscrits : conn[c] = "ouverte" /\ cpc[c] # "ferme"}
  <2>1. L = {} \/ L = {courant}
    BY DEF Oubli, Libre
  <2>2. Cardinality({}) = 0 /\ Cardinality({courant}) = 1
    BY FS_EmptySet, FS_Singleton
  <2> QED
    BY <2>1, <2>2
<1>2. Inv /\ Oubli /\ [Next]_vars => (Inv /\ Oubli)'
  BY InvStep, OubliStep
<1> QED
  BY <1>1, <1>2, InvInit, OubliInit, PTL DEF Spec
----------------------------------------------------------------------------
(***************************************************************************)
(* Server and clients agree on who plays, as long as no client has died.   *)
(***************************************************************************)

\* The stages of a connection, of which the program of the client and the
\* messages under way are two sides.
EnAttente(c) == conn[c] = "ouverte" /\ cpc[c] = "invite" /\ s2c[c] = <<>> /\ c2s[c] = <<>>

Servi(c) ==
  /\ conn[c] = "ouverte"
  /\ \/ cpc[c] = "invite" /\ s2c[c] = <<0>> /\ c2s[c] = <<>>
     \/ cpc[c] = "saisie" /\ s2c[c] = <<>> /\ c2s[c] = <<>>
     \/ cpc[c] = "attente_ok" /\ s2c[c] = <<>> /\ c2s[c] = <<1>>

Accepte(c) ==
  /\ conn[c] = "ouverte" /\ c2s[c] = <<>>
  /\ \/ cpc[c] = "attente_ok" /\ s2c[c] = <<0>>
     \/ cpc[c] = "pret" /\ s2c[c] = <<>>

AuDehors(c) ==
  /\ s2c[c] = <<>> /\ c2s[c] = <<>>
  /\ cpc[c] \in {"hors", "invite", "saisie", "ferme"}
  /\ cpc[c] = "saisie" => conn[c] = "reset"

\* Where the server has the client: among the players, being served, in the
\* queue of the kernel, or nowhere.
EnService(c) == mpc = "pseudo" /\ c = courant

Suivi(c) ==
  /\ c \in Inscrits => Accepte(c) /\ ~EnService(c) /\ c \notin EnFile
  /\ EnService(c) => Servi(c) /\ c \notin EnFile
  /\ c \in EnFile => EnAttente(c)
  /\ c \notin Inscrits /\ ~EnService(c) /\ c \notin EnFile => AuDehors(c)

SansDouble(q) == \A j, k \in 1 .. Len(q) : q[j] = q[k] => j = k

Registre ==
  pannes = Pannes => SansDouble(file) /\ \A c \in Clients : Suivi(c)

\* Nobody has come yet.
LEMMA RegistreInit == Init => Registre
  BY DEF Init, Registre, SansDouble, Suivi, EnService, Inscrits, nbJoueur, EnFile, Elements, AuDehors

\* Queues without repetition.
LEMMA SansDoubleEnPlus ==
  ASSUME NEW S, NEW q \in Seq(S), NEW x \in S, SansDouble(q), x \notin Elements(q)
  PROVE  SansDouble(Append(q, x))
<1>1. /\ Len(q) \in Nat
      /\ Len(Append(q, x)) = Len(q) + 1
      /\ \A k \in 1 .. Len(q) : Append(q, x)[k] = q[k]
      /\ Append(q, x)[Len(q) + 1] = x
  BY AppendProperties, LenProperties
<1>2. SUFFICES ASSUME NEW j \in 1 .. Len(q) + 1, NEW k \in 1 .. Len(q) + 1,
                      Append(q, x)[j] = Append(q, x)[k]
               PROVE  j = k
  BY <1>1 DEF SansDouble
<1>3. CASE j = Len(q) + 1 \/ k = Len(q) + 1
  BY <1>1, <1>2, <1>3 DEF Elements
<1>4. CASE j \in 1 .. Len(q) /\ k \in 1 .. Len(q)
  BY <1>1, <1>2, <1>4 DEF SansDouble
<1> QED
  BY <1>1, <1>3, <1>4

\* The same for a queue that loses its first element.
LEMMA SansDoubleEnMoins ==
  ASSUME NEW S, NEW q \in Seq(S), q # <<>>, SansDouble(q)
  PROVE  SansDouble(Tail(q)) /\ Head(q) \notin Elements(Tail(q))
<1>1. /\ Len(q) \in Nat /\ Len(q) >= 1
      /\ Len(Tail(q)) = Len(q) - 1
      /\ \A k \in 1 .. Len(Tail(q)) : Tail(q)[k] = q[k + 1]
      /\ Head(q) = q[1]
  BY HeadTailProperties, LenProperties, EmptySeq
<1>2. SansDouble(Tail(q))
  <2> SUFFICES ASSUME NEW j \in 1 .. Len(Tail(q)), NEW k \in 1 .. Len(Tail(q)),
                      Tail(q)[j] = Tail(q)[k]
               PROVE  j = k
    BY DEF SansDouble
  <2>1. q[j + 1] = q[k + 1] /\ j + 1 \in 1 .. Len(q) /\ k + 1 \in 1 .. Len(q)
    BY <1>1
  <2>2. j + 1 = k + 1
    BY <2>1 DEF SansDouble
  <2> QED
    BY <2>2
<1>3. Head(q) \notin Elements(Tail(q))
  <2> SUFFICES ASSUME NEW k \in 1 .. Len(Tail(q)), Tail(q)[k] = Head(q) PROVE FALSE
    BY DEF Elements
  <2>1. q[k + 1] = q[1] /\ k + 1 \in 1 .. Len(q) /\ 1 \in 1 .. Len(q)
    BY <1>1
  <2>2. k + 1 = 1
    BY <2>1 DEF SansDouble
  <2> QED
    BY <2>2
<1> QED
  BY <1>2, <1>3

\* A step that leaves the server's side alone and takes one client from a
\* stage to a stage of the same kind.
LEMMA SuiviAvance ==
  ASSUME Inv, Registre, pannes = Pannes, NEW c \in Clients,
         UNCHANGED <<mpc, players, courant, file, pannes>>,
         \A b \in Clients \ {c} : /\ conn'[b] = conn[b] /\ cpc'[b] = cpc[b]
                                  /\ s2c'[b] = s2c[b] /\ c2s'[b] = c2s[b],
         Accepte(c) => Accepte(c)', Servi(c) => Servi(c)',
         EnAttente(c) => EnAttente(c)', AuDehors(c) => AuDehors(c)'
  PROVE  Registre'
<1>1. SansDouble(file') /\ EnFile' = EnFile /\ Inscrits' = Inscrits
  BY DEF Registre, SansDouble, EnFile, Inscrits, nbJoueur
<1>2. ASSUME NEW b \in Clients PROVE Suivi(b)'
  <2>1. Suivi(b) /\ (EnService(b)' <=> EnService(b))
    BY DEF Registre, EnService
  <2>2. CASE b = c
    BY <1>1, <2>1, <2>2 DEF Suivi
  <2>3. CASE b # c
    <3>1. /\ Accepte(b) => Accepte(b)'
          /\ Servi(b) => Servi(b)'
          /\ EnAttente(b) => EnAttente(b)'
          /\ AuDehors(b) => AuDehors(b)'
      BY <2>3 DEF Accepte, Servi, EnAttente, AuDehors
    <3> QED
      BY <1>1, <2>1, <3>1 DEF Suivi
  <2> QED
    BY <2>2, <2>3
<1> QED
  BY <1>1, <1>2 DEF Registre, SansDouble

\* The queues of one message that occur in a handshake.
LEMMA UnMessage ==
  ASSUME NEW n
  PROVE  /\ <<n>> # <<>> /\ Head(<<n>>) = n /\ Tail(<<n>>) = <<>>
         /\ Append(<<>>, n) = <<n>>
  OBVIOUS

\* The clients: each step goes from one stage of the handshake to the next.
LEMMA RegistreClient ==
  ASSUME NEW c \in Clients, Inv, Registre, Client(c) PROVE Registre'
<1>1. CASE pannes' # Pannes
  BY <1>1 DEF Registre
<1>2. CASE pannes' = Pannes
  <2>1. ~Panne(c) /\ pannes = Pannes
    BY <1>2, PannesAssumption DEF Inv, TypeOK, Client, ClientAuto, Panne, Connecter,
                                  Invitation, Acceptation, Saisir
  <2> USE <2>1
  <2>2. /\ conn \in [Clients -> {"aucune", "ouverte", "fermee", "reset", "close"}]
        /\ cpc \in [Clients -> {"hors", "invite", "saisie", "attente_ok", "pret", "ferme"}]
        /\ DOMAIN s2c = Clients /\ DOMAIN c2s = Clients
        /\ file \in Seq(Clients)
    BY DEF Inv, TypeOK
  <2>3. CASE Connecter(c)
    <3>1. Suivi(c) /\ cpc[c] = "hors" /\ SansDouble(file)
      BY <2>3 DEF Registre, Connecter
    <3>2. c \notin Inscrits /\ ~EnService(c) /\ c \notin EnFile /\ AuDehors(c)
      BY <3>1 DEF Suivi, Accepte, Servi, EnAttente
    <3>3. CASE ecoute
      <4>1. /\ file' = Append(file, c) /\ conn' = [conn EXCEPT ![c] = "ouverte"]
            /\ cpc' = [cpc EXCEPT ![c] = "invite"]
            /\ UNCHANGED <<mpc, players, courant, s2c, c2s, pannes>>
        BY <2>3, <3>3 DEF Connecter
      <4>2. EnFile' = EnFile \cup {c} /\ SansDouble(file') /\ Inscrits' = Inscrits
        BY <2>2, <3>1, <3>2, <4>1, ElementsEnPlus, SansDoubleEnPlus
        DEF EnFile, Inscrits, nbJoueur
      <4>3. EnAttente(c)' /\ ~EnService(c)'
        BY <2>2, <3>2, <4>1 DEF EnAttente, EnService, AuDehors
      <4>4. ASSUME NEW b \in Clients, b # c PROVE Suivi(b)'
        <5>1. Suivi(b) /\ (EnService(b)' <=> EnService(b))
          BY <4>1 DEF Registre, EnService
        <5>2. /\ Accepte(b) => Accepte(b)'
              /\ Servi(b) => Servi(b)'
              /\ EnAttente(b) => EnAttente(b)'
              /\ AuDehors(b) => AuDehors(b)'
          BY <2>2, <4>1, <4>4 DEF Accepte, Servi, EnAttente, AuDehors
        <5> QED
          BY <4>2, <4>4, <5>1, <5>2 DEF Suivi
      <4>5. Suivi(c)'
        BY <3>2, <4>2, <4>3 DEF Suivi
      <4> QED
        BY <4>2, <4>4, <4>5 DEF Registre, SansDouble
    <3>4. CASE ~ecoute
      <4>1. /\ cpc' = [cpc EXCEPT ![c] = "ferme"]
            /\ UNCHANGED <<mpc, players, courant, file, conn, s2c, c2s, pannes>>
        BY <2>3, <3>4 DEF Connecter
      <4>2. AuDehors(c)'
        BY <2>2, <3>2, <4>1 DEF AuDehors
      <4>3. ~Accepte(c) /\ ~Servi(c) /\ ~EnAttente(c)
        BY <3>1 DEF Accepte, Servi, EnAttente
      <4> QED
        BY <2>2, <4>1, <4>2, <4>3, SuiviAvance
    <3> QED
      BY <3>3, <3>4
  <2>4. CASE Invitation(c)
    <3>1. UNCHANGED <<mpc, players, courant, file, c2s, conn, pannes>>
      BY <2>4 DEF Invitation
    <3>2. \A b \in Clients \ {c} : cpc'[b] = cpc[b] /\ s2c'[b] = s2c[b]
      BY <2>2, <2>4 DEF Invitation
    <3>3. /\ cpc[c] = "invite"
          /\ \/ /\ s2c[c] # <<>> /\ s2c'[c] = Tail(s2c[c])
                /\ cpc'[c] = IF Head(s2c[c]) = 0 THEN "saisie" ELSE "ferme"
             \/ /\ conn[c] = "reset" /\ s2c'[c] = s2c[c]
                /\ cpc'[c] \in {"saisie", "ferme"}
      BY <2>2, <2>4 DEF Invitation
    <3>4. /\ ~Accepte(c) /\ ~EnAttente(c)
          /\ Servi(c) => Servi(c)'
          /\ AuDehors(c) => AuDehors(c)'
      BY <3>1, <3>3, UnMessage DEF Accepte, Servi, EnAttente, AuDehors
    <3> QED
      BY <3>1, <3>2, <3>4, SuiviAvance
  <2>5. CASE Acceptation(c)
    <3>1. UNCHANGED <<mpc, players, courant, file, c2s, conn, pannes>>
      BY <2>5 DEF Acceptation
    <3>2. \A b \in Clients \ {c} : cpc'[b] = cpc[b] /\ s2c'[b] = s2c[b]
      BY <2>2, <2>5 DEF Acceptation
    <3>3. /\ cpc[c] = "attente_ok" /\ s2c[c] # <<>> /\ s2c'[c] = Tail(s2c[c])
          /\ cpc'[c] = IF Head(s2c[c]) = 0 THEN "pret" ELSE "ferme"
      BY <2>2, <2>5 DEF Acceptation
    <3>4. /\ ~Servi(c) /\ ~EnAttente(c) /\ ~AuDehors(c)
          /\ Accepte(c) => Accepte(c)'
      BY <3>1, <3>3, UnMessage DEF Accepte, Servi, EnAttente, AuDehors
    <3> QED
      BY <3>1, <3>2, <3>4, SuiviAvance
  <2>6. CASE Saisir(c)
    <3>1. UNCHANGED <<mpc, players, courant, file, s2c, conn, pannes>>
      BY <2>6 DEF Saisir
    <3>2. \A b \in Clients \ {c} : cpc'[b] = cpc[b] /\ c2s'[b] = c2s[b]
      BY <2>2, <2>6 DEF Saisir
    <3>3. /\ cpc[c] = "saisie"
          /\ \/ conn[c] = "reset" /\ cpc'[c] = "ferme" /\ c2s'[c] = c2s[c]
             \/ /\ conn[c] # "reset" /\ cpc'[c] = "attente_ok"
                /\ c2s'[c] = Append(c2s[c], 1)
      BY <2>2, <2>6 DEF Saisir
    <3>4. /\ ~Accepte(c) /\ ~EnAttente(c)
          /\ Servi(c) => Servi(c)'
          /\ AuDehors(c) => AuDehors(c)'
      BY <3>1, <3>3, UnMessage DEF Accepte, Servi, EnAttente, AuDehors
    <3> QED
      BY <3>1, <3>2, <3>4, SuiviAvance
  <2> QED
    BY <2>1, <2>3, <2>4, <2>5, <2>6 DEF Client, ClientAuto
<1> QED
  BY <1>1, <1>2
\* What the main thread does to clients other than the one it serves.
LEMMA SuiviAutre ==
  ASSUME NEW b \in Clients, Suivi(b), ~EnService(b), ~EnService(b)',
         b \in Inscrits' <=> b \in Inscrits, b \in EnFile' <=> b \in EnFile,
         conn'[b] = conn[b], cpc'[b] = cpc[b], s2c'[b] = s2c[b], c2s'[b] = c2s[b]
  PROVE  Suivi(b)'
  BY DEF Suivi, Accepte, EnAttente, AuDehors

\* The launch: what is left of the queue is reset.
LEMMA RegistreLancer ==
  ASSUME Inv, Registre, pannes = Pannes, pannes' = Pannes, NEW reste,
         Lancer(reste), UNCHANGED <<players, cpc, s2c, c2s>>,
         mpc # "pseudo", Elements(reste) \subseteq EnFile
  PROVE  Registre'
<1>1. /\ mpc' = "lance" /\ file' = <<>>
      /\ \A b \in Clients : conn'[b] = IF b \in Elements(reste) THEN "reset" ELSE conn[b]
  BY DEF Lancer, Elements
<1>2. EnFile' = {} /\ SansDouble(file') /\ Inscrits' = Inscrits
  BY <1>1 DEF EnFile, Elements, SansDouble, Inscrits, nbJoueur
<1>3. ASSUME NEW b \in Clients PROVE Suivi(b)'
  <2>1. Suivi(b) /\ ~EnService(b) /\ ~EnService(b)'
    BY <1>1 DEF Registre, EnService
  <2>2. CASE b \in Inscrits
    <3>1. Accepte(b) /\ b \notin EnFile
      BY <2>1, <2>2 DEF Suivi
    <3>2. Accepte(b)'
      BY <1>1, <3>1 DEF Accepte
    <3> QED
      BY <1>2, <2>1, <2>2, <3>2 DEF Suivi
  <2>3. CASE b \notin Inscrits
    <3>1. EnAttente(b) \/ AuDehors(b)
      BY <2>1, <2>3 DEF Suivi
    <3>2. AuDehors(b)'
      BY <1>1, <3>1 DEF EnAttente, AuDehors
    <3> QED
      BY <1>2, <2>1, <2>3, <3>2 DEF Suivi
  <2> QED
    BY <2>2, <2>3
<1> QED
  BY <1>2, <1>3 DEF Registre, SansDouble

\* The main thread: accept takes a client from the queue into service, its
\* pseudo makes it a player.
LEMMA RegistrePrincipal ==
  ASSUME Inv, Registre, Principal PROVE Registre'
<1>1. CASE pannes # Pannes
  BY <1>1 DEF Registre, Principal, Boucler, Joindre, Accepter, RecevoirPseudo, EcritureFatale
<1>2. CASE pannes = Pannes
  <2> USE <1>2
  <2>1. pannes' = Pannes
    BY DEF Principal, Boucler, Joindre, Accepter, RecevoirPseudo, EcritureFatale
  <2>2. /\ conn \in [Clients -> {"aucune", "ouverte", "fermee", "reset", "close"}]
        /\ DOMAIN s2c = Clients /\ DOMAIN c2s = Clients
        /\ file \in Seq(Clients) /\ players \in Seq(Clients)
    BY DEF Inv, TypeOK
  <2>3. SansDouble(file) /\ \A b \in Clients : Suivi(b)
    BY DEF Registre
  <2>4. CASE Boucler
    <3>1. mpc # "pseudo" /\ mpc' # "pseudo" /\ UNCHANGED <<players, file, conn, cpc, s2c, c2s>>
      BY <2>4 DEF Boucler
    <3>2. EnFile' = EnFile /\ Inscrits' = Inscrits
      BY <3>1 DEF EnFile, Inscrits, nbJoueur
    <3>3. \A b \in Clients : Suivi(b)'
      BY <2>3, <3>1, <3>2, SuiviAutre DEF EnService
    <3> QED
      BY <2>3, <3>1, <3>3 DEF Registre, SansDouble
  <2>5. CASE Joindre
    <3>1. /\ mpc # "pseudo" /\ Lancer(file) /\ UNCHANGED <<players, cpc, s2c, c2s>>
          /\ Elements(file) \subseteq EnFile
      BY <2>5 DEF Joindre, EnFile
    <3> QED
      BY <2>1, <3>1, RegistreLancer
  <2>6. CASE Accepter
    <3>0. PICK c \in Clients : c = Head(file)
      BY <2>2, <2>6, QueueEnMoins DEF Accepter
    <3>1. /\ file # <<>> /\ mpc = "accept" /\ courant' = c
          /\ UNCHANGED <<players, cpc, c2s>>
      BY <2>6, <3>0 DEF Accepter
    <3>2. /\ EnFile = {c} \cup Elements(Tail(file))
          /\ SansDouble(Tail(file)) /\ c \notin Elements(Tail(file))
      BY <2>2, <2>3, <3>0, <3>1, ElementsEnMoins, SansDoubleEnMoins DEF EnFile
    <3>3. CASE etat = 1
      <4>1. Lancer(Tail(file)) /\ UNCHANGED s2c
        BY <2>6, <3>3 DEF Accepter
      <4> QED
        BY <2>1, <3>1, <3>2, <4>1, RegistreLancer
    <3>4. CASE etat # 1
      <4>1. Envoyer(c, 0) /\ mpc' = "pseudo" /\ file' = Tail(file)
        BY <2>6, <3>0, <3>4 DEF Accepter
      <4>2. Suivi(c) /\ c \in EnFile
        BY <2>3, <3>2
      <4>3. EnAttente(c) /\ c \notin Inscrits
        BY <3>1, <4>2 DEF Suivi
      <4>4. s2c' = [s2c EXCEPT ![c] = <<0>>] /\ conn' = conn
        BY <4>1, <4>3, UnMessage DEF Envoyer, EnAttente
      <4>5. EnFile' = EnFile \ {c} /\ SansDouble(file') /\ Inscrits' = Inscrits
        BY <3>1, <3>2, <4>1 DEF EnFile, Inscrits, nbJoueur
      <4>6. Servi(c)' /\ EnService(c)'
        BY <2>2, <3>1, <3>2, <4>1, <4>3, <4>4 DEF Servi, EnAttente, EnService
      <4>7. Suivi(c)'
        BY <4>3, <4>5, <4>6 DEF Suivi
      <4>8. ASSUME NEW b \in Clients, b # c PROVE Suivi(b)'
        <5>1. ~EnService(b) /\ ~EnService(b)'
          BY <3>1, <4>8 DEF EnService
        <5>2. s2c'[b] = s2c[b] /\ conn'[b] = conn[b] /\ cpc'[b] = cpc[b] /\ c2s'[b] = c2s[b]
          BY <2>2, <3>1, <4>4, <4>8
        <5> QED
          BY <2>3, <4>5, <4>8, <5>1, <5>2, SuiviAutre
      <4> QED
        BY <4>5, <4>7, <4>8 DEF Registre, SansDouble
    <3> QED
      BY <3>3, <3>4
  <2>7. CASE RecevoirPseudo
    <3>1. courant \in Clients /\ EnService(courant) /\ mpc' = "boucle"
      BY <2>7 DEF RecevoirPseudo, Inv, Ordre, EnService
    <3>2. Servi(courant) /\ courant \notin EnFile /\ courant \notin Inscrits
      BY <2>3, <3>1 DEF Suivi
    <3>3. PICK r \in Lectures(courant) :
            /\ c2s' = [c2s EXCEPT ![courant] = r.reste]
            /\ IF r.id = 1
               THEN Inscrire(courant) /\ Envoyer(courant, 0)
               ELSE /\ UNCHANGED <<players, s2c>>
                    /\ conn' = [conn EXCEPT ![courant] = "close"]
      BY <2>7 DEF RecevoirPseudo
    <3>4. /\ cpc[courant] = "attente_ok" /\ s2c[courant] = <<>>
          /\ r.id = 1 /\ r.reste = <<>>
      <4>1. CASE c2s[courant] = <<>>
        BY <3>2, <4>1 DEF Servi, Lectures
      <4>2. CASE c2s[courant] = <<1>>
        <5>1. r = [id |-> 1, reste |-> <<>>]
          BY <4>2, UnMessage DEF Lectures
        <5>2. <<1>> # <<>>
          BY UnMessage
        <5> QED
          BY <3>2, <4>2, <5>1, <5>2 DEF Servi
      <4> QED
        BY <3>2, <4>1, <4>2 DEF Servi
    <3>5. /\ players' = Append(players, courant)
          /\ s2c' = [s2c EXCEPT ![courant] = <<0>>] /\ conn' = conn
          /\ c2s' = [c2s EXCEPT ![courant] = <<>>]
          /\ UNCHANGED <<courant, file, cpc>>
      BY <2>7, <3>2, <3>3, <3>4, UnMessage DEF RecevoirPseudo, Inscrire, Envoyer, Servi
    <3>6. EnFile' = EnFile /\ SansDouble(file') /\ Inscrits' = Inscrits \cup {courant}
      <4>1. Inscrits = Elements(players) /\ Inscrits' = Elements(players')
        BY DEF Inscrits, nbJoueur, Elements
      <4> QED
        BY <2>2, <2>3, <3>1, <3>5, <4>1, ElementsEnPlus DEF EnFile, SansDouble
    <3>7. Accepte(courant)'
      BY <2>2, <3>1, <3>2, <3>4, <3>5 DEF Servi, Accepte
    <3>8. Suivi(courant)'
      BY <3>1, <3>2, <3>5, <3>6, <3>7 DEF Suivi, EnService
    <3>9. ASSUME NEW b \in Clients, b # courant PROVE Suivi(b)'
      <4>1. ~EnService(b) /\ ~EnService(b)'
        BY <3>1, <3>9 DEF EnService
      <4>2. s2c'[b] = s2c[b] /\ conn'[b] = conn[b] /\ cpc'[b] = cpc[b] /\ c2s'[b] = c2s[b]
        BY <2>2, <3>5, <3>9
      <4> QED
        BY <2>3, <3>6, <3>9, <4>1, <4>2, SuiviAutre
    <3> QED
      BY <3>5, <3>6, <3>8, <3>9 DEF Registre
  <2>8. CASE EcritureFatale
    <3>1. courant \in Clients /\ EnService(courant) /\ conn[courant] = "reset"
      BY <2>8 DEF EcritureFatale, Inv, Ordre, EnService
    <3> QED
      BY <2>3, <3>1 DEF Suivi, Servi
  <2> QED
    BY <2>4, <2>5, <2>6, <2>7, <2>8 DEF Principal
<1> QED
  BY <1>1, <1>2

\* Every step.
LEMMA RegistreStep == Inv /\ Registre /\ [Next]_vars => Registre'
<1> SUFFICES ASSUME Inv, Registre, [Next]_vars PROVE Registre'
  OBVIOUS
<1>1. CASE Entree \/ Repos \/ UNCHANGED vars
  <2>1. UNCHANGED <<mpc, players, courant, file, conn, cpc, s2c, c2s, pannes>>
    BY <1>1 DEF Entree, Repos, vars
  <2> QED
    BY <2>1 DEF Registre, SansDouble, Suivi, EnService, Inscrits, nbJoueur, EnFile, Elements,
                Accepte, Servi, EnAttente, AuDehors
<1> QED
  BY <1>1, RegistrePrincipal, RegistreClient DEF Next

\* As long as no client has died, the server's list of players and what the
\* clients take themselves for are the same, at every step of every
\* handshake: the state module Partie begins in.
THEOREM InscritsFidelesToujours == Spec => []InscritsFideles
<1>1. Inv /\ Registre => InscritsFideles
  <2> SUFFICES ASSUME Inv, Registre, pannes = Pannes
               PROVE  /\ \A c \in Clients :
                           c \in Inscrits <=> cpc[c] = "pret"
                                                \/ (cpc[c] = "attente_ok" /\ s2c[c] = <<0>>)
                      /\ \A c \in Inscrits : /\ conn[c] = "ouverte" /\ c2s[c] = <<>>
                                             /\ cpc[c] = "pret" => s2c[c] = <<>>
                      /\ Inscrits \subseteq Clients
    BY DEF InscritsFideles
  <2>1. Inscrits \subseteq Clients
    <3>1. players \in Seq(Clients)
      BY DEF Inv, TypeOK
    <3> QED
      BY <3>1, ElementOfSeq, LenProperties DEF Inscrits, nbJoueur
  <2>2. ASSUME NEW c \in Clients
        PROVE  /\ c \in Inscrits <=> cpc[c] = "pret"
                                       \/ (cpc[c] = "attente_ok" /\ s2c[c] = <<0>>)
               /\ c \in Inscrits => Accepte(c)
    <3>1. Suivi(c)
      BY DEF Registre
    <3>2. <<0>> # <<>>
      BY UnMessage
    <3> QED
      BY <3>1, <3>2 DEF Suivi, Accepte, Servi, EnAttente, AuDehors
  <2> QED
    BY <2>1, <2>2 DEF Accepte
<1>2. Inv /\ Registre /\ [Next]_vars => (Inv /\ Registre)'
  BY InvStep, RegistreStep
<1> QED
  BY <1>1, <1>2, InvInit, RegistreInit, PTL DEF Spec
=============================================================================
