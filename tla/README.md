# A verification of BnBr

BnBr ("Bataille navale, en bataille royale") is a naval battle for up to a
hundred players, each with one boat.  The server (`src/source/serveur.c`) keeps
the board; every player runs a client (`src/source/client.c`) on a terminal.
They talk over TCP through two small layers (`src/lib/data.c`,
`src/lib/session.c`).  This directory holds TLA+ models of the two programs,
the TLC runs that check them, and proofs checked by TLAPS.

There is no specification in the repository beyond the (French) comments of the
code; the models follow the code.  Names of operators, variables and messages
are those of the source.

## Inventory

| Part | State | Operations | Talks to |
|---|---|---|---|
| Server, home screen (`menu_accueil`) | `choix`, the sockets and descriptors a game leaves open | arrow keys, Enter | calls the parameter menu |
| Server, parameter menu (`menu_parametrage_game`, `init_game`) | sizes and limits of `game_t` | arrow keys, Enter, q | hands `game_t` to the waiting room |
| Server, waiting room (`attente_joueur`, `attente_joueur_thread`) | `nbJoueur`, `players`, `etat`, listening socket | accept, registration, Enter, launch | clients (three messages each); two threads share `game_t` |
| Server, game (`lancement_partie` and what it calls) | `board_t` (grid and list of boats), `etat` | infos, collection of boats, board, go, shots, verdict | one connection per player, served one after the other |
| Client, identification (`main`) | pseudo | connect, identify | waiting room |
| Client, placing the boat (`choix_bateau`, `menu_placer_bateau`) | cursor, direction, `game.bateau` | arrow keys, Enter, q | sends the boat to the server |
| Client, aiming (`jouer_coup`) | cursor, clock | arrow keys, time-out of `getch`, deadline | sends the shot to the server |
| Client, game (`attente_partie` ... `recevoir_etat`) | `game.etat`, `game.plateau` | reads and answers, timer of a shot | server |
| Data layer (`envoyer`, `recevoir`, `recevoir_non_block`) | none | one write, one read and parse per call | sockets |
| Session layer (`creerSocketEcoute`, `accepterClt`, `connecterClt2Srv`) | sockets | bind and listen, accept, connect | kernel |
| Terminal output, seven-segment display | none of interest | drawing | - |
| `wiringPi`, `ncurses` | vendored | - | - |

How a game goes.  Every step of the server is a loop over the players which
sends a message and waits for the reply:

    infos(4)/ok  bateaux(3)/boat/ok  [ plateau(2)/ok  go(5)/ok  coup(6)/ok  7|8|9|10/ok ]*

A player whose boat is sunk stays in the loop; its client answers "go" by
"recept" and, at once, by "mort" (6) in the place of a shot.

What makes the code hard to test:

* the two programs follow two scripts that must stay in step, in three variants
  (in play, sunk, finished), for every order in which the players answer;
* `recevoir` makes one `read` of a byte stream into a buffer that is not
  initialised and ignores the result: messages may be merged or cut, and a
  closed connection yields whatever the buffer held;
* a client may vanish at any point, and the write after that may kill the server;
* two threads share `game_t` without synchronisation in the waiting room;
* the server records every boat twice, boats may overlap, and the verdict of a
  round is computed from one of the two records;
* much of `game_t` is never initialised, and the polling loop over the boats
  visits two slots beyond the players, which may lie beyond the array as well;
* a shot has a deadline which is only looked at when `getch` returns, on a clock
  of whole seconds that goes on while the board is drawn;
* the server's process goes from one game to the next with what the first has
  left behind.

`PROJECT.json` lists each of these hazards at its line, with the properties
that look for it.

## Modules

| Module | Models | Extends |
|---|---|---|
| `Plateau` | the board as data: `placer_bateau`, `tirer_bateau`, the verdict, the text form, `decode_plateau` | - |
| `Transport` | one call of `recevoir` on a queue of messages | - |
| `Partie` | one game, server and clients together | `Plateau`, `Transport` |
| `BatailleRoyale` | the game as its players see it: boats, shots, fates, no messages | - |
| `Raffinement` | `Partie` as an implementation of `BatailleRoyale` | `Partie` |
| `Canal` | one direction of a connection as its callers see it: messages | `Transport` |
| `Flux` | the same as bytes, buffer and parser (`data.c`), an implementation of `Canal` | - |
| `Attente` | the waiting room, both threads and the clients | - |
| `Parametrage` | the parameter menu | - |
| `Programme` | the server's process: home screen, menu, one game after the other | `Parametrage` |
| `Placement` | the placement screens of a client | `Plateau` |
| `Tir` | the client's keyboard through a whole game: placement, then one timed shot per round | `Placement` |
| `MCPartie`, `MCAttente`, `MCFlux` | values of the constants for TLC | |
| `PartieProofs`, `ProtocoleProofs`, `VerdictProofs`, `BatailleRoyaleProofs`, `FluxProofs`, `AttenteProofs`, `ProgrammeProofs`, `TirProofs` | theorems and proofs | |

How they fit together: `Parametrage` establishes `BateauTient`, which `Plateau`
assumes (`TailleAssumption`); `Attente` establishes that a launched game has at
least two players and at most `maxJoueur` (`LancementVoulu`), which `Plateau`
assumes (`JoueurAssumption`), and that every connection of a player is open
and carries nothing but an acceptance (`InscritsFideles`), which is the initial
state of `Partie`; `Placement` establishes that the boats a client sends lie
inside the board (`EnvoiFidele`), which `Partie` assumes of `Placements`; `Tir`
establishes that the shots lie on the board (`TypeTir`), which `Partie` assumes
of `Tirs`, and that a shot leaves whatever the player does (`TirPart`), which is
the fairness of its action `FinTimer`.  `BateauTient`, `LancementVoulu`,
`InscritsFideles`, `EnvoiFidele` and `TypeTir` are theorems of the modules that
provide them; `TirPart`, a liveness property, is model-checked.  `Programme` takes from
`LancementVoulu` and `UnSeulOublie` how many sockets a game opens.

### Partie

The server is one thread: `phase` is the call of `recevoir`, `envoyer` or
`getch` at which it stands, `idx` the variable of the loop around that call
(`i`, or `j` in `recevoir_bateaux`).  `cell`, `bateaux`, `nbBateau` are
`board_t`.  A client is one thread: `cpc[i]` is the call at which it stands;
`cetat[i]`, `vue[i]`, `bateau[i]` are its `game.etat`, `game.plateau` and
`game.bateau`.  `s2c[i]` and `c2s[i]` are the messages written and not yet read
on the connection of player `i`, `conn[i]` what the server's end knows of it
(open, closed by the peer, reset).

The game begins in the state in which `attente_joueur` calls it: every player is
registered and its acceptance is written, but any of the clients may not have
read it yet (`tard` in `Init`, action `Acceptation`), so that acceptance and
infos may be under way together.

An action runs from one blocking call to the next.  A read and the write that
follows it without any other blocking call are one action; two writes in a row,
which the other side can see apart, are two.

The transport is `Lecture` of module `Transport`: with a message in the queue a read takes it, and
with `Fusion` may take any number of those behind it, which are lost, since only
the first is parsed.  With an empty queue a read blocks; from a closed
connection it returns at once and the parser finds a residue, whatever the buffer happens to hold (`Residus`): a
message of a client, one with the id of a boat of which no direction can be
read, a boat off the board.  Messages are read whole here; `Flux` says under
which condition that is right.

Memory that is never initialised is a choice in `Init`: `nbBateau` any value of
`nbBateauInit`, the grid any of `grillesInit` (a cell may hold a value outside the
enum, for which the `switch` of `envoyer_plateau` writes nothing, see `Muettes`),
each element of the list of boats one of `bateauxInit`.  The slots beyond the
players (`RecevoirFantome`) are chosen anew at every poll: a descriptor that is
none or not ready (no step), that of something else (`FantomeLu`), that of a
player (`FantomeDouble`), or a number `FD_SET` or a write cannot take
(`FantomeFatal`); and an id from `idsFantomes`, which may lie outside the list.
Where the code then leaves an array (`Deborde`: a boat for an id or a cell
outside; `TropDeBateaux`: a loop over more boats than the list has) the phase is
"egare", from which nothing is followed: what the program does is undefined.
`Perdu` is that, or a server that a write has killed.

Messages are an id, a name and a tuple.  Text is only modelled where its length
matters: `StatusLu` gives a client the first 99 characters of the board.

### BatailleRoyale, Raffinement

`BatailleRoyale` is what a game promises: every player places a boat, then in
every round each player still in play fires one shot, and after the last shot
each is told the fate (`Sort`) which the grid alone decides.  Within a round the
players may be served in any order.  It knows neither messages nor a second
record of the boats.

`Raffinement` maps `Partie` to it.  The grid and the boats are the server's; what
a player was told is `cetat`, the state its own client keeps, so a verdict counts
when the client has read it and not when the server has sent it.  The step of
the abstract game and the players still to be served come from `phase` and `idx`
and, in the moment between the client's reading of a verdict and the server's
reading of the reply, from the empty connection (`Instruit`).  Everything else
the programs do (infos, boards, "go", replies) is a stutter.

After the end (`Apres`) the abstract game promises only that what the players
know stays: the server plays on after a winner (finding 1), and residues may be
taken for shots.

### Attente

`mpc` and `tpc` are the positions of the main and of the display thread.  The
fields they share are read and written in separate steps, so every
interleaving of Enter with accept and registration is explored.  `file` is the
queue of `listen`.  A message is its id.  A client that connects after the
launch finds the socket closed; one that waited in the queue is reset; the one
whose arrival made `accept` return is neither answered nor closed.

### Transport, Canal, Flux

`Flux` is one direction of one connection as `data.c` handles it: what is under
way is the list of messages written, each the bytes of its text and a NUL, of
the first of which `lu` bytes have been read.  A read stores any number of the
bytes that have arrived, as far as the buffer takes them, at the beginning of a
buffer of its own, a local variable that may hold anything (`Souvenirs`) and does
not survive the call.  The parser stops at the first NUL; where the whole buffer
has none it runs on and may return anything.  So a read may end inside a
message, or begin inside one after another that did.

`Canal` is what the callers may rely on, with the operator `Lecture` that `Partie`
uses: a read that begins with a message and takes all of it returns this message
(`Recevoir`), and may swallow others behind it; a read that begins or ends inside
the first message may return anything (`RecevoirPartie`), and so may one at the
end of the stream.  `Raffine` is the refinement.  `SpecEntier` is the part of
`Canal` in which no message is split, the transport of `Partie`; the theorem
`FluxEntier` says that it is implemented as long as no read ends inside a message.
The number of messages under way is bounded by two, which `DeuxAuPlus` of `Partie`
states of the game.

### Parametrage, Programme

One action per group of keys; the screens are left out.  `Programme` adds the
functions around the menu: `ecran` says which of them the one thread of the
server is in.  The only thing of a game that outlives it are the accepted
sockets, which the server never closes: `tenues` counts those that hold the port,
`ouvertes` the descriptors, which nothing gives back.  A connection that the client resets
(it dies with something unread, `Reinitialisation`) lets go of the port but keeps
its descriptor; one that the client closes keeps both.  When the process has no
descriptor left, `accept` returns -1, which the loop of the waiting room takes for
a socket; it goes on without a new one.

### Placement, Tir

`Placement`: the clauses of `Retourner` are the `switch` of
`afficher_plateau_placer_bateau`.  `Tir`: `JouerCoup` is the "go", `Suite` the
body of the loop of `jouer_coup` after a `getch`, which returns with a key
(`Taper`) or after one second (`DelaiGetch`).  The clock has `TICS` ticks to a
second and the loop begins anywhere within one, since `time(NULL)` counts whole
seconds; `seconde` is `time_elapsed`.  `tour` says where in the loop the program
is: in `getch`, between its return and the reading of the clock, or between the
test of the time and the next `getch`, where the board is drawn.  Each of the
last two takes up to `DESSIN` ticks, in which the second may roll over; the clock
only stands still once the program has to move on (`Limite`).

## Runs

| Run | Instance | States | Shows |
|---|---|---|---|
| `partie_base` | 3 players, 4 x 4, boats of 2, three placements, four targets | 402 182 | in step, ring within the players, verdicts and views right, boats coherent, shots final, never more than two messages under way; implements `BatailleRoyale` |
| `partie_pannes` | 2 players, one crash, merged reads, count, grid and list uninitialised | 117 406 | arrays kept until the crash, shots final |
| `partie_vivacite` | 3 players, one crash, fair programs, grid and list uninitialised | 160 722 | boats are collected, rounds end, sunk players learn it; a death in the rounds leaves the others in step and rightly informed, and the server's arrays and records of the boats in order |
| `partie_fin` | 2 players | violation | the game with a winner does not end |
| `partie_fusion` | 3 players, merged reads | violation | a message of a sunk player is lost |
| `partie_defaut` | 2 players, 11 x 11, boats of 5 | violation | the default board does not fit the client's field |
| `attente` | 4 clients, 3 places, one crash, fair programs | 30 602 | only a launched room of two or more plays; both sides agree who; at most one client forgotten; a full, launched room plays; a pseudo is answered |
| `attente_entree` | 2 clients, 3 places | violation | Enter alone does not launch |
| `programme` | 3 players, board 14, boats 6, timeout 16, 8 descriptors at most | 1 213 800 | sizes fit the arrays and each other, through any number of games; the port held by one game at most, descriptors adding up |
| `seconde_partie` | 2 players, board 11, boats 5, timeout 15 at most | violation | no second waiting room |
| `clavier` | 6 x 6, boats of 3, timeout 5, 2 ticks a second, 1 for the drawing | 389 136 | boats inside the board, drawn where they are sent; shots in time, where the screen shows them, and always sent |
| `flux` | 3 texts, one the beginning and one the end of another, buffer of 4 bytes of any content | 710 | bytes, short reads and unset buffers implement the channel |

Bounds and why they are enough.

* Three players are the least with which a sunk player plays on beside two
  others, a round may sink one, two or all, and the survivor may be first,
  middle or last of the array.  With two players no one is ever "sunk and still
  polled".
* Boats of two cells, of which two of the three placements share a cell and the
  third is laid backwards from a corner; targets that hit the shared cell, each
  boat alone, water next to a boat (a boat not placed there), and the corner.
  All pairs of players may choose the same placement: full overlap.
* `Pannes`: one client of two, of three in `partie_vivacite`,
  of four in `attente`.  The server meets every stage of a dead player and living ones
  beside it; every position of the dead one in the loops occurs.
* Unset memory: a grid with a hit, a boat and (in `partie_pannes`) a value outside
  the enum; lists with a boat nobody placed, half of it hit, one of whose cells
  a real boat may take (in `partie_pannes` mixed with cleared ones);
  `nbBateau` 0 or 1; ids of the slots beyond the players inside the players,
  behind them, and outside the list.  `partie_base` takes any of these ids but
  clean memory, since the abstract game begins with an empty grid.
* Rounds are not bounded: the states of the board are finite.
* `partie_defaut` needs the real sizes; two placements and two targets keep it
  small, one target in the first 99 characters of the text and one behind.
* `FILE_ECOUTE` is 3 for 4 clients in place of 10 for 100: the queue can be
  full.
* The limits of `programme` are smaller than those of `serveur.h` (100, 50, 10)
  and still leave every branch of the menu: boards that shrink below two boats,
  boats that grow beyond half a board.  The theorems hold for the real ones.
  `TIMEOUT_MAX` bounds `timeout`, which the menu lets grow without limit and
  nothing else in the server depends on.  `MAX_FD`, 8, is reached by three games.
* In `clavier`, 5 is the least timeout of the menu, and two ticks let `getch` be
  called, and return, in the middle of a second as well as at its beginning;
  `DESSIN`, one of them, is half a second for each side of `getch`, much more than
  the loop needs.
* In `flux`, the texts are as short as they can be while a mixture of two of
  them, or of one and old contents, may look like a third; the buffer just holds
  the longest and its NUL (`TamponAssumption`), so that two messages may fill it
  and be cut, and its contents are every combination of the bytes of the texts.

The runs without failures take `Fusion = FALSE`: they assume that TCP hands the
messages over one by one.  `DeuxAuPlus` says how far the code can rely on it:
two messages may be under way where the server writes behind an acknowledgement
(acceptance and infos, answer to the boat and board, answer to the shot and
verdict), where a client sends its shot behind the answer to "go", and where a
sunk client writes "recept" and "mort".  In all these places but the last the
reader is usually waiting before the second is written; in the last it is not,
and `partie_fusion` shows what happens.  Deadlock is checked in `partie_base`,
`attente`, `programme`, `clavier` and `flux`.  It is off in `partie_pannes` and
`partie_vivacite`, where the program really can hang (a residue is counted as
the boat of a player whose own boat then keeps the ring waiting), and in
`attente_entree`, whose subject is a server that waits.  (In `attente` three
living clients always fill the room.)

### Properties

`ProtocoleRespecte`: the next message each side reads is one its code is
waiting for.  `VerdictJuste`: what every client knows of its fate at the start
of a round is what the boats of the server say.  `VueFidele`: when the shots
are asked for, every player sees all shots and no boat but its own.
`Coherence`, `FlotteFidele`: once the rounds have begun, the two records of the
boat of every player agree with each other and with the client's.
`MemoireTenue`: until a client dies the server polls registered players only and
records nothing outside its arrays.  `DeuxAuPlus`: see above.  `JamaisInterbloques`:
server and client are never both in a read that waits for the other.  `Avance`:
every step but the one that begins a round, and the death of a client, takes a
call from what is left to do for a player and adds none for any, so the placement and each round are finite
sequences of steps, in whatever order the boats and the answers come.
`CoulesSeTaisent`: a player sunk in an earlier round no
longer shoots.  `Raffine`: the two programs, their messages and both records of
the boats implement the abstract game.  `TirsIrreversibles`: the result of a shot stays.  `PlacementAboutit`: the
polling ring, which has two slots too many, collects the boats in whatever order
they come.  `TourTermine`, `NaufrageAnnonce`: rounds end, and the sunk are
told, also when a player dies in the middle of a round.  `DialogueTenu`,
`VerdictTenu`: nor does such a death put the dialogue with the others out of step
(`ProtocoleRespecte`, `DeuxAuPlus`, `JamaisInterbloques`), nor the server out of its
arrays, nor spoil its records of the boats and what the others are
told and shown (`FlotteFidele`, `Coherence`, `VerdictJuste`, `VueFidele`), although the server
goes on reading from the dead client's connection, first what it had sent and
then residues, any of which may be taken for a shot.  Both are stated of the
games in which nobody dies before the boats are placed (`PannesTardives`), since
a residue may also be taken for a boat.  `LancementVoulu`,
`InscritsFideles`, `UnSeulOublie`, `SalleComplete`, `PseudoRepondu`: the waiting
room.  `BateauTient`, `DansPlateau`, `EnvoiFidele`: the sizes and the placement.
`DelaiTenu`, `TirMontre`, `TirPart`: the shot leaves in the second in which the
time is up or in the next one (a second may roll over while the board is drawn,
and `getch` then waits for one more), from the cell the screen shows, whatever is
typed.  `TypeProgramme`: with the types, that the sockets that hold the port are
those of one game at most, while the descriptors add up to the limit of the
process.  `Raffine` of `Flux`: see above; its `TypeOK`: with the types, that the
place in the stream is never lost and no read overfills the buffer.

### Fairness

`Serveur` is weakly fair: a single thread whose calls return when they can.  For
each client, `ClientAuto` is weakly fair, which includes the end of the timer of
a shot (`TirPart` of module `Tir`) but not the placement of the boat, the last
screen and crashes, which are the player's.  The operator's keys (`Lancer`,
`Entree`) and the readiness of a slot beyond the players are not fair.  A crash
is allowed in `partie_vivacite`: rounds still end, because a read from a dead
client returns, or else a write to it kills the server, which `Atteint` counts
as an end; only `PlacementAboutit` is limited to games in which nobody has
died.  In the waiting room the main thread and the reads of the clients are
fair; nobody has to connect, type or press Enter.  In `Tir` the clock and the
return of `getch` after its second are fair, and so are the calls of `getch` and
the rest of the loop's body; the player may type without a
pause, which is why `DelaiGetch` may never happen and the shot leaves all the
same.

## Findings

1. `serveur.c:568`: the branch that announces a winner does not end the game
   (`partie_fin`).  The branch without a survivor does (`serveur.c:556`).
2. `client.c:857`: the client keeps 99 characters of a board which has 121 by
   default (`partie_defaut`); the server's parser keeps 999.
3. `data.c:65`: one read is taken for one message (`partie_fusion`).
4. `serveur.c:382`: Enter is not seen before one more client connects
   (`attente_entree`), against the text of `serveur.c:329`.
5. `session.c:51`: a second game on the same server (`seconde_partie`).  The
   sockets of the first are never closed and hold port 5000, so `bind` fails and
   `CHECK` ends the server.

Two more have no run of their own.  Nothing sets `nbBateau` to 0 (`init_game`,
`serveur.c:847`): where that memory holds anything else, the loop "Pour chaque
batteau" of `verifier_fin_partie` goes over boats nobody has placed, and the
verdicts are wrong.  And the result of `read` is ignored (`data.c:65`): a message
that arrives in two parts is parsed together with the unset bytes behind the
first, which is `RecevoirPartie` of `Canal`.

## Proofs

All proofs hold for every value of the constants under the named assumptions of
the modules.  Some have a hypothesis besides: those of `ProtocoleProofs` and
`VerdictProofs`, `Fiable` (reads do not merge, and `nbBateau` starts at 0) where
any number of clients may die after the placement, and `Sain` (besides, nobody
dies) where nothing may fail; the refinement of `BatailleRoyale` in the latter
also `Vierge` (the grid and the list of boats, which are never initialised, happen
to hold zeroes);
`VueFideleToujours` and `VerdictTenuToujours`, `Lisible` (the text of the board
fits the client's field, as it does up to 9 x 9, and the grid begins with values
of the enum, whatever they are); those of
`BatailleRoyaleProofs`, that boats lie on the board.

* `PartieProofs`: `TypeCorrect`, `TirsIrreversiblesToujours`, without any hypothesis:
  for all contents of the memory, crashes, merged reads and residues.  It begins
  with lemmas on the board: placing a boat keeps an intact boat intact,
  overlapping or not; a shot keeps the grid and a boat in accord.  The invariant
  `Inv` adds to the types that the ring is left with the last boat (`Place`).
  That a shot is final follows from `Inv` and the fact that `Touche` is idempotent
  on results.
* `ProtocoleProofs`: `DialogueTenuToujours`, `AvanceTardive`,
  `CoulesSeTaisentTardive` for games in which clients may die after the placement
  (`Fiable`), and from them, for games without failures (`Sain`),
  `ProtocoleToujours`, `DeuxAuPlusToujours`, `JamaisInterbloquesToujours`,
  `FlotteFideleToujours`, `CoulesSeTaisentToujours`, `AvanceToujours`; for any
  number of players, any of them late.  `MemoireTenueToujours` needs no hypothesis
  on when clients die: until the first of them does, the invariant holds.  The properties only look at the heads of
  the queues; the invariant says all that a connection holds.  The dialogue with
  one player has twelve stages (`Inscrit`, `Avise` ... `Juge`, `Sait`), and each
  leaves open how far the client has come: it lists the positions of the client
  with the contents of both queues for each.  `Etape(i)` gives the stage that
  `phase` and `idx` ask of player `i` (those before `idx` are one stage ahead), so
  a step of a client stays within its stage and a step of the server moves one
  player to the next.  After a verdict with a winner the server plays on with
  clients that have left or will (`JeuFini`): it gets past its first
  acknowledgement only when every socket is closed.  `Anneau` shows that the ring
  over the boats never comes to the slots beyond the players.

  A client that has died since the placement is `Eteint`: nothing is under way
  to it, and what it has left behind (`Reliquat`) is at most the acknowledgement
  the server is about to read and the shot it will read in that player's turn.
  This is enough, because each of the server's reads takes one message if there
  is one and a residue if there is none (`LitReste`): at the end of the turn
  nothing is left, and the dead player is `Eteint` in the next phase too
  (`EteintServeur`).  So `EnCours`, everybody at its stage or `Eteint`, holds until
  the game is over (`JeuFini`) or a write to a dead client kills the server
  (`Arret`).  `InvD` is the inductive invariant of these games, `InvP`, in which
  nobody is `Eteint`, that of the games without failures.  A death before the boats are all
  there would break `InvD`: the residue that is read in place of the boat may be
  counted as one, and the ring then hangs (which is why `partie_vivacite` does
  not check for deadlock).

  `AvanceTardive` measures the stages: `Travail(i)` is the number of calls the
  server still makes for player `i` (`Appels`) and of steps its program still
  takes (`Pas`), and no step makes that of another player grow (`AvanceClient`,
  `AvanceServeur`).  With deaths `Avance` and `CoulesSeTaisent` are proved only: TLC
  checks them in `partie_base`, where nobody dies, because it does not take an
  action property as the conclusion of an implication.
* `VerdictProofs`: `VerdictTenuToujours` and `CoherenceTardive`, and for games without
  failures `CoherenceToujours`, `VerdictJusteToujours` and `VueFideleToujours`, from
  the stages of `ProtocoleProofs`.  They say that news is never read a round late, so the
  invariant `InvV` follows it on its way: a board or a verdict that is under way
  is that of the boards and boats as they are (`Courrier`), because the board
  only changes at stages where neither can be under way; who counts as told
  (`AuCourant`) has read it and lives.  `VerdictDit` is the heart of the verdicts: the count of
  `verifier_fin_partie` over the side of the boat and its search for the survivor
  over `taille` agree once every boat has its length (`Longueur`), and with what
  the client knew before, the id it is sent gives its fate.  `BoardLu` is that of
  the boards: `decode_plateau` undoes `envoyer_plateau` for every size that fits
  (`Numero`: a cell is found again by division and remainder).  `Coherence` is not
  inductive: a boat placed late is drawn over cells that may have been hit, and a
  shot marks a boat cell only if the grid says "BOAT".  `Registre` says for every
  player whether its boat is there yet, intact before the rounds and in accord
  with the grid from then on; the other elements of the list may hold anything.  `partie_defaut`
  shows that the hypothesis `Lisible` is needed: the default board breaks it.
* `BatailleRoyaleProofs`: `UnSeulVainqueurToujours`, `SansRetourToujours`, for any
  set of players, finite or not, and any boats on the board (hypothesis
  `Bateaux \subseteq SUBSET Case`).  "At most one winner" is not inductive: the
  fates are announced one by one.  The invariant says that as long as somebody
  does not know the end, ends are only announced within one step in which the
  grid does not change, and that a player told to be out has no cell afloat,
  which no later shot can change.
* `VerdictProofs`, second part: `RaffineToujours`, the refinement that `partie_base`
  checks on an instance, from the invariants `Inv`, `InvP` and `InvV` of the modules above and
  a small one, `InvR`: a boat that has not come has length 0, by which the
  abstract game knows who is still to place one (`Vacant`), and the server
  only returns when all boats are sunk (`Bilan`).  There is a lemma for every kind
  of step.  `BateauPlacer`: the next boat in the ring.  `TirTirer`: what
  `recevoir_tir` reads is the shot of that player, or nothing from one that is
  sunk.  `EtatAnnonce`: a client that reads its verdict; the verdict is right by
  `VerdictDit`, and the boats and the grid agree on who floats (`MemesFlots`, from
  `Registre`).  Everything else leaves the abstract game alone; the delicate
  ones are the two ends of an acknowledgement (`EnvoyerEtatImmobile`,
  `EtatAckRaffine`), between which `Instruit` passes from false to true.  After the end
  everybody knows of it (`FiniePartout`), which is what `Apres` asks for.
  `UnSeulGagnant` and `ParoleTenue` are the two theorems of
  `BatailleRoyaleProofs`, read through the refinement: they hold of what the
  clients show their players.
* `FluxProofs`: `FluxTypeOK`, `FluxRaffine`, `FluxEntier`, for any set of messages
  with different texts, any buffer that holds each of them, and whatever a buffer
  holds before the read.  `TypeOK` is inductive here: it says at which byte of
  which message the reader stands.  `Debuts` and `Avance` follow the place in the
  stream when `n` bytes leave it, and with them `k` messages.  `Rempli` and
  `Analyse`: a buffer that begins with a text and its NUL is parsed as that
  message.  `LectureTete`: a read from the beginning of a message that takes all
  of it returns it; so it is `Recevoir` of `Canal`, and every other read of
  something is `RecevoirPartie`.
* `AttenteProofs`: `TypeCorrect`, `LancementVouluToujours`.  The invariant says
  what each thread knows of the other: `etat` is set exactly when the display
  thread has ended, and only with two players; a connection is taken only while
  a place is free; players are never removed.  `UnSeulOublieToujours` adds
  `Oubli`: until the launch a connected client that is not registered waits in
  the queue or is the one being served, so that the launch, which resets the
  queue, can only leave the client of the last `accept`.
  `InscritsFidelesToujours` adds `Registre`: nobody is in the queue twice, and
  each client is at a stage of the handshake (`EnAttente`, `Servi`, `Accepte`,
  `AuDehors`) that fits the place the server has it in.
* `ProgrammeProofs`: `TypeCorrect`, `BateauTientToujours` of the menu,
  `TypeProgrammeToujours`, `BateauTientPartout` of the whole process.  The bound
  on the sockets that hold the port needs `SalleNeuve`: a waiting room only opens
  when none is left (`bind` ends the process otherwise), so those of two games
  never add up, although their descriptors do.
* `TirProofs`: `TypeTirToujours`, `DelaiTenuToujours`, `TirMontreToujours`, for every
  size, timeout, number of ticks and drawing time of half a second at most on
  either side of `getch`.  `DelaiTenu` is not inductive: the invariant bounds the
  clock by the ticks that have passed since the last test of the time (`Age`),
  which was before the deadline, and a round of the loop takes two seconds at
  most (`Borne`, `EnJeu`).  Of the
  placement screens, in the same module: `TypeCorrect`, `DansPlateauToujours`,
  `EnvoiFideleToujours`.  The lemma `RetournerDansPlateau` is the reason the code
  may turn a boat round once without a second test: a boat fits twice in a line.

Only model-checked: the liveness properties of the game, of the waiting room and
of the shot: fairness and ENABLED are outside the prover.  For games in which
clients die after the placement, if at all, `JamaisInterbloques` and `Avance` are
the two halves of the argument that a round ends, both proved: the measure of
`Avance` is a natural number, and where it stands still somebody has to act.  What is missing between them and
`TourTermine` is that the one who has to act does.

## Assumptions and what is not modelled

* Memory that is never initialised: `nbBateau`, the grid, the list of boats, the
  slots beyond the players and every buffer are choices.  An element of the list
  is taken as a boat on the board, of length 0 or `tailleBateau`: before a boat is
  placed there the code only compares its positions with a shot and its statuses
  with "hit".  (A length beyond these, in an element below `nbBateau` that is no
  player's, would take `tirer_bateau` over the end of its cells; that is left out.)  Where a theorem or a run supposes a
  count of 0 or an empty grid, that is a hypothesis on what the memory happened
  to hold (`Fiable`, `Vierge`).
* Once the server leaves its arrays ("egare") nothing is followed.
* In `Partie` a message is written and read whole: the hypothesis of `FluxEntier`.
  In `Flux` a read may return any part of what has arrived.  Not modelled are texts beyond 999 characters, which
  `strncpy` leaves unterminated (boards from 32 x 32 on), and pseudos with
  blanks, which `sscanf` cuts.
* Clients are followed as long as the server lives.  `recevoir` of a sunk client
  (`client.c:228`) is given `serial_req` where a parser belongs; nothing it
  produces is used, and what it prints beyond the buffer is not modelled.
* Time is abstract in `Partie`: the timer of a shot may run out at any moment.
  `Tir` has a clock; it goes forward only, whereas `time(NULL)` may be set.
* Of a game in `Programme` only the sockets are kept; that it may return or be
  killed is a choice.
* `accept` that fails but for want of a descriptor, `shmget` and `pthread_create`
  that fail; the DGRAM mode, which
  neither program uses; everything that is drawn, and ncurses used by two
  threads at once.
* `ncurses-6.4` and `wiringPi` are vendored libraries and by far the largest part
  of the source tree.  They are not the program's own logic: of `ncurses` only
  `getch` and its time-out matter, and `wiringPi` serves only code that is
  commented out.
* Duplicate and reordered messages do not occur: TCP.

## Plan

Done: the modules above, in the order `Plateau`, `Partie`, `Attente`,
`Parametrage`, `Placement`, `BatailleRoyale`, `Raffinement`, `Transport`,
`Canal`, `Flux`, `Programme`, `Tir`, and their theorems.

To extend the model: `Partie` over a channel whose reads may be cut
(`RecevoirPartie` of `Canal`), of which little can be promised; the texts of boards
from 32 x 32 on.
