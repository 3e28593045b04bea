--------------------------- MODULE SiktackaServer ---------------------------
(***************************************************************************)
(* The game server (siktacka-server.cc): who is connected, who is ready,   *)
(* how a game starts, is played and ends, and the log of its events.       *)
(*                                                                         *)
(* One thread runs Server::run: refresh_clients, poll, game.tick() when    *)
(* the turn is over, handle_incoming_data when a datagram waits.  Each of  *)
(* the three is an action; any order of them is an order the loop can      *)
(* produce, because refresh_clients may find nobody silent.                *)
(*                                                                         *)
(* ConnInfo, a (socket, session_id) pair, is represented by its session    *)
(* id: operator< on sockaddr_in6 compares the addresses of its own         *)
(* arguments and never says yes, so the maps are ordered by session id     *)
(* alone.  operator== says yes when the ports agree; a socket here is a    *)
(* port.                                                                   *)
(***************************************************************************)
EXTENDS Integers, Sequences, FiniteSets, Functions

CONSTANTS
    Session,      \* session ids, numbers
    SocketOf,     \* the socket a session is played from
    NameOf,       \* the player_name it sends; names are numbered in
                  \* alphabetical order, 0 is the empty name of an observer
    ConnLimit,    \* 42 in the code
    NamesThatFit, \* names that fit in a NEW_GAME of 512 bytes
    maxx, maxy,   \* size of the board
    Turns,        \* turn_directions clients send, among -1, 0 and 1
    Steps,        \* how a head may move in a turn: pairs of -1 .. 1
    MaxGames,     \* bound: games played
    MaxTicks      \* bound: turns of a game

ASSUME ServerAssumption ==
    /\ Session \subseteq Nat /\ IsFiniteSet(Session)
    /\ NameOf \in [Session -> Nat]
    /\ DOMAIN SocketOf = Session
    /\ ConnLimit \in Nat
    /\ NamesThatFit \in Nat \ {0, 1}
    /\ maxx \in Nat \ {0} /\ maxy \in Nat \ {0}
    /\ Turns \subseteq {-1, 0, 1}
    /\ Steps \subseteq (-1 .. 1) \X (-1 .. 1)
    /\ MaxGames \in Nat /\ MaxTicks \in Nat

VARIABLES
    clients, client_times, server_msgs,   \* Server: two sets and a map, by
                                          \* connection; of client_times only
                                          \* the keys, of server_msgs the game_id
    events,                               \* Server::events
    players, started, game_id, last_event_no, taken_fields,  \* GameState
    ticks,                                \* turns played, for the bound
    running                               \* FALSE once the process has crashed

connections == <<clients, client_times, server_msgs>>
game        == <<events, players, started, game_id, last_event_no, taken_fields>>
vars        == <<connections, game, ticks, running>>

NoName == 0

\* Player::Player(nick); the number and the position of a player are read only
\* once a game has set them.
NewPlayer(nick) ==
    [name |-> nick, number |-> 0, turn_direction |-> 0, ready |-> FALSE,
     plays |-> FALSE, disconnected |-> FALSE, field |-> <<0, 0>>]

\* f with x mapped to y, whether or not it was in the map (operator[] of a map).
Put(f, x, y) == [z \in DOMAIN f \cup {x} |-> IF z = x THEN y ELSE f[z]]

Named(ps)   == {c \in DOMAIN ps : ps[c].name # NoName}
PlayingNamed(ps) == Named(ps)     \* mutant: the eliminated keep moving
Playing(ps) == {c \in DOMAIN ps : ps[c].plays}

\* The order the maps are walked in: c is the Rank(S, c)-th of S, from 0.
Rank(S, c) == Cardinality({d \in S : d < c})
Nth(S, i)  == CHOOSE c \in S : Rank(S, c) = i

Init ==
    /\ clients = {}
    /\ client_times = {}
    /\ server_msgs = <<>>
    /\ events = <<>>
    /\ players = <<>>
    /\ started = FALSE
    /\ game_id = 0
    /\ last_event_no = 0
    /\ taken_fields = {}
    /\ ticks = 0
    /\ running = TRUE

-----------------------------------------------------------------------------
(* Events. *)

\* What a player's new position gives: PIXEL, or PLAYER_ELIMINATED when out = TRUE.
MoveEvent(no, number, field, out) ==
    IF out THEN [no |-> no, type |-> "PLAYER_ELIMINATED", number |-> number]
    ELSE [no |-> no, type |-> "PIXEL", number |-> number, field |-> field]

\* mutant: the counter is not advanced between the players
MoveEventsSameNo(no, S, ps, field, Out) ==
    [i \in 1 .. Cardinality(S) |->
        LET c == Nth(S, i - 1)
        IN  MoveEvent(no, ps[c].number, field[c], c \in Out)]

\* The events of the players in S, in map order, numbered from no on, when player
\* c has moved to field[c] and is eliminated there iff c is in Out.
MoveEvents(no, S, ps, field, Out) ==
    [i \in 1 .. Cardinality(S) |->
        LET c == Nth(S, i - 1)
        IN  MoveEvent(no + i - 1, ps[c].number, field[c], c \in Out)]

OutOnlyAbove(f) == f[1] > maxx \/ f[2] > maxy     \* mutant: unsigned thinking

out_of_range(f) == f[1] < 0 \/ f[2] < 0 \/ f[1] > maxx \/ f[2] > maxy

\* mutant: positions are compared with the trail at the start of the turn
EliminatedAtOnce(S, field, taken) ==
    {c \in S : field[c] \in taken \/ out_of_range(field[c])}

\* check_player_position, for the players in S who go to field[c] one after the
\* other: somebody has been there, or it is off the board.
Eliminated(S, field, taken) ==
    {c \in S : \/ field[c] \in taken
               \/ out_of_range(field[c])
               \/ \E d \in S : d < c /\ field[d] = field[c]}

\* The fields taken by those of S who are not eliminated (pixel_event).
TakenBy(S, field, Out) == {field[c] : c \in S \ Out}

-----------------------------------------------------------------------------
(* Connections. *)

\* mutant: remove_client forgets client_times
RemoveClientsButTimes(C) ==
    /\ clients' = clients \ C
    /\ client_times' = client_times
    /\ server_msgs' = Restrict(server_msgs, DOMAIN server_msgs \ C)

\* remove_client for the connections in C.
RemoveClients(C) ==
    /\ clients' = clients \ C
    /\ client_times' = client_times \ C
    /\ server_msgs' = Restrict(server_msgs, DOMAIN server_msgs \ C)

\* mutant: a snake vanishes with its client
PlayersErased(C) == Restrict(players, DOMAIN players \ C)

\* player_disconnected for the connections in C: during a game the snake stays.
PlayersWithout(C) ==
    IF started THEN [c \in DOMAIN players |->
                        [players[c] EXCEPT !.disconnected = @ \/ c \in C]]
    ELSE Restrict(players, DOMAIN players \ C)

\* refresh_clients: the connections in C have been silent for two seconds.
RefreshClients(C) ==
    /\ running
    /\ C \subseteq client_times
    /\ C # {}
    /\ RemoveClients(C)
    /\ players' = PlayersWithout(C)
    /\ UNCHANGED <<events, started, game_id, last_event_no, taken_fields, ticks,
                   running>>

SameSocket(c) == {d \in DOMAIN server_msgs : SocketOf[d] = SocketOf[c]}

\* find_if returns the first connection of the socket.
FirstOf(C) == CHOOSE d \in C : \A e \in C : d <= e

player_name_used(name) == \E d \in Named(players) : players[d].name = name

\* A datagram from an unknown socket is ignored when the server is full or the
\* name is taken.
Ignored(c) ==
    /\ SameSocket(c) = {}
    /\ \/ Cardinality(DOMAIN server_msgs) >= ConnLimit
       \/ player_name_used(NameOf[c])

\* handle_new_client runs: for an unknown socket, or for a session that is newer
\* than the oldest one of its socket (remove_client runs first, on c itself).
Joins(c) == SameSocket(c) = {} \/ c > FirstOf(SameSocket(c))

\* The tables after the first half of handle_incoming_data.
ClientsWith(c) == IF Joins(c) THEN clients \cup {c} ELSE clients
MsgsWithZero(c) ==     \* mutant: a new client's message manager keeps game_id 0
    IF Joins(c) THEN Put(server_msgs, c, 0) ELSE server_msgs
MsgsWith(c)    == IF Joins(c) THEN Put(server_msgs, c, game_id) ELSE server_msgs
PlayersWith(c) == IF Joins(c) THEN Put(players, c, NewPlayer(NameOf[c])) ELSE players

\* set_turn_direction, which inserts a player when there is none.
SetTurn(ps, c, turn) ==
    LET p == IF c \in DOMAIN ps THEN ps[c] ELSE NewPlayer(NoName)
    IN  Put(ps, c, [p EXCEPT !.turn_direction = turn,
                             !.ready = @ \/ (turn # 0 /\ p.name # NoName)])

-----------------------------------------------------------------------------
(* The start of a game. *)

CanStart(ps) ==
    /\ ~started
    /\ \A c \in Named(ps) : ps[c].ready
    /\ Cardinality(Named(ps)) > 1

\* ensure_game_event_size drops random clients, one at a time, until NEW_GAME
\* fits: C is a set of clients that may be dropped.
MayBeDropped(C, ps) ==
    IF Cardinality(Named(ps)) <= NamesThatFit THEN C = {}
    ELSE Cardinality(Named(ps) \ C) = NamesThatFit

StartFields == (0 .. maxx - 1) \X (0 .. maxy - 1)

NumberAmongAll(ps, c) == Rank(DOMAIN ps, c)     \* mutant: observers count

\* game_start_event numbers the players in map order, NEW_GAME lists them so.
NumberOf(ps, c) == Rank(Named(ps), c)
player_names(ps) ==
    [i \in 1 .. Cardinality(Named(ps)) |-> ps[Nth(Named(ps), i - 1)].name]

\* game_start_event and start_game with the players ps, whose heads the random
\* numbers put on the fields field.
StartGame(ps, field) ==
    LET S    == Named(ps)
        Out  == Eliminated(S, field, {})
        last == 1 + Cardinality(S)
        numbered == [c \in DOMAIN ps |->
                        IF c \in S THEN [ps[c] EXCEPT !.number = NumberOf(ps, c)] ELSE ps[c]]
    IN  /\ game_id' = game_id + 1
        /\ started' = TRUE
        /\ events' = <<[no |-> 0, type |-> "NEW_GAME",
                        players |-> player_names(ps)]>>
                     \o MoveEvents(1, S, numbered, field, Out)
        /\ last_event_no' = last
        /\ taken_fields' = TakenBy(S, field, Out)
        /\ players' = [c \in DOMAIN ps |->
                          IF c \in S
                          THEN [numbered[c] EXCEPT !.plays = c \notin Out,
                                                   !.field = field[c]]
                          ELSE ps[c]]

-----------------------------------------------------------------------------
(* handle_incoming_data: a datagram of session c with a turn direction. *)

\* The game does not start.
HandleMessage(c, turn) ==
    LET ps == SetTurn(PlayersWith(c), c, turn) IN
    /\ running
    /\ ~Ignored(c)
    /\ ~CanStart(ps)
    /\ clients' = ClientsWith(c)
    /\ client_times' = client_times \cup {c}
    /\ server_msgs' = MsgsWith(c)
    /\ players' = ps
    \* send_reply: a null message manager when c is not in the map
    /\ running' = (c \in DOMAIN MsgsWith(c))
    /\ UNCHANGED <<events, started, game_id, last_event_no, taken_fields, ticks>>

\* It was the last player to press a key.
HandleLastReady(c, turn) ==
    LET ps == SetTurn(PlayersWith(c), c, turn) IN
    /\ running
    /\ ~Ignored(c)
    /\ CanStart(ps)
    /\ game_id < MaxGames
    /\ \E C \in SUBSET ClientsWith(c) :
          LET left == Restrict(ps, DOMAIN ps \ C) IN
          /\ MayBeDropped(C, ps)
          /\ clients' = ClientsWith(c) \ C
          /\ client_times' = (client_times \cup {c}) \ C
          /\ server_msgs' = [d \in DOMAIN MsgsWith(c) \ C |-> game_id + 1]
          /\ \E field \in [Named(left) -> StartFields] : StartGame(left, field)
          /\ running' = (c \in DOMAIN MsgsWith(c) \ C)
    /\ ticks' = 0

-----------------------------------------------------------------------------
(* A turn. *)

MovedTo(f, s) == <<f[1] + s[1], f[2] + s[2]>>

\* game_over_event: the players who have left are forgotten, the others get ready
\* for the next game.
AfterGame(ps) ==
    [c \in {c \in DOMAIN ps : ~ps[c].disconnected} |->
        [ps[c] EXCEPT !.plays = FALSE, !.ready = FALSE, !.turn_direction = 0]]

ExactlyOneLeft(ps) == Cardinality(Playing(ps)) = 1     \* mutant: nobody left

\* try_end
TooFew(ps) == Cardinality(Playing(ps)) <= 1

\* GameState::tick with the steps the players make.
TickWith(step) ==
    LET field == [c \in Playing(players) |-> MovedTo(players[c].field, step[c])]
        moved == {c \in Playing(players) : field[c] # players[c].field}
        Out   == Eliminated(moved, field, taken_fields)
        ps    == [c \in DOMAIN players |->
                     IF c \in Playing(players)
                     THEN [players[c] EXCEPT !.field = field[c], !.plays = c \notin Out]
                     ELSE players[c]]
        over  == TooFew(ps)
        no    == last_event_no + Cardinality(moved)
    IN  /\ taken_fields' = taken_fields \cup TakenBy(moved, field, Out)
        /\ events' = events \o MoveEvents(last_event_no, moved, players, field, Out)
                            \o (IF over THEN <<[no |-> no, type |-> "GAME_OVER"]>>
                                ELSE <<>>)
        /\ last_event_no' = IF over THEN no + 1 ELSE no
        /\ players' = IF over THEN AfterGame(ps) ELSE ps
        /\ started' = ~over

Tick ==
    /\ running
    /\ started
    /\ ticks < MaxTicks
    /\ \E step \in [Playing(players) -> Steps] : TickWith(step)
    /\ ticks' = ticks + 1
    /\ UNCHANGED <<connections, game_id, running>>

-----------------------------------------------------------------------------
Next ==
    \/ \E C \in SUBSET client_times : RefreshClients(C)
    \/ \E c \in Session, turn \in Turns : HandleMessage(c, turn)
    \/ \E c \in Session, turn \in Turns : HandleLastReady(c, turn)
    \/ Tick

Spec == Init /\ [][Next]_vars

\* The timeout of poll lets a turn pass however many datagrams arrive.
FairSpec == Spec /\ WF_vars(Tick)

-----------------------------------------------------------------------------
(* Properties. *)

Fields  == (0 .. maxx) \X (0 .. maxy)

Player ==
    [name : Nat, number : Nat, turn_direction : {-1, 0, 1}, ready : BOOLEAN,
     plays : BOOLEAN, disconnected : BOOLEAN, field : Int \X Int]

Event ==
    [no : Nat, type : {"NEW_GAME"}, players : Seq(Nat)]
    \cup [no : Nat, type : {"PIXEL"}, number : Nat, field : Fields]
    \cup [no : Nat, type : {"PLAYER_ELIMINATED"}, number : Nat]
    \cup [no : Nat, type : {"GAME_OVER"}]

TypeOK ==
    /\ clients \subseteq Session
    /\ client_times \subseteq Session
    /\ DOMAIN server_msgs \subseteq Session
    /\ \A c \in DOMAIN server_msgs : server_msgs[c] \in 0 .. MaxGames
    /\ DOMAIN players \subseteq Session
    /\ \A c \in DOMAIN players : players[c] \in Player
    /\ events \in Seq(Event)
    /\ started \in BOOLEAN
    /\ game_id \in 0 .. MaxGames
    /\ last_event_no = Len(events)
    /\ taken_fields \subseteq Fields
    /\ ticks \in 0 .. MaxTicks
    /\ running \in BOOLEAN

\* The three tables of connections and the players stay in step through every
\* order of arrivals, time-outs, starts and ends of games: each client can be
\* answered and timed out, and once no game runs nobody else is a player, so a
\* player who left during a game does not keep the next one from starting.
TablesAgree ==
    running => /\ clients = client_times
               /\ clients = DOMAIN server_msgs
               /\ clients \subseteq DOMAIN players
               /\ ~started => clients = DOMAIN players

\* Every datagram carries the id of the game whose events it holds, also for a
\* client who joined in the middle or stayed since the last game.
GameIdsAgree == \A c \in DOMAIN server_msgs : server_msgs[c] = game_id

EventsOf(type) == {i \in 1 .. Len(events) : events[i].type = type}

\* The fields that eliminate are exactly the fields clients have been told of, and
\* no field was ever given to two snakes.
TrailIsPublic ==
    /\ taken_fields = {events[i].field : i \in EventsOf("PIXEL")}
    /\ \A i, j \in EventsOf("PIXEL") : i # j => events[i].field # events[j].field

Roster == IF events = <<>> THEN <<>> ELSE events[1].players

\* The number a client resolves through the list of NEW_GAME is that player's, and no one
\* else's: observers and players who join or leave during the game do not shift it, and
\* nobody takes the name of a player whose snake plays on after he has disconnected.
NumbersNameThePlayers ==
    /\ started => \A c \in Playing(players) :
                     /\ players[c].number < Len(Roster)
                     /\ Roster[players[c].number + 1] = players[c].name
    /\ \A c, d \in Named(players) : players[c].name = players[d].name => c = d

Gone == {events[i].number : i \in EventsOf("PLAYER_ELIMINATED")}
Left == (0 .. Len(Roster) - 1) \ Gone

\* What a spectator concludes from the log is what the server holds: whoever has
\* not been reported eliminated still plays, connected or not, until GAME_OVER,
\* and then at most one is left.
LogTellsWhoPlays ==
    IF started THEN Left = {players[c].number : c \in Playing(players)}
    ELSE Cardinality(Left) <= 1

\* Nobody moves, or is eliminated again, once eliminated.
EliminatedForGood ==
    \A i \in EventsOf("PLAYER_ELIMINATED") : \A j \in i + 1 .. Len(events) :
        events[j].type # "GAME_OVER" => events[j].number # events[i].number

\* The server's log is one EventLog promises to its readers.
Log == INSTANCE EventLog WITH
           events <- [i \in 1 .. Len(events) |-> [no   |-> events[i].no,
                                                  type |-> events[i].type]]
LogSpec == Log!Spec

\* A game ends: every turn a snake that plays reaches a new field or is out.
GameEnds == started ~> (~started \/ ~running)

(* What zadanie_2.txt says and the code does not do. *)

\* Lines 245-246: a message of an older session of the socket is ignored; lines
\* 403-407: the server stays up.  In the code the older session gets into
\* client_times, and send_reply dereferences a null message manager.
NeverCrashes == running

\* Lines 242-245: a newer session of a socket replaces the older one.  In the code
\* handle_new_client removes the connection it is about to add.
OneSessionPerSocket == \A c, d \in clients : SocketOf[c] = SocketOf[d] => c = d
=============================================================================
