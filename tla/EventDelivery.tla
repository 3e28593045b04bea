---------------------------- MODULE EventDelivery ----------------------------
(***************************************************************************)
(* How the log of the game server reaches the GUI of one client.           *)
(*                                                                         *)
(* The server broadcasts every event once, as it is generated              *)
(* (siktacka-server.cc event_generated, send_replies), and answers every   *)
(* request with the events of the current game from next_expected_event_no *)
(* on (send_reply).  Datagrams are lost, delayed, reordered and            *)
(* duplicated.  The client (siktacka-client.cc) asks every 20 ms for the   *)
(* first event it misses, keeps what arrives in a priority queue and sends *)
(* the GUI what has no gap before it.                                      *)
(*                                                                         *)
(* The server's handlers are in SiktackaServer; here it is only its log,   *)
(* whose contract is EventLog.  Events are numbers; the contents of event  *)
(* n of game g is log[g][n+1], which never changes once written.           *)
(***************************************************************************)
EXTENDS Naturals, Sequences, FiniteSets

CONSTANTS
    MaxGames,      \* bound: games played
    MaxEvents,     \* bound: events in the log of a game
    MaxBatch,      \* bound: moves one handler of the server generates
    PerDatagram,   \* events that fit in one datagram (512 bytes in the code)
    MaxInFlight,   \* bound: datagrams on their way to the client
    MaxRequests,   \* bound: requests on their way to the server
    HasName,       \* does the client give a name, or does it only watch?
    JunkIds        \* what the uninitialised Client::game_id may hold

ASSUME DeliveryAssumption ==
    /\ MaxGames \in Nat \ {0}
    /\ MaxEvents \in Nat \ {0}
    /\ MaxBatch \in Nat \ {0}
    /\ PerDatagram \in Nat \ {0}
    /\ MaxInFlight \in Nat
    /\ MaxRequests \in Nat
    /\ HasName \in BOOLEAN
    /\ JunkIds \subseteq Nat

VARIABLES
    \* the server
    s_game,        \* Server::game.game_id, the games numbered as they are drawn
    s_started,     \* Server::game.started
    log,           \* log[g]: the types of the events of game g; log[s_game] is
                   \* Server::events, the others are history
    connected,     \* is the client in Server::server_msgs?
    named,         \* is its name, if it has one, in game.players?
    crowded,       \* do others fill the server (ConnLimit), or bear its name?
    \* the network
    requests,      \* next_expected_event_no of the requests in flight
    datagrams,     \* ServerToClientMessages in flight: [game, first, last]
    \* the client
    st,            \* the state of Client::run
    game_id, last_event, events_no, game_events,
    names_known,   \* is Client::players filled in?
    exited,        \* the client has ended on an exception
    \* the GUI
    screen         \* the last command sent to it, [game, no]

server  == <<s_game, s_started, log>>
network == <<requests, datagrams>>
client  == <<game_id, last_event, events_no, game_events, names_known, exited>>
door    == <<connected, named, crowded>>
vars    == <<server, door, network, st, client, screen>>

Games      == 1 .. MaxGames
NoGame     == 0
EventNos   == 0 .. MaxEvents - 1
MoveType   == "PIXEL"           \* stands for PLAYER_ELIMINATED as well
Types      == {"NEW_GAME", MoveType, "GAME_OVER"}
Datagram   == {d \in [game : Games, first : EventNos, last : EventNos] :
                   d.first <= d.last}
States     == {"SEND_TO_SERVER", "SEND_TO_GUI", "RECEIVE"}

TypeOf(g, n) == log[g][n + 1]

Init ==
    /\ s_game = NoGame
    /\ s_started = FALSE
    /\ log = [g \in Games |-> <<>>]
    /\ connected = FALSE
    /\ named = FALSE
    /\ crowded \in BOOLEAN
    /\ requests = {}
    /\ datagrams = {}
    /\ st = "SEND_TO_SERVER"
    /\ game_id \in JunkIds
    /\ last_event = 0
    /\ events_no = {}
    /\ game_events = {}
    /\ names_known = FALSE
    /\ exited = FALSE
    /\ screen = [game |-> NoGame, no |-> 0]

-----------------------------------------------------------------------------
(* The server. *)

\* The moves one handler generates; how many is the server's business.
Moves(n) == [i \in 1 .. n |-> MoveType]

\* Every new event is broadcast in a datagram of its own.  A broadcast reaches
\* the network for some of the events only: send_replies gives up on WouldBlock
\* and NetworkUnreachable.
Broadcast(g, first, last) ==
    \E sent \in SUBSET {[game |-> g, first |-> n, last |-> n] : n \in first .. last} :
        /\ connected \/ sent = {}
        /\ Cardinality(datagrams \cup sent) <= MaxInFlight
        /\ datagrams' = datagrams \cup sent

\* A game starts: new id, events cleared, NEW_GAME and the first position of
\* every player.
StartGame ==
    /\ ~s_started
    /\ s_game < MaxGames
    /\ s_game' = s_game + 1
    /\ s_started' = TRUE
    /\ \E n \in 1 .. MaxBatch :
          /\ n + 1 < MaxEvents
          /\ log' = [log EXCEPT ![s_game + 1] = <<"NEW_GAME">> \o Moves(n)]
          /\ Broadcast(s_game + 1, 0, n)
    /\ UNCHANGED <<door, requests, st, client, screen>>

\* The events of one turn, after which the game may be over.
TurnEvents(n, over) == Moves(n) \o (IF over THEN <<"GAME_OVER">> ELSE <<>>)

\* The bound on the log leaves room for GAME_OVER.
Room(over) == IF over THEN MaxEvents ELSE MaxEvents - 1

\* game_over_event erases the players who were disconnected during the game.
ForgottenNever(over) == FALSE     \* mutant: they stay
Forgotten(over) == over /\ ~connected

Tick ==
    /\ s_started
    /\ \E n \in 0 .. MaxBatch, over \in BOOLEAN :
          LET new == TurnEvents(n, over)
              len == Len(log[s_game])
          IN  /\ new # <<>>
              /\ len + Len(new) <= Room(over)
              /\ log' = [log EXCEPT ![s_game] = @ \o new]
              /\ s_started' = ~over
              /\ named' = (named /\ ~Forgotten(over))
              /\ Broadcast(s_game, len, len + Len(new) - 1)
    /\ UNCHANGED <<s_game, connected, crowded, requests, st, client, screen>>

\* send_message(n): the events from n on, PerDatagram at a time, or nothing when
\* there is no event n.
Reply(n) ==
    IF s_game = NoGame THEN {} ELSE
    LET len == Len(log[s_game]) IN
    {[game  |-> s_game,
      first |-> f,
      last  |-> IF f + PerDatagram <= len THEN f + PerDatagram - 1 ELSE len - 1] :
        f \in {f \in n .. len - 1 : (f - n) % PerDatagram = 0}}

\* The datagrams `new` are sent; a network that is full loses what it held.
Sent(new) ==
    IF Cardinality(datagrams \cup new) <= MaxInFlight THEN datagrams \cup new ELSE new

\* Who is not connected is let in when fewer than ConnLimit are, and no player
\* bears the name: not even the client itself, timed out in a game that goes on.
LetIn == connected \/ (~crowded /\ ~named)

\* The server handles a request, which the network may still hold a copy of; of
\* the reply the datagrams in `lost` do not get through.
HandleRequest(n, again, lost) ==
    /\ n \in requests
    /\ LetIn
    /\ Cardinality(Reply(n) \ lost) <= MaxInFlight
    /\ requests' = IF again THEN requests ELSE requests \ {n}
    /\ datagrams' = Sent(Reply(n) \ lost)
    /\ connected' = TRUE
    /\ named' = (named \/ HasName)
    /\ UNCHANGED <<server, crowded, st, client, screen>>

\* The server returns without a word, and the client stays unknown.
RefuseRequest(n, again) ==
    /\ n \in requests
    /\ ~LetIn
    /\ requests' = IF again THEN requests ELSE requests \ {n}
    /\ UNCHANGED <<server, door, datagrams, st, client, screen>>

\* refresh_clients: nothing was heard from the client for two seconds.  During a
\* game its player stays, name and all.
Disconnect ==
    /\ connected
    /\ connected' = FALSE
    /\ named' = (named /\ s_started)
    /\ UNCHANGED <<server, crowded, network, st, client, screen>>

\* Others come and go while the client is away.
OthersChange ==
    /\ ~connected
    /\ crowded' = ~crowded
    /\ UNCHANGED <<server, connected, named, network, st, client, screen>>

-----------------------------------------------------------------------------
(* The client. *)

AfterShown == last_event + 1     \* mutant: one too far

next_expected == last_event

\* send_request; the request may be lost, and is when the network is full.
SendRequest(lost) ==
    /\ ~exited
    /\ st = "SEND_TO_SERVER"
    /\ \/ lost /\ UNCHANGED requests
       \/ /\ ~lost
          /\ Cardinality(requests \cup {next_expected}) <= MaxRequests
          /\ requests' = requests \cup {next_expected}
    /\ st' = "SEND_TO_GUI"
    /\ UNCHANGED <<server, door, datagrams, client, screen>>

Top == CHOOSE n \in game_events : \A m \in game_events : n <= m

AnyQueued == game_events # {}     \* mutant: holes are not waited for

is_gui_data == game_events # {} /\ Top < last_event

\* gui_communicate: the event with the lowest number goes to the GUI.
GuiCommunicate ==
    /\ ~exited
    /\ st = "SEND_TO_GUI"
    /\ is_gui_data
    /\ screen' = [game |-> game_id, no |-> Top]
    /\ game_events' = game_events \ {Top}
    /\ UNCHANGED <<server, door, network, st, game_id, last_event, events_no,
                   names_known, exited>>

\* Nothing left to send, the 20 ms nearly over, or the connection full.
LeaveGui ==
    /\ ~exited
    /\ st = "SEND_TO_GUI"
    /\ st' = "RECEIVE"
    /\ UNCHANGED <<server, door, network, client, screen>>

\* poll returned 0: the 20 ms are over.
Timeout ==
    /\ ~exited
    /\ st = "RECEIVE"
    /\ st' = "SEND_TO_SERVER"
    /\ UNCHANGED <<server, door, network, client, screen>>

Carried(d) == d.first .. d.last

\* The datagram holds the NEW_GAME of another game than the client's.
Switches(d) == d.first = 0 /\ game_id # d.game

AnyGame(d) == TRUE     \* mutant: the game_id is not compared

\* The datagram is of the client's game, or makes its game the client's.
Accepted(d) == game_id = d.game \/ Switches(d)

\* A move is read before the names of the players: players.at() throws.
Nameless(d) ==
    /\ ~Switches(d)
    /\ ~names_known
    /\ d.first # 0
    /\ \E n \in Carried(d) : TypeOf(d.game, n) = MoveType

\* What of S outlives the arrival of d: nothing when a new game begins.
KeptAlways(d, S) == S     \* mutant: clear() forgotten
Kept(d, S) == IF Switches(d) THEN {} ELSE S

\* Where the count of last_event goes on: from 0 when a new game begins.
StartStays(d) == last_event     \* mutant: the assignment forgotten
LastStart(d) == IF Switches(d) THEN 0 ELSE last_event

\* while (events_no.find(m) != events_no.end()) m++
Advance(S, last) ==
    LET advance[m \in 0 .. MaxEvents] == IF m \in S THEN advance[m + 1] ELSE m
    IN  advance[last]

\* Of the events of d those not among the events S the client has (has_event).
AllOf(d, S) == Carried(d)     \* mutant: has_event is not asked
NotIn(d, S) == Carried(d) \ S

\* handle_incoming_data_server on a datagram whose events it takes.  The loop
\* over last_event runs after every new event; the runs add up to one at the end.
Store(d) ==
    LET had == Kept(d, events_no)
        new == NotIn(d, had)
    IN  /\ game_id' = d.game
        /\ events_no' = had \cup new
        /\ game_events' = Kept(d, game_events) \cup
               {n \in new : TypeOf(d.game, n) # "GAME_OVER"}
        /\ last_event' = IF new = {} THEN LastStart(d)
                                     ELSE Advance(had \cup new, LastStart(d))
        /\ names_known' = (names_known \/ d.first = 0)
        /\ UNCHANGED exited

\* handle_incoming_data_server; the network may still hold a copy.
Receive(d, again) ==
    /\ ~exited
    /\ st = "RECEIVE"
    /\ d \in datagrams
    /\ datagrams' = IF again THEN datagrams ELSE datagrams \ {d}
    /\ \/ Accepted(d) /\ ~Nameless(d) /\ Store(d)
       \/ /\ Accepted(d) /\ Nameless(d)
          /\ exited' = TRUE
          /\ UNCHANGED <<game_id, last_event, events_no, game_events, names_known>>
       \/ ~Accepted(d) /\ UNCHANGED client
    /\ UNCHANGED <<server, door, requests, st, screen>>

-----------------------------------------------------------------------------
Next ==
    \/ StartGame
    \/ Tick
    \/ Disconnect
    \/ \E n \in requests : \E again \in BOOLEAN, lost \in SUBSET Reply(n) :
          HandleRequest(n, again, lost)
    \/ \E n \in requests, again \in BOOLEAN : RefuseRequest(n, again)
    \/ OthersChange
    \/ \E lost \in BOOLEAN : SendRequest(lost)
    \/ GuiCommunicate
    \/ LeaveGui
    \/ Timeout
    \/ \E d \in datagrams : \E again \in BOOLEAN : Receive(d, again)

Spec == Init /\ [][Next]_vars

(***************************************************************************)
(* The client never stops looping; datagrams do not arrive so densely that *)
(* poll never times out, and the client is not always late or the          *)
(* connection to the GUI full whenever there is something to show.  A      *)
(* request sent over and over gets through once in a while, and so does    *)
(* the whole reply to it, if the server lets the client in then; a         *)
(* datagram is not held back for ever.  A game that has begun is played to *)
(* its end (SiktackaServer!GameEnds).  Nothing makes the server begin      *)
(* another one, make room for the client or let it in, nor the network     *)
(* duplicate or reorder.                                                   *)
(***************************************************************************)
ClientFairness ==
    /\ WF_vars(\E lost \in BOOLEAN : SendRequest(lost))
    /\ WF_vars(LeaveGui)
    /\ WF_vars(Timeout)
    /\ SF_vars(GuiCommunicate)

Awaited(d) == last_event \in Carried(d)

NetworkFairness ==
    /\ SF_vars(SendRequest(FALSE))
    /\ WF_vars(\E n \in requests : \/ HandleRequest(n, FALSE, {})
                                   \/ RefuseRequest(n, FALSE))
    /\ SF_vars(HandleRequest(last_event, FALSE, {}))
    /\ SF_vars(\E d \in datagrams : Receive(d, FALSE))
    /\ SF_vars(\E d \in datagrams : Awaited(d) /\ Receive(d, FALSE))

FairSpec == Spec /\ ClientFairness /\ NetworkFairness /\ WF_vars(Tick)

-----------------------------------------------------------------------------
(* Properties. *)

TypeOK ==
    /\ s_game \in 0 .. MaxGames
    /\ s_started \in BOOLEAN
    /\ log \in [Games -> Seq(Types)]
    /\ connected \in BOOLEAN
    /\ named \in BOOLEAN
    /\ crowded \in BOOLEAN
    /\ requests \subseteq 0 .. MaxEvents
    /\ datagrams \subseteq Datagram
    /\ st \in States
    /\ game_id \in JunkIds \cup Games
    /\ last_event \in 0 .. MaxEvents
    /\ events_no \subseteq EventNos
    /\ game_events \subseteq EventNos
    /\ names_known \in BOOLEAN
    /\ exited \in BOOLEAN
    /\ screen \in [game : Games \cup {NoGame}, no : EventNos]

\* m is the first event not in S.
IsFirstGap(m, S) == m \notin S /\ \A n \in 0 .. m - 1 : n \in S

\* The number the client asks for is exactly the first event it misses, across
\* duplicates, reordering and changes of game: it never asks past a hole (the
\* hole would stay) and never lags behind what it has.
AsksForFirstGap == IsFirstGap(last_event, events_no)

\* Whatever old datagrams arrive, the client never mixes two games: every event
\* number it holds, and every command on the screen, is an event the server
\* generated for that very game.
OnlyGenuineEvents ==
    /\ events_no # {} => /\ game_id \in Games
                         /\ \A n \in events_no : n < Len(log[game_id])
    /\ screen.game # NoGame =>
          /\ screen.no < Len(log[screen.game])
          /\ TypeOf(screen.game, screen.no) # "GAME_OVER"

Showable == {n \in events_no : TypeOf(game_id, n) # "GAME_OVER"}

\* The priority queue holds exactly what the client has and the GUI has not been
\* sent: nothing the client acknowledges is dropped before the GUI sees it, and
\* nothing already sent waits to be sent again.
QueueIsUnshown ==
    IF 0 \in events_no /\ 0 \notin game_events
    THEN /\ screen.game = game_id
         /\ screen.no < last_event
         /\ game_events = {n \in Showable : n > screen.no}
    ELSE game_events = Showable

\* Until it has the names of a game the client has shown nothing and still asks
\* for event 0, and it reads a move without names (which ends it) only if its
\* uninitialised game_id happened to be the id of a game.
NamesBeforeMoves ==
    /\ ~names_known => /\ game_id \in JunkIds
                       /\ last_event = 0
                       /\ screen.game = NoGame
    /\ exited => game_id \in JunkIds \cap Games

\* The client implements the promise to the GUI: commands in order, without
\* gaps, without duplicates within a picture.
Feed == INSTANCE GuiFeed
FeedSpec == Feed!Spec

\* The server has room for the client, and nobody else bears its name, from some
\* time on.
RoomInTheEnd == <>[]~crowded

\* Every event of the first game that the GUI is to draw is drawn, however many
\* datagrams are lost, as long as not all of them are, and however often the
\* client is dropped: while its own player keeps its name in the game the server
\* ignores it, and it learns the rest after GAME_OVER.
EventuallyShown ==
    RoomInTheEnd =>
        \A n \in EventNos :
            (s_game = 1 /\ n < Len(log[1]) /\ TypeOf(1, n) # "GAME_OVER")
                ~> ((screen.game # NoGame /\ screen.no >= n) \/ exited)

\* zadanie_2.txt:16-17 and 229-232: events are sent again as needed, so that a
\* client learns all events of the current game, not only of the first one.
EventuallyCurrent ==
    RoomInTheEnd =>
        \A g \in Games : \A n \in EventNos :
            (s_game = g /\ n < Len(log[g])) ~>
                (s_game # g \/ exited \/ (game_id = g /\ last_event > n))

\* zadanie_2.txt:324-325 and 32-33: late datagrams of an earlier game do not
\* bring its picture back.
GamesInOrder == [][screen'.game >= screen.game]_screen
=============================================================================
