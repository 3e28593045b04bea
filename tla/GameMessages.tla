---------------------------- MODULE GameMessages ----------------------------
(***************************************************************************)
(* The bytes of the game's datagrams: a client's requests as the server    *)
(* reads them (ServerFromClientMessage of communicate.cc) and the records  *)
(* of events as a client reads them and words them for its GUI             *)
(* (ServerToClientMessage, event.cc).                                      *)
(*                                                                         *)
(* A byte is a number below 256, a name the sequence of its characters.    *)
(* Numbers from Huge on are not told apart.                                *)
(***************************************************************************)
EXTENDS Integers, SequencesExt

CONSTANTS
    Request,        \* what clients ask: [session_id, turn_direction, next, player_name]
    OtherDatagram,  \* what is no request of the protocol
    Leftover,       \* what the memory of the server's buffer may hold at first
    FirstEvent,     \* NEW_GAMEs
    LaterEvent,     \* other records, also unknown, and senseless ones of another server
    MaxEvents,      \* bound: records in a datagram
    Damage,         \* what a damaged byte is off by; 0: none is
    NONE

VARIABLES
    server_buf,     \* Message::buf of the server; zeros follow
    heard,          \* the last datagram and what the server made of it
    records,        \* the records of the next datagram to the client
    shown           \* what the client made of it

vars == <<server_buf, heard, records, shown>>

Huge == 2 ^ 24
MAX_MSG_SIZE == 512

\* copy_to_raw_bytes: w bytes, the highest first.
Bytes(n, w) == [i \in 1 .. w |-> IF w - i > 3 THEN 0 ELSE (n \div 256 ^ (w - i)) % 256]

At(b, i) == IF i <= Len(b) THEN b[i] ELSE 0

\* copy_from_raw_bytes: the number in the w bytes from `i` on.
Number(b, i, w) ==
    IF \E j \in i .. i + w - 4 : At(b, j) # 0 THEN Huge
    ELSE FoldLeft(LAMBDA n, j : n * 256 + At(b, i + j - 1), 0, [j \in 1 .. w |-> j])

\* std::string(buf + i): the characters before the first 0.
StringAt(b, i) ==
    LET ends == {k \in i .. Len(b) : b[k] = 0}
    IN  SubSeq(b, i, IF ends = {} THEN Len(b) ELSE Min(ends) - 1)

invalid_player_name(n) == Len(n) >= 65 \/ \E i \in 1 .. Len(n) : n[i] \notin 33 .. 126
invalid_turn_direction(t) == t \notin {-1, 0, 1}
-----------------------------------------------------------------------------
(* Requests. *)

RequestBytes(r) ==
    Bytes(r.session_id, 8) \o Bytes(r.turn_direction, 1) \o Bytes(r.next, 4) \o r.player_name

\* ServerFromClientMessage::load; turn_direction is an int8_t.
LoadRequest(b) ==
    [session_id |-> Number(b, 1, 8),
     turn_direction |-> IF At(b, 9) > 127 THEN At(b, 9) - 256 ELSE At(b, 9),
     next |-> Number(b, 10, 4),
     player_name |-> StringAt(b, 14)]

InvalidRequest(r, dlen) ==
    \/ invalid_turn_direction(r.turn_direction)
    \/ invalid_player_name(r.player_name)
    \/ 13 + Len(r.player_name) # dlen

\* receive_message: the datagram overwrites the front of the buffer, which is cleared
\* only when load returns.
receive_message(d) ==
    LET b == d \o SubSeq(server_buf, Len(d) + 1, Len(server_buf))
        r == LoadRequest(b)
    IN  /\ IF InvalidRequest(r, Len(d))
           THEN server_buf' = b
           ELSE server_buf' = <<>>
        /\ heard' = [datagram |-> d, behind |-> At(b, Len(d) + 1),
                     request |-> IF InvalidRequest(r, Len(d)) THEN NONE ELSE r]
        /\ UNCHANGED <<records, shown>>

ReceiveRequest == \E r \in Request : receive_message(RequestBytes(r))
ReceiveOther == \E d \in OtherDatagram : receive_message(d)
-----------------------------------------------------------------------------
(* Records of events.  `extra` is data that only another server would send. *)

NewGameLen(e) == 8 + FoldLeft(LAMBDA n, pl : n + Len(pl) + 1, 0, e.players)
NewGameBytes(e) ==
    Bytes(e.maxx, 4) \o Bytes(e.maxy, 4) \o FlattenSeq([i \in DOMAIN e.players |-> e.players[i] \o <<0>>])
PixelLen == 9
PixelBytes(e) == Bytes(e.player_number, 1) \o Bytes(e.x, 4) \o Bytes(e.y, 4)
EliminatedLen == 1
EliminatedBytes(e) == Bytes(e.player_number, 1)

calc_len(e) ==
    5 + Len(e.extra) + CASE e.type = 0 -> NewGameLen(e)
                         [] e.type = 1 -> PixelLen
                         [] e.type = 2 -> EliminatedLen
                         [] OTHER -> 0
DataBytes(e) ==
    CASE e.type = 0 -> NewGameBytes(e)
      [] e.type = 1 -> PixelBytes(e)
      [] e.type = 2 -> EliminatedBytes(e)
      [] OTHER -> <<>>

\* boost::crc_32_type tells any two sequences apart that differ in one byte; so does this.
checksum(b) == Bytes(FoldLeft(LAMBDA h, x : (h * 257 + x + 1) % 4194301, 1, b), 4)

\* Event::serialize.
EventBytes(e) ==
    LET body == Bytes(calc_len(e), 4) \o Bytes(e.event_no, 4) \o <<e.type>> \o DataBytes(e) \o e.extra
    IN  body \o checksum(body)

Bad(why) == [verdict |-> why]

\* NewGame::load reads names until dlen is used up, past it if the last has no end.
RECURSIVE NamesAt(_, _, _)
NamesAt(b, i, len) ==
    IF len <= 0 THEN <<>> ELSE <<StringAt(b, i)>> \o
        (IF invalid_player_name(StringAt(b, i)) \/ StringAt(b, i) = <<>> THEN <<>>
         ELSE NamesAt(b, i + Len(StringAt(b, i)) + 1, len - Len(StringAt(b, i)) - 1))

NewGameLoad(b, i, dlen) ==
    LET names == NamesAt(b, i + 8, dlen - 8)
    IN  IF \E k \in 1 .. Len(names) : names[k] = <<>> \/ invalid_player_name(names[k])
        THEN Bad("InvalidLoad")
        ELSE [verdict |-> "ok", maxx |-> Number(b, i, 4), maxy |-> Number(b, i + 4, 4), players |-> names]

PixelLoad(b, i, dlen) ==
    IF dlen # PixelLen THEN Bad("InvalidLoad")
    ELSE [verdict |-> "ok", player_number |-> At(b, i), x |-> Number(b, i + 1, 4), y |-> Number(b, i + 5, 4)]

EliminatedLoad(b, i, dlen) ==
    IF dlen # EliminatedLen THEN Bad("InvalidLoad")
    ELSE [verdict |-> "ok", player_number |-> At(b, i)]

GameOverLoad(dlen) == IF dlen # 0 THEN Bad("InvalidLoad") ELSE [verdict |-> "ok"]

\* Event::load of the record at `i` with dlen bytes left.
EventLoad(b, i, dlen) ==
    LET len == Number(b, i, 4)
        type == At(b, i + 8)
        data == CASE type = 0 -> NewGameLoad(b, i + 9, len - 5)
                  [] type = 1 -> PixelLoad(b, i + 9, len - 5)
                  [] type = 2 -> EliminatedLoad(b, i + 9, len - 5)
                  [] type = 3 -> GameOverLoad(len - 5)
                  [] OTHER -> Bad("InvalidType")
    IN  IF dlen < 13 \/ len > dlen - 8 THEN Bad("InvalidLoad")
        ELSE IF SubSeq(b, i + len + 4, i + len + 7) # checksum(SubSeq(b, i, i + len + 3))
        THEN Bad("InvalidCrc")
        ELSE data @@ [event_no |-> Number(b, i + 4, 4), type |-> type, len |-> len]

\* The loop of ServerToClientMessage::load; NONE: InvalidLoad, which ends the client.
RECURSIVE EventsAt(_, _, _)
EventsAt(b, i, got) ==
    LET len == Len(b) - i + 1
        e == EventLoad(b, i, len)
    IN  IF len = 0 THEN got
        ELSE IF len < 0 \/ e.verdict = "InvalidLoad" THEN NONE
        ELSE IF e.verdict = "InvalidCrc" THEN got
        ELSE EventsAt(b, i + e.len + 8, IF e.verdict = "ok" THEN Append(got, e) ELSE got)

LoadEvents(b) == IF Len(b) > MAX_MSG_SIZE THEN NONE ELSE EventsAt(b, 5, <<>>)

\* enrich_player_name and serialize_text: the word of the event, its numbers and its names.
NewGameText(e) == [word |-> "NEW_GAME", numbers |-> <<e.maxx, e.maxy>>, names |-> e.players]
PixelText(e, players) ==
    [word |-> "PIXEL", numbers |-> <<e.x, e.y>>, names |-> <<players[e.player_number + 1]>>]
EliminatedText(e, players) ==
    [word |-> "PLAYER_ELIMINATED", numbers |-> <<>>, names |-> <<players[e.player_number + 1]>>]

TextOf(e, players) ==
    CASE e.type = 0 -> NewGameText(e)
      [] e.type = 1 -> PixelText(e, players)
      [] e.type = 2 -> EliminatedText(e, players)

\* data.at(player_number) throws when there is no such player, and the client ends.
Nameless(e, players) == e.type \in {1, 2} /\ e.player_number >= Len(players)

\* handle_incoming_data_server, for the records of one game; a GAME_OVER is only counted.
Handle(got) ==
    FoldLeft(LAMBDA c, e :
        LET players == IF e.type = 0 THEN e.players ELSE c.players
        IN  IF c.ended \/ Nameless(e, players) THEN [c EXCEPT !.ended = TRUE]
            ELSE [c EXCEPT !.players = players, !.counted = @ \cup {e.event_no},
                           !.texts = IF e.type = 3 THEN @ ELSE
                               Append(@, [no |-> e.event_no, text |-> TextOf(e, players)])],
        [players |-> <<>>, texts |-> <<>>, counted |-> {}, ended |-> FALSE], got)

Compose ==
    /\ shown = NONE
    /\ Len(records) < MaxEvents
    /\ \E e \in IF records = <<>> THEN FirstEvent ELSE LaterEvent :
          records' = Append(records, e @@ [event_no |-> Len(records)])
    /\ UNCHANGED <<server_buf, heard, shown>>

Datagram == Bytes(1, 4) \o FlattenSeq([i \in DOMAIN records |-> EventBytes(records[i])])

\* The client receives the datagram, with one byte of a record damaged or none.
Show ==
    /\ shown = NONE
    /\ \E k \in Damage : \E p \in IF k = 0 THEN {0} ELSE 5 .. Len(Datagram) :
          LET b == IF k = 0 THEN Datagram ELSE [Datagram EXCEPT ![p] = (@ + k) % 256]
          IN  shown' = [at |-> p,
                        result |-> IF LoadEvents(b) = NONE THEN NONE ELSE Handle(LoadEvents(b))]
    /\ UNCHANGED <<server_buf, heard, records>>

Init ==
    /\ server_buf \in Leftover
    /\ heard = NONE /\ records = <<>> /\ shown = NONE

Receive == ReceiveRequest \/ ReceiveOther
Report == Compose \/ Show

Next == Receive \/ Report

Spec == Init /\ [][Next]_vars
-----------------------------------------------------------------------------
(* Properties. *)

TypeOK ==
    /\ \A i \in 1 .. Len(server_buf) : server_buf[i] \in 0 .. 255
    /\ heard = NONE \/ DOMAIN heard = {"datagram", "behind", "request"}
    /\ Len(records) \in 0 .. MaxEvents
    /\ shown = NONE \/ shown.at \in 0 .. Len(Datagram)

\* The server never mixes a datagram with what an earlier one left in the buffer: what it
\* accepts is all of the datagram and nothing else.  A request it refuses is one that ends
\* where an earlier, refused one, or the memory's first contents, goes on.
RequestsAreHeard ==
    heard # NONE =>
        IF heard.request # NONE THEN RequestBytes(heard.request) = heard.datagram
        ELSE (\E r \in Request : RequestBytes(r) = heard.datagram) => heard.behind # 0

\* The record a byte of the datagram belongs to, and its place in that record.
Starts(i) == 4 + FoldLeft(LAMBDA n, e : n + calc_len(e) + 8, 0, SubSeq(records, 1, i - 1))
Hit == CHOOSE i \in 1 .. Len(records) : shown.at \in Starts(i) + 1 .. Starts(i + 1)

Known(i) == records[i].type \in 0 .. 3
Senseless(i) ==
    Known(i) /\ \/ records[i].extra # <<>>
                \/ records[i].type = 0 /\ \E k \in DOMAIN records[i].players :
                                              invalid_player_name(records[i].players[k])
                \/ Nameless(records[i], records[1].players)

\* What a datagram says reaches the GUI, and what the client asks for next goes by the
\* records that it read: records of unknown types are passed over, those
\* in front of a damaged one count, it and the later ones do not, and a senseless record
\* ends the client.  Damage ends it only when it hits a length.
EventsAreShown ==
    shown # NONE =>
        LET intact == IF shown.at = 0 THEN Len(records) ELSE Hit - 1
            read == SelectSeq([i \in 1 .. intact |-> i], Known)
            meant == SelectSeq(read, LAMBDA i : records[i].type # 3)
            sensible == \A i \in 1 .. intact : ~Senseless(i)
        IN  IF shown.result = NONE
            THEN ~sensible \/ (shown.at > 0 /\ shown.at - Starts(Hit) \in 1 .. 4)
            ELSE /\ shown.result.ended = ~sensible
                 /\ sensible => shown.result.counted = {records[i].event_no : i \in ToSet(read)}
                 /\ sensible => shown.result.texts =
                        [k \in 1 .. Len(meant) |->
                            [no |-> records[meant[k]].event_no,
                             text |-> TextOf(records[meant[k]], records[1].players)]]
=============================================================================
