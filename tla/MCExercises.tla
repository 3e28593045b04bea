----------------------------- MODULE MCExercises -----------------------------
(***************************************************************************)
(* The exercises of the C++, operating systems, networks and algorithms    *)
(* courses that run by themselves, and the bytes of the game's datagrams:  *)
(* one call, request, hour or input after the other.  They share nothing:  *)
(* `part` names the one that runs, the others stay in one initial state.   *)
(***************************************************************************)
EXTENDS Integers, SequencesExt, FiniteSets

CONSTANTS None, NUL, letterA, letterB

VARIABLES part,
    pdu, added, contents, failed,
    data, written, binary,
    sums, values, wall, colours,
    deques, next_deque_id, inserts,
    held, wire, cut, pressed, turn_direction, buf, missed, refusals, lost,
    server_buf, heard, records, shown,
    asked

coapVars == <<pdu, added, contents, failed>>
helloVars == <<data, written, binary>>
sumVars == <<sums, values>>
wallVars == <<wall, colours>>
dequeVars == <<deques, next_deque_id, inserts>>
keyVars == <<held, wire, cut, pressed, turn_direction, buf, missed, refusals, lost>>
messageVars == <<server_buf, heard, records, shown>>

\* Options of every length of number, with and without values; "ms/" of sensors/main.cpp is
\* a path of one segment, and there is one of two; a fixed buffer that overflows.
Coap == INSTANCE CoapPDU WITH
    Number <- {1, 11, 14, 600}, ValueLength <- {0, 1, 13}, TokenLength <- {1, 4},
    Path <- {<<2>>, <<1, 2>>}, Fixed <- BOOLEAN, BufferLength <- 40, MaxOptions <- 3,
    NULL <- None

\* Transfers that end before, at and behind the end of the device.
Hello == INSTANCE HelloDriver WITH
    DEVICE_SIZE <- 4, Byte <- {NUL, letterA, letterB}, A <- letterA, MaxTransfer <- 3

\* Four values in a tree of four leaves, changed to at most 2; four cells in one of eight.
Trees == INSTANCE SegmentTrees WITH
    Data <- {<<1, 0, 2, 1>>}, Change <- {-1, 1, 2}, MAX_VALUE <- 2, INF <- 100, Cells <- 4

\* Three numbers of deques below the constant one, of strings "" and another.
Deques == INSTANCE StringDeques WITH
    Text <- {0, 1}, NULL <- None, NO_TEXT <- -1, CONST_QUEUE_ID <- 3, MaxLength <- 2

\* GAME_OVER, a short PIXEL that is longer than one line of a key, PLAYER_ELIMINATED.
Keys == INSTANCE KeyFeed WITH CommandLength <- {10, 13, 20}, MaxWire <- 3, MaxRefusals <- 2

\* Requests whose names end alike; others with a blank, a turn of 2 or -1 byte by byte, a
\* name too long, a zero inside, and two bytes.
MCRequest == [session_id : {1, 70000}, turn_direction : {-1, 0, 1}, next : {0, 258},
              player_name : {<<>>, <<65>>, <<66, 126>>}]
Asking(turn, name) == <<0, 0, 0, 0, 0, 0, 0, 1, turn, 0, 0, 0, 9>> \o name
MCOther == {Asking(0, <<65, 32>>), Asking(2, <<65, 66>>), Asking(255, [i \in 1 .. 65 |-> 90]),
            Asking(1, <<65, 0, 66>>), <<7, 7>>}

\* Records of every type, of a player who does not exist, with data too many, of no type;
\* names with a blank.
NewGame(players) == [type |-> 0, maxx |-> 800, maxy |-> 3, players |-> players, extra |-> <<>>]
Pixel(n, extra) == [type |-> 1, player_number |-> n, x |-> 259, y |-> 70000, extra |-> extra]
MCFirst == {NewGame(<<<<65>>, <<66, 67>>>>), NewGame(<<<<65>>, <<66, 32>>>>)}
MCLater == {Pixel(0, <<>>), Pixel(5, <<>>), Pixel(1, <<9>>),
            [type |-> 2, player_number |-> 1, extra |-> <<>>],
            [type |-> 3, extra |-> <<>>], [type |-> 3, extra |-> <<0>>],
            [type |-> 7, extra |-> <<1, 2>>]}
Messages == INSTANCE GameMessages WITH
    Request <- MCRequest, OtherDatagram <- MCOther,
    Leftover <- {<<>>, [i \in 1 .. 14 |-> 1] \o <<65>>},
    FirstEvent <- MCFirst, LaterEvent <- MCLater, MaxEvents <- 3,
    Damage <- {0, 1, 100, 255}, NONE <- None

\* Hashes of a few bits: small primes of the same kind as the program's.
OnSequences == INSTANCE SequencePrograms WITH
    INF <- 1000, P <- 1009, P_pow <- 131, Q <- 1013, Q_pow <- 137, P_MOD <- 3, NONE <- None
OnGraphs == INSTANCE GraphPrograms WITH INF <- 1000, MAX_DEPTH <- 3, NONE <- None

ASSUME
    /\ Coap!CoapConstants /\ Hello!HelloConstants
    /\ Trees!TreeConstants /\ Deques!DequeConstants /\ Keys!KeyConstants
    /\ OnSequences!ProgramConstants /\ OnGraphs!GraphConstants

Init ==
    /\ part \in {"coap", "hello", "sums", "wall", "deques",
                 "keys", "requests", "events", "sequences", "graphs"}
    /\ Coap!Init /\ Hello!Init
    /\ Trees!Init /\ Deques!Init /\ Keys!Init /\ Messages!Init /\ OnSequences!Init
    /\ part # "coap" => pdu.fixed
    /\ part # "requests" => server_buf = <<>>

\* A step of one part leaves the variables of the others alone.
Rest(p) ==
    /\ UNCHANGED part
    /\ IF p = "coap" THEN TRUE ELSE UNCHANGED coapVars
    /\ IF p = "hello" THEN TRUE ELSE UNCHANGED helloVars
    /\ IF p = "sums" THEN TRUE ELSE UNCHANGED sumVars
    /\ IF p = "wall" THEN TRUE ELSE UNCHANGED wallVars
    /\ IF p = "deques" THEN TRUE ELSE UNCHANGED dequeVars
    /\ IF p = "keys" THEN TRUE ELSE UNCHANGED keyVars
    /\ IF p \in {"requests", "events"} THEN TRUE ELSE UNCHANGED messageVars
    /\ IF p \in {"sequences", "graphs"} THEN TRUE ELSE UNCHANGED asked

CoapStep == part = "coap" /\ Coap!Next /\ Rest("coap")
HelloStep == part = "hello" /\ Hello!Next /\ Rest("hello")
SumsStep == part = "sums" /\ Trees!Add /\ Rest("sums")
WallStep == part = "wall" /\ Trees!PaintSome /\ Rest("wall")
DequesStep == part = "deques" /\ Deques!Next /\ Rest("deques")
KeysStep == part = "keys" /\ Keys!Next /\ Rest("keys")
RequestsStep == part = "requests" /\ Messages!Receive /\ Rest("requests")
EventsStep == part = "events" /\ Messages!Report /\ Rest("events")
SequencesStep == part = "sequences" /\ OnSequences!Next /\ Rest("sequences")
GraphsStep == part = "graphs" /\ OnGraphs!Next /\ Rest("graphs")

Next == \/ CoapStep \/ HelloStep
        \/ SumsStep \/ WallStep \/ DequesStep \/ KeysStep
        \/ RequestsStep \/ EventsStep \/ SequencesStep \/ GraphsStep

Spec == Init /\ [][Next]_<<part, coapVars, helloVars, sumVars, wallVars,
                           dequeVars, keyVars, messageVars, asked>>
-----------------------------------------------------------------------------
\* The type invariants of the modules.
TypeOK ==
    CASE part = "coap" -> Coap!TypeOK
      [] part = "hello" -> Hello!TypeOK
      [] part \in {"sums", "wall"} -> Trees!TypeOK
      [] part = "deques" -> Deques!TypeOK
      [] part = "keys" -> Keys!TypeOK
      [] part \in {"requests", "events"} -> Messages!TypeOK
      [] OTHER -> TRUE

\* What was put into a message of cantcoap.cpp, the buffer of helloN.c, the connection from
\* the GUI of the game or a datagram of the game is what its readers find.
ContentsSurvive ==
    CASE part = "coap" -> Coap!OptionsSurvive /\ Coap!PayloadIsStored /\ Coap!PathIsRead
      [] part = "hello" -> Hello!TextSurvives
      [] part = "keys" -> Keys!KeysFollow /\ Keys!OneLossPerRefusal
      [] part \in {"requests", "events"} -> Messages!RequestsAreHeard /\ Messages!EventsAreShown
      [] OTHER -> TRUE

\* The segment trees of kre.cpp and mal.cpp, whose changes wait at higher nodes: after any
\* additions to ranges, accepted or refused, the values and the number of places where they
\* increase are those of an array changed and refused alike; after any paintings as many
\* cells are white as were counted.
TreesAgree ==
    CASE part = "sums" -> Trees!ValuesAgree
      [] part = "wall" -> Trees!WhiteIsCounted
      [] OTHER -> TRUE

=============================================================================
