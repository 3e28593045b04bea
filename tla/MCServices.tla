------------------------------ MODULE MCServices ------------------------------
(***************************************************************************)
(* Thirteen programs that take requests one after the other, from users,   *)
(* sockets, queues or the kernel.  They share nothing: `part` names the    *)
(* one that runs, the others stay in one initial state.                    *)
(***************************************************************************)
EXTENDS Services, Relay, Sequences, FiniteSets

CONSTANTS stem, va, vb, vc, piece

VARIABLES part,
    tree,
    game, command_count, init_count, first_init, overwritten, exit,
    graph, torn

schedVars == <<tokens, proc_nr, last_fill, slot, uptime, cpu, runnable, spent, forgotten, starts>>
commissionVars == <<commission, bids, wallet, requests>>
alertVars == <<clock, price, ticks, alerts, occurred, notifications, consumer,
               notificationQueue, published, mails, crashes>>
maVars == <<game, command_count, init_count, first_init, overwritten, exit>>
undoVars == <<document, selected, changesStack, changesIterator, undoAvailable, redoAvailable,
              made, trusted>>
virusVars == <<graph, torn>>
hotelVars == <<ordersList, deskClerkList, reheard, datesWhenReserved, booked>>
votesVars == <<votes, summary, workers, served, overlapped>>
tileVars == <<rectangles, shift>>
townVars == <<town, health, said>>
horrorVars == <<_time, _alive, _citizens, _monster, hour, overflowed>>

ASSUME RelayConstants

ASSUME Tokens!SchedulerConstants /\ Votes!VotesConstants

ASSUME Commissions!CommissionConstants

MCCondition == [low |-> {1}, high |-> {1, 3}]

ASSUME Alerts!AlertConstants

\* Seven keys: trees of black height 3, every case of both fix-ups.
Map == INSTANCE RedBlackMap WITH Key <- 1 .. 7, Value <- {piece}, Nil <- 0

D(n, k, p, x, y) == [n |-> n, k |-> k, p |-> p, x1 |-> 1, y1 |-> 1, x2 |-> x, y2 |-> y]
S(a, b, c, d) == <<<<a, b>>, <<c, d>>>>
\* The two INIT lines of a game against a human, and one with the kings too close.
MCInits == {D(12, 7, 1, 9, 1), D(12, 7, 2, 9, 1), D(12, 6, 1, 2, 1)}
\* The armies start at x = 1 .. 4 and 9 .. 12 of row 1 and meet on the squares between;
\* the last two lines let a peasant step aside and stay.
MCSteps == {S(4, 1, 5, 2), S(5, 2, 6, 1), S(6, 1, 7, 2), S(7, 2, 8, 1), S(8, 1, 9, 1),
            S(8, 1, 9, 2), S(9, 2, 10, 2), S(9, 2, 10, 1), S(10, 2, 11, 1),
            S(4, 1, 8, 1), S(9, 1, 8, 1), S(8, 1, 7, 1), S(7, 1, 6, 1), S(6, 1, 5, 1),
            S(5, 1, 4, 1), S(2, 1, 2, 2), S(2, 2, 2, 1), S(2, 1, 2, 1), S(2, 1, 1, 1)}
MiddleAges == INSTANCE MoveSearch WITH
    Inits <- MCInits, Steps <- MCSteps, JunkLimit <- {0, 9}

ASSUME MiddleAges!SearchConstants

ASSUME UndoRedo!UndoConstants

\* A stem and three more: chains, diamonds, cycles and self-parents.
Viruses == INSTANCE VirusGenealogy WITH Id <- {stem, va, vb, vc}, stem_id <- stem

Features(c, d, w, i) == [color |-> c, design |-> d, window |-> w, internet |-> i]
Room(id, cap, cost, features, s) ==
    [id |-> id, capacity |-> cap, price |-> cost, features |-> features, shares |-> s]
Order(client, arrival, stay, people, cost, features) ==
    [client |-> client, arrival |-> arrival, stay |-> stay, people |-> people,
     price |-> cost, features |-> features]
\* The last two rooms are copies of one.
MCRooms == <<Room(4, 0, 200, Features(1, 1, 1, 0), 1), Room(1, 3, 200, Features(2, 1, 2, 0), 2),
             Room(2, 3, 101, Features(2, 1, 1, 1), 3), Room(7, 3, 101, Features(2, 1, 1, 1), 3)>>
MCOrders == <<Order("perfectionist", 3, 2, 3, 150, Features(2, 1, 1, 1)),
              Order("dovish", 4, 2, 3, 300, Features(3, 1, 1, 1)),
              Order("viewer", 2, 3, 3, 300, Features(3, 1, 1, 0)),
              Order("half", 3, 2, 4, 300, Features(3, 1, 1, 0)),
              Order("budget", 1, 3, 3, 150, Features(2, 1, 2, 0))>>
MCClerks == <<"approximating", "random", "perfect", "snarky">>
MCQueues == {<<1, 3, 5>>, <<5, 4, 3, 2, 1>>}
            \cup {queue \in [1 .. 3 -> {1, 2, 4}] : \A i, j \in 1 .. 3 : queue[i] = queue[j] => i = j}

ASSUME Hotel!HotelConstants

\* Three by two squares, cut into four at most, here or one step aside.
MCWhole == [width |-> 3, height |-> 2, pos |-> [x |-> 1, y |-> -1]]
MCVector == {[x |-> 1, y |-> -1], [x |-> -1, y |-> 1]}
MCShifts == {[x |-> k, y |-> -k] : k \in 0 .. 1}

ASSUME Geometry!GeometryConstants

\* Two towns may share an adult, who dies of a blow, and a sheriff, who strikes back.
MCPower == [x \in Citizen \cup Fiend |-> IF x = "adult" THEN 0 ELSE 1]
MCHealth == [x \in Citizen \cup Fiend |-> IF x = "adult" THEN 1 ELSE 2]

ASSUME Towns!TownConstants

MCCitizens == <<[health |-> 3, attack |-> 1], [health |-> 1, attack |-> 0],
                [health |-> 2, attack |-> 1]>>
MCMonster == [health |-> 3, attack |-> 1]

ASSUME Horror!HorrorConstants

Parts == {"relay", "tokens", "commissions", "alerts", "map", "middle ages", "undo",
          "viruses", "hotel", "votes", "rectangles", "towns", "horror"}

ServicesInit ==
    /\ part \in Parts
    /\ Init /\ Tokens!Init /\ Commissions!Init /\ Alerts!Init /\ Map!Init
    /\ MiddleAges!Init /\ UndoRedo!Init /\ Viruses!Init /\ Hotel!Init /\ Votes!Init
    /\ Geometry!Init /\ Towns!Init /\ Horror!Init
    /\ part # "alerts" => price = 1
    /\ part # "middle ages" => game.turns_limit = 0
    /\ part # "hotel" => ordersList = <<5, 4, 3, 2, 1>> /\ deskClerkList = <<1, 2, 3, 4>>

\* A step of one part leaves the variables of the others alone.
Rest(p) ==
    /\ UNCHANGED part
    /\ IF p = "relay" THEN TRUE ELSE UNCHANGED relayVars
    /\ IF p = "tokens" THEN TRUE ELSE UNCHANGED schedVars
    /\ IF p = "commissions" THEN TRUE ELSE UNCHANGED commissionVars
    /\ IF p = "alerts" THEN TRUE ELSE UNCHANGED alertVars
    /\ IF p = "map" THEN TRUE ELSE UNCHANGED tree
    /\ IF p = "middle ages" THEN TRUE ELSE UNCHANGED maVars
    /\ IF p = "undo" THEN TRUE ELSE UNCHANGED undoVars
    /\ IF p = "viruses" THEN TRUE ELSE UNCHANGED virusVars
    /\ IF p = "hotel" THEN TRUE ELSE UNCHANGED hotelVars
    /\ IF p = "votes" THEN TRUE ELSE UNCHANGED votesVars
    /\ IF p = "rectangles" THEN TRUE ELSE UNCHANGED tileVars
    /\ IF p = "towns" THEN TRUE ELSE UNCHANGED townVars
    /\ IF p = "horror" THEN TRUE ELSE UNCHANGED horrorVars

RelayStep == part = "relay" /\ Next /\ Rest("relay")
TokenStep == part = "tokens" /\ Tokens!Next /\ Rest("tokens")
CommissionStep == part = "commissions" /\ Commissions!Next /\ Rest("commissions")
AlertStep == part = "alerts" /\ Alerts!Next /\ Rest("alerts")
MapStep == part = "map" /\ Map!Next /\ Rest("map")
MiddleAgesStep == part = "middle ages" /\ MiddleAges!Next /\ Rest("middle ages")
UndoStep == part = "undo" /\ UndoRedo!Next /\ Rest("undo")
VirusStep == part = "viruses" /\ Viruses!Next /\ Rest("viruses")
HotelStep == part = "hotel" /\ Hotel!Next /\ Rest("hotel")
VotesStep == part = "votes" /\ Votes!Next /\ Rest("votes")
TileStep == part = "rectangles" /\ Geometry!Next /\ Rest("rectangles")
AttackStep == part = "towns" /\ Towns!Next /\ Rest("towns")
HorrorStep == part = "horror" /\ Horror!Next /\ Rest("horror")

ServicesNext ==
    \/ RelayStep \/ TokenStep \/ CommissionStep \/ AlertStep \/ MapStep
    \/ MiddleAgesStep \/ UndoStep \/ VirusStep \/ HotelStep \/ VotesStep \/ TileStep
    \/ AttackStep \/ HorrorStep

ServicesSpec ==
    /\ ServicesInit
    /\ [][ServicesNext]_<<part, relayVars, schedVars, commissionVars, alertVars, tree, maVars,
                          undoVars, virusVars, hotelVars, votesVars, tileVars, townVars,
                          horrorVars>>
-----------------------------------------------------------------------------
\* The type invariants of the thirteen modules.
TypesOK ==
    /\ TypeOK /\ Tokens!TypeOK /\ Commissions!TypeOK /\ Alerts!TypeOK /\ Map!TypeOK
    /\ MiddleAges!TypeOK /\ UndoRedo!TypeOK /\ Viruses!TypeOK /\ Hotel!TypeOK /\ Votes!TypeOK
    /\ Geometry!TypeOK /\ Towns!TypeOK /\ Horror!TypeOK

\* The red-black tree of map.c is a balanced map.
MapPromise == Map!MapPromise
\* What is kept twice agrees: the flags and counters of engine.c with the pieces on the
\* board, the parents of virus_genealogy.h with the children, without orphans.
\* So do the board that move.c values and the one that engine.c plays, and collections of
\* the same rectangles in another order.
RecordsAgree ==
    /\ MiddleAges!CountersFollowBoard /\ Viruses!GenealogyIsSound
    /\ MiddleAges!SearchForesees /\ MiddleAges!SearchIsSound
    /\ Geometry!OrderIsIgnored
=============================================================================
