--------------------------------- MODULE Hotel ---------------------------------
(***************************************************************************)
(* PO task 1: desk clerks take turns to find a room for the first order of *)
(* a queue; the client accepts it or the order goes to the end, until it   *)
(* is taken up the third time.                                             *)
(***************************************************************************)
EXTENDS Integers, SequencesExt, FiniteSets

CONSTANTS
    Rooms,      \* array of [id, capacity, price, features, shares]: rooms with the same
                \* `shares` are copies with one set of reserved days
    Orders,     \* order |-> [client, arrival, stay, people, price, features]
    Clerks,     \* clerk |-> "perfect", "approximating", "random" or "snarky"
    Queues,     \* the arrays of orders given to accept
    NoRoom

HotelConstants ==
    /\ NoRoom \notin DOMAIN Rooms
    /\ \A queue \in Queues : /\ queue \in Seq(DOMAIN Orders)
                             /\ \A i, j \in DOMAIN queue : queue[i] = queue[j] => i = j
    /\ DOMAIN Clerks # {} /\ IsFiniteSet(DOMAIN Clerks)
    /\ \A c \in DOMAIN Clerks : Clerks[c] \in {"perfect", "approximating", "random", "snarky"}

Feature == {"color", "design", "window", "internet"}
MaxHearings == 3

VARIABLES
    ordersList, deskClerkList,
    reheard,            \* order |-> how often it was taken from the list
    datesWhenReserved,  \* days of every set of copies
    booked              \* the orders that were accepted, with their rooms

hotelVars == <<ordersList, deskClerkList, reheard, datesWhenReserved, booked>>

Days(o) == Orders[o].arrival .. Orders[o].arrival + Orders[o].stay - 1
\* mutant: only the first day counts
isFreeOnArrival(r, o) == Orders[o].arrival \notin datesWhenReserved[Rooms[r].shares]

isFree(r, o) == datesWhenReserved[Rooms[r].shares] \cap Days(o) = {}
findFreeRooms(o) == {r \in DOMAIN Rooms : isFree(r, o)}

\* howManyRequierments: the features that agree, and enough beds, and a price at most.
howManyRequierments(o, r) ==
    Cardinality({f \in Feature : Rooms[r].features[f] = Orders[o].features[f]})
    + (IF Rooms[r].capacity >= Orders[o].people THEN 1 ELSE 0)
    + (IF Rooms[r].price <= Orders[o].price THEN 1 ELSE 0)
numberOfRequierments == Cardinality(Feature) + 2

\* The rooms that meet most or fewest requirements, the dearest of some rooms, and the
\* last rooms with one of the ids.
MeetMost(o, S) == {r \in S : \A q \in S : howManyRequierments(o, q) <= howManyRequierments(o, r)}
MeetFewest(o, S) == {r \in S : \A q \in S : howManyRequierments(o, r) <= howManyRequierments(o, q)}
Dearest(S) == {r \in S : \A q \in S : Rooms[q].price <= Rooms[r].price}
WithId(S, ids) ==
    {r \in S : Rooms[r].id \in ids /\ \A q \in S : Rooms[q].id = Rooms[r].id => q <= r}
SmallestId(S) == {Rooms[r].id : r \in {q \in S : \A p \in S : Rooms[q].id <= Rooms[p].id}}
LargestId(S) == {Rooms[r].id : r \in {q \in S : \A p \in S : Rooms[q].id >= Rooms[p].id}}

Fitting(o, S) == {r \in S : howManyRequierments(o, r) = numberOfRequierments}

\* findRoom of the four clerks: the rooms each may propose when some are free.
RandomDeskClerk(o, free) == free
PerfectDeskClerk(o, free) ==
    LET fit == Fitting(o, free)
    IN IF fit = {} THEN {NoRoom}
       ELSE {r \in fit : \A q \in fit : \/ Rooms[r].id < Rooms[q].id
                                        \/ Rooms[r].id = Rooms[q].id /\ r <= q}
\* The minimum starts from the first free room, whatever that room is like.
AproximatingDeskClerk(o, free) ==
    LET first == {r \in free : \A q \in free : r <= q}
    IN WithId(free, SmallestId(Dearest(MeetMost(o, free)) \cup first))
SnarkyDeskClerk(o, free) == WithId(free, LargestId(Dearest(MeetFewest(o, free))))

findRoom(strategy, o) ==
    LET free == findFreeRooms(o)
    IN IF free = {} THEN {NoRoom}
       ELSE CASE strategy = "random" -> RandomDeskClerk(o, free)
              [] strategy = "perfect" -> PerfectDeskClerk(o, free)
              [] strategy = "approximating" -> AproximatingDeskClerk(o, free)
              [] strategy = "snarky" -> SnarkyDeskClerk(o, free)

ClientPerfectionist(o, r) == howManyRequierments(o, r) = numberOfRequierments
ClientHalf(o, r) == 2 * howManyRequierments(o, r) >= numberOfRequierments
ClientViewer(o, r) == Rooms[r].features["window"] = Orders[o].features["window"]
ClientBudget(o, r) == Orders[o].price >= Rooms[r].price

clientAccepts(o, r) ==
    LET client == Orders[o].client IN
    \/ client = "dovish"
    \/ client = "perfectionist" /\ ClientPerfectionist(o, r)
    \/ client = "half" /\ ClientHalf(o, r)
    \/ client = "viewer" /\ ClientViewer(o, r)
    \/ client = "budget" /\ ClientBudget(o, r)

Init ==
    /\ ordersList \in Queues
    /\ deskClerkList \in SetToSeqs(DOMAIN Clerks)
    /\ reheard = [o \in DOMAIN Orders |-> 0]
    /\ datesWhenReserved = [s \in {Rooms[r].shares : r \in DOMAIN Rooms} |-> {}]
    /\ booked = {}

\* One round of the loop of accept: `put` is what goes back to the end of the list.
Hear(o, put) ==
    /\ reheard' = [reheard EXCEPT ![o] = @ + 1]
    /\ ordersList' = Tail(ordersList) \o put
    /\ deskClerkList' = Append(Tail(deskClerkList), Head(deskClerkList))

reheardTooManyTimes(o) == reheard[o] + 1 >= MaxHearings

GiveUp ==
    /\ ordersList # << >> /\ reheardTooManyTimes(Head(ordersList))
    /\ Hear(Head(ordersList), << >>)
    /\ UNCHANGED <<datesWhenReserved, booked>>

Propose ==
    /\ ordersList # << >> /\ ~reheardTooManyTimes(Head(ordersList))
    /\ LET o == Head(ordersList) IN
       \E room \in findRoom(Clerks[Head(deskClerkList)], o) :
          IF room # NoRoom /\ clientAccepts(o, room)
          THEN /\ Hear(o, << >>)
               /\ datesWhenReserved' =
                     [datesWhenReserved EXCEPT ![Rooms[room].shares] = @ \cup Days(o)]
               /\ booked' = booked \cup {<<o, room>>}
          ELSE Hear(o, <<o>>) /\ UNCHANGED <<datesWhenReserved, booked>>

Next == GiveUp \/ Propose

Spec == Init /\ [][Next]_hotelVars
-----------------------------------------------------------------------------
TypeOK ==
    /\ ToSet(ordersList) \subseteq DOMAIN Orders
    /\ ToSet(deskClerkList) = DOMAIN Clerks
    /\ \A o \in DOMAIN Orders : reheard[o] \in 0 .. MaxHearings
    /\ booked \subseteq (DOMAIN Orders) \X (DOMAIN Rooms)

\* Nobody's days overlap in one room, the two copies of a room included; an order has one
\* room at most, and one that left the list without a room was taken up three times.
OrdersAreSettled ==
    /\ \A b, c \in booked : b # c =>
          /\ b[1] # c[1]
          /\ Rooms[b[2]].shares = Rooms[c[2]].shares => Days(b[1]) \cap Days(c[1]) = {}
    /\ \A o \in DOMAIN Orders :
          (reheard[o] \in 1 .. MaxHearings - 1 /\ ~Contains(ordersList, o))
              => \E r \in DOMAIN Rooms : <<o, r>> \in booked
=============================================================================
