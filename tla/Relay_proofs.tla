----------------------------- MODULE Relay_proofs -----------------------------
(***************************************************************************)
(* Proofs about the relay of SIK task 1.  The lemmas say what an operation *)
(* of circular_buffer does to the sequence of the buffer's elements; the   *)
(* theorem is that the relay implements Fanout.                            *)
(***************************************************************************)
EXTENDS Relay, SequenceTheorems, TLAPS

Waiting == [id : Nat, stack : SUBSET Client]
Subscript == 0 .. Capacity - 1

Buffer == [array : [Subscript -> Waiting \cup {Never}], array_size : {Capacity},
           head : Subscript, tail : Subscript, contents_size : 0 .. Capacity]

\* Subscript of the i-th element, the array being a ring.
Place(b, i) == IF b.head + i - 1 < Capacity THEN b.head + i - 1 ELSE b.head + i - 1 - Capacity

\* The next element goes behind the last one, and the elements are constructed.
Ring(b) ==
    /\ b \in Buffer
    /\ NextTail(b) = Place(b, b.contents_size + 1)
    /\ \A i \in 1 .. b.contents_size : b.array[Place(b, i)] \in Waiting

\* What the server knows about the clients.
Heard == now \in Nat /\ former_clients \in [Client -> Nat \cup {Never}]

RelayInv == Ring(buffer) /\ accepted \in Nat /\ Heard

-----------------------------------------------------------------------------
\* normalise: an index is less than one turn away from its subscript.
LEMMA OneTurn ==
    ASSUME NEW n \in Nat \ {0}, NEW m \in 0 .. 2 * n - 1
    PROVE  m % n = IF m < n THEN m ELSE m - n
<1>1. CASE m < n
  BY <1>1
<1>2. CASE m >= n
  BY <1>2
<1> QED BY <1>1, <1>2

\* Elements have subscripts of their own.
LEMMA Places ==
    ASSUME RelayConstants, NEW b, Ring(b)
    PROVE  /\ \A i \in 1 .. Capacity + 1 : Place(b, i) \in Subscript
           /\ \A i, j \in 1 .. Capacity : Place(b, i) = Place(b, j) => i = j
           /\ Place(b, 1) = b.head
           /\ Place(b, Capacity + 1) = b.head
<1>1. Capacity \in Nat \ {0} /\ b.head \in 0 .. Capacity - 1
  BY DEF RelayConstants, Ring, Buffer, Subscript
<1> QED BY <1>1 DEF Place, Subscript

\* operator[] finds the elements, in order.
LEMMA ItemsFound ==
    ASSUME RelayConstants, NEW b, Ring(b)
    PROVE  /\ Items(b) = [i \in 1 .. b.contents_size |-> b.array[Place(b, i)]]
           /\ Items(b) \in Seq(Waiting)
           /\ Len(Items(b)) = b.contents_size
           /\ b.contents_size \in 0 .. Capacity
<1>1. /\ Capacity \in Nat \ {0} /\ b.head \in 0 .. Capacity - 1
      /\ b.array_size = Capacity /\ b.contents_size \in 0 .. Capacity
  BY DEF RelayConstants, Ring, Buffer, Subscript
<1>2. \A i \in 1 .. b.contents_size : (i - 1 + b.head) % b.array_size = Place(b, i)
  <2> SUFFICES ASSUME NEW i \in 1 .. b.contents_size
               PROVE  (i - 1 + b.head) % b.array_size = Place(b, i)
    OBVIOUS
  <2>1. i - 1 + b.head \in 0 .. 2 * Capacity - 1
    BY <1>1
  <2>2. (i - 1 + b.head) % Capacity =
          IF i - 1 + b.head < Capacity THEN i - 1 + b.head ELSE i - 1 + b.head - Capacity
    BY <2>1, <1>1, OneTurn, SMTT(60)
  <2> QED BY <2>2, <1>1 DEF Place
<1>3. Items(b) = [i \in 1 .. b.contents_size |-> b.array[Place(b, i)]]
  BY <1>2, Zenon DEF Items
<1>4. \A i \in 1 .. b.contents_size : b.array[Place(b, i)] \in Waiting
  BY DEF Ring
<1> HIDE DEF Place, Waiting
<1>5. Items(b) \in Seq(Waiting) /\ Len(Items(b)) = b.contents_size
  BY <1>1, <1>3, <1>4
<1> QED BY <1>1, <1>3, <1>5

\* The queue of Fanout that a sequence of requests stands for.
Owed(items) == [i \in 1 .. Len(items) |-> [id |-> items[i].id, owed |-> items[i].stack]]

LEMMA QueueOwed ==
    ASSUME RelayConstants, Ring(buffer)
    PROVE  Queue = Owed(Items(buffer))
BY ItemsFound, Zenon DEF Queue, Owed

-----------------------------------------------------------------------------
\* What an operation writes, member by member.
LEMMA PushWrites ==
    ASSUME RelayConstants, NEW b, Ring(b), NEW item
    PROVE  PushBack(b, item) =
             [array |-> [b.array EXCEPT ![NextTail(b)] = item], array_size |-> Capacity,
              head |-> IF b.contents_size = Capacity
                       THEN (IF b.head + 1 = Capacity THEN 0 ELSE b.head + 1) ELSE b.head,
              tail |-> NextTail(b),
              contents_size |-> IF b.contents_size = Capacity
                                THEN Capacity ELSE b.contents_size + 1]
<1> DEFINE stored == [b EXCEPT !.array[NextTail(b)] = item]
           moved == IF b.contents_size = b.array_size THEN IncrementHead(stored) ELSE stored
<1>1. /\ b \in Buffer /\ Capacity \in Nat \ {0} /\ b.array_size = Capacity
      /\ b.contents_size \in 0 .. Capacity
  BY DEF Ring, Buffer, RelayConstants
<1>2. b = [array |-> b.array, array_size |-> Capacity, head |-> b.head, tail |-> b.tail,
           contents_size |-> b.contents_size]
  BY <1>1 DEF Buffer
<1>3. stored = [array |-> [b.array EXCEPT ![NextTail(b)] = item], array_size |-> Capacity,
                head |-> b.head, tail |-> b.tail, contents_size |-> b.contents_size]
  BY <1>2
<1>4. moved = [array |-> [b.array EXCEPT ![NextTail(b)] = item], array_size |-> Capacity,
               head |-> IF b.contents_size = Capacity
                        THEN (IF b.head + 1 = Capacity THEN 0 ELSE b.head + 1) ELSE b.head,
               tail |-> b.tail,
               contents_size |-> IF b.contents_size = Capacity
                                 THEN Capacity - 1 ELSE b.contents_size]
  <2> HIDE DEF stored
  <2>1. CASE b.contents_size = Capacity
    BY <2>1, <1>1, <1>3 DEF IncrementHead
  <2>2. CASE b.contents_size # Capacity
    BY <2>2, <1>1, <1>3
  <2> QED BY <2>1, <2>2
<1>5. NextTail(moved) = NextTail(b)
  BY <1>4, <1>1, <1>2 DEF NextTail
<1>6. PushBack(b, item) = IncrementTail(moved)
  BY Zenon DEF PushBack
<1>7. IncrementTail(moved) = [moved EXCEPT !.contents_size = @ + 1, !.tail = NextTail(b)]
  BY <1>5, Zenon DEF IncrementTail
<1> HIDE DEF moved, stored
<1>8. CASE b.contents_size = Capacity
  <2>1. moved.contents_size + 1 = Capacity
    BY <1>8, <1>1, <1>4
  <2> QED BY <1>8, <1>1, <1>4, <1>6, <1>7, <2>1
<1>9. CASE b.contents_size # Capacity
  <2>1. moved.contents_size + 1 = b.contents_size + 1
    BY <1>9, <1>1, <1>4
  <2> QED BY <1>9, <1>1, <1>4, <1>6, <1>7, <2>1
<1> QED BY <1>8, <1>9

LEMMA PopWrites ==
    ASSUME RelayConstants, NEW b, Ring(b)
    PROVE  PopFront(b) =
             [array |-> [b.array EXCEPT ![b.head] = Never], array_size |-> Capacity,
              head |-> IF b.head + 1 = Capacity THEN 0 ELSE b.head + 1,
              tail |-> b.tail, contents_size |-> b.contents_size - 1]
<1>1. /\ b \in Buffer /\ b.array_size = Capacity /\ Capacity \in Nat
      /\ b.head \in Int /\ b.contents_size \in Int
  BY DEF Ring, Buffer, Subscript, RelayConstants
<1>2. b = [array |-> b.array, array_size |-> Capacity, head |-> b.head, tail |-> b.tail,
           contents_size |-> b.contents_size]
  BY <1>1 DEF Buffer
<1>3. IncrementHead(b) =
        [array |-> b.array, array_size |-> Capacity,
         head |-> IF b.head + 1 = Capacity THEN 0 ELSE b.head + 1,
         tail |-> b.tail, contents_size |-> b.contents_size - 1]
  <2>1. IncrementHead(b) =
          [b EXCEPT !.head = IF b.head + 1 = Capacity THEN 0 ELSE b.head + 1,
                    !.contents_size = b.contents_size - 1]
    BY <1>1, Zenon DEF IncrementHead
  <2> QED BY <1>1, <1>2, <2>1
<1> QED BY <1>3 DEF PopFront

LEMMA ReplaceWrites ==
    ASSUME RelayConstants, NEW b, Ring(b), NEW item
    PROVE  ReplaceFront(b, item) =
             [array |-> [b.array EXCEPT ![b.head] = item], array_size |-> Capacity,
              head |-> b.head, tail |-> b.tail, contents_size |-> b.contents_size]
<1>1. b = [array |-> b.array, array_size |-> Capacity, head |-> b.head, tail |-> b.tail,
           contents_size |-> b.contents_size]
  BY DEF Ring, Buffer
<1> QED BY <1>1 DEF ReplaceFront

-----------------------------------------------------------------------------
\* A pushed element comes last, and at the limit the oldest one goes.
LEMMA PushKeeps ==
    ASSUME RelayConstants, NEW b, Ring(b), NEW item \in Waiting
    PROVE  /\ Ring(PushBack(b, item))
           /\ Items(PushBack(b, item)) =
                Append(IF Len(Items(b)) = Capacity THEN Tail(Items(b)) ELSE Items(b), item)
<1> DEFINE p == PushBack(b, item)
           n == b.contents_size
           t == NextTail(b)
           Old(i) == IF n = Capacity THEN i + 1 ELSE i
<1>1. /\ Capacity \in Nat \ {0} /\ b.head \in Subscript /\ b.array_size = Capacity
      /\ n \in 0 .. Capacity /\ b.array \in [Subscript -> Waiting \cup {Never}]
  BY DEF Ring, Buffer, RelayConstants
<1>2. t = Place(b, n + 1) /\ t \in Subscript
  BY <1>1, Places DEF Ring
<1>3. /\ p.array = [b.array EXCEPT ![t] = item] /\ p.array_size = Capacity /\ p.tail = t
      /\ p.head = IF n = Capacity THEN (IF b.head + 1 = Capacity THEN 0 ELSE b.head + 1)
                                  ELSE b.head
      /\ p.contents_size = IF n = Capacity THEN Capacity ELSE n + 1
      /\ p = [array |-> p.array, array_size |-> p.array_size, head |-> p.head,
              tail |-> p.tail, contents_size |-> p.contents_size]
  BY PushWrites
<1> HIDE DEF p, t
<1>4. p \in Buffer
  <2>1. p.array \in [Subscript -> Waiting \cup {Never}]
    BY <1>1, <1>2, <1>3
  <2>2. p.head \in Subscript /\ p.contents_size \in 0 .. Capacity
    BY <1>1, <1>3 DEF Subscript
  <2> QED BY <1>2, <1>3, <2>1, <2>2 DEF Buffer
<1>5. \A i \in 1 .. p.contents_size : Place(p, i) = Place(b, Old(i))
  <2>1. CASE n = Capacity
    BY <1>1, <1>3, <2>1, SMTT(60) DEF Place, Subscript
  <2>2. CASE n # Capacity
    BY <1>1, <1>3, <2>2 DEF Place, Subscript
  <2> QED BY <2>1, <2>2
<1>6. t = Place(b, Old(p.contents_size))
  BY <1>1, <1>2, <1>3
<1>7. \A i \in 1 .. p.contents_size - 1 : Place(b, Old(i)) # t /\ Old(i) \in 1 .. n
  <2>1. CASE n = Capacity
    <3>1. t = Place(b, 1)
      BY <1>2, <2>1, Places
    <3>2. \A i \in 1 .. p.contents_size - 1 : Old(i) \in 2 .. Capacity
      BY <1>1, <1>3, <2>1
    <3> HIDE DEF Old
    <3> QED BY <1>1, <2>1, <3>1, <3>2, Places
  <2>2. CASE n # Capacity
    <3>1. \A i \in 1 .. p.contents_size - 1 : Old(i) \in 1 .. n
      BY <1>1, <1>3, <2>2
    <3> HIDE DEF Old
    <3> QED BY <1>1, <1>2, <2>2, <3>1, Places
  <2> QED BY <2>1, <2>2
<1>8. /\ p.array[Place(p, p.contents_size)] = item
      /\ \A i \in 1 .. p.contents_size - 1 :
           /\ p.array[Place(p, i)] = b.array[Place(b, Old(i))]
           /\ Old(i) \in 1 .. n
  <2>1. p.contents_size \in 1 .. Capacity
    BY <1>1, <1>3
  <2>2. p.array[t] = item /\ \A q \in Subscript : q # t => p.array[q] = b.array[q]
    BY <1>1, <1>2, <1>3
  <2>3. \A i \in 1 .. n : Place(b, i) \in Subscript
    BY <1>1, Places
  <2> HIDE DEF Old
  <2> QED BY <1>5, <1>6, <1>7, <2>1, <2>2, <2>3
<1>9. NextTail(p) = Place(p, p.contents_size + 1)
  <2>1. CASE n = Capacity
    <3>1. p.tail = b.head
      BY <1>2, <1>3, <2>1, Places
    <3> QED BY <1>1, <1>3, <2>1, <3>1 DEF NextTail, Place, Subscript
  <2>2. CASE n # Capacity
    BY <1>1, <1>2, <1>3, <2>2, SMTT(60) DEF NextTail, Place, Subscript
  <2> QED BY <2>1, <2>2
<1>10. Ring(p)
  <2>1. \A i \in 1 .. n : b.array[Place(b, i)] \in Waiting
    BY DEF Ring
  <2>2. \A i \in 1 .. p.contents_size : i = p.contents_size \/ i \in 1 .. p.contents_size - 1
    BY <1>1, <1>3
  <2> HIDE DEF Old
  <2> QED BY <1>4, <1>8, <1>9, <2>1, <2>2 DEF Ring
<1>11. /\ Items(p) = [i \in 1 .. p.contents_size |-> p.array[Place(p, i)]]
       /\ Items(b) = [i \in 1 .. n |-> b.array[Place(b, i)]]
       /\ Items(b) \in Seq(Waiting) /\ Len(Items(b)) = n
       /\ Items(p) \in Seq(Waiting) /\ Len(Items(p)) = p.contents_size
  BY <1>10, ItemsFound
<1>12. /\ \A i \in 1 .. p.contents_size - 1 : Items(p)[i] = Items(b)[Old(i)]
       /\ Items(p)[p.contents_size] = item
  <2>1. p.contents_size \in 1 .. Capacity
    BY <1>1, <1>3
  <2> HIDE DEF Old
  <2> QED BY <1>8, <1>11, <2>1
<1>13. CASE n = Capacity
  <2>1. Len(Tail(Items(b))) = Capacity - 1 /\ Tail(Items(b)) \in Seq(Waiting)
    BY <1>1, <1>11, <1>13
  <2>2. \A i \in 1 .. Capacity - 1 : Tail(Items(b))[i] = Items(b)[i + 1]
    BY <1>1, <1>11, <1>13
  <2>3. /\ Len(Append(Tail(Items(b)), item)) = Capacity
        /\ Append(Tail(Items(b)), item) \in Seq(Waiting)
        /\ Append(Tail(Items(b)), item)[Capacity] = item
        /\ \A i \in 1 .. Capacity - 1 : Append(Tail(Items(b)), item)[i] = Items(b)[i + 1]
    BY <1>1, <2>1, <2>2
  <2>4. p.contents_size = Capacity /\ \A i \in 1 .. Capacity - 1 : Items(p)[i] = Items(b)[i + 1]
    BY <1>3, <1>12, <1>13
  <2>5. \A i \in 1 .. Capacity : Items(p)[i] = Append(Tail(Items(b)), item)[i]
    BY <1>1, <1>12, <2>3, <2>4
  <2>6. Items(p) = Append(Tail(Items(b)), item)
    <3>1. /\ Len(Items(p)) = Len(Append(Tail(Items(b)), item))
          /\ \A i \in 1 .. Len(Items(p)) : Items(p)[i] = Append(Tail(Items(b)), item)[i]
      BY <1>11, <2>3, <2>4, <2>5
    <3> QED BY <1>11, <2>3, <3>1, SeqEqual, Zenon
  <2> QED BY <1>10, <1>11, <1>13, <2>6 DEF p
<1>14. CASE n # Capacity
  <2>1. /\ Len(Append(Items(b), item)) = n + 1
        /\ Append(Items(b), item) \in Seq(Waiting)
        /\ Append(Items(b), item)[n + 1] = item
        /\ \A i \in 1 .. n : Append(Items(b), item)[i] = Items(b)[i]
    BY <1>1, <1>11
  <2>2. p.contents_size = n + 1 /\ \A i \in 1 .. n : Items(p)[i] = Items(b)[i]
    BY <1>1, <1>3, <1>12, <1>14
  <2>3. \A i \in 1 .. n + 1 : Items(p)[i] = Append(Items(b), item)[i]
    BY <1>1, <1>12, <2>1, <2>2
  <2>4. Items(p) = Append(Items(b), item)
    <3>1. /\ Len(Items(p)) = Len(Append(Items(b), item))
          /\ \A i \in 1 .. Len(Items(p)) : Items(p)[i] = Append(Items(b), item)[i]
      BY <1>11, <2>1, <2>2, <2>3
    <3> QED BY <1>11, <2>1, <3>1, SeqEqual, Zenon
  <2> QED BY <1>10, <1>11, <1>14, <2>4 DEF p
<1> QED BY <1>13, <1>14

\* A popped buffer has lost its first element and nothing else.
LEMMA PopKeeps ==
    ASSUME RelayConstants, NEW b, Ring(b), ~IsEmpty(b)
    PROVE  /\ Ring(PopFront(b))
           /\ Items(PopFront(b)) = Tail(Items(b))
<1> DEFINE p == PopFront(b)
           n == b.contents_size
<1>1. /\ Capacity \in Nat \ {0} /\ b.head \in Subscript /\ b.array_size = Capacity
      /\ n \in 1 .. Capacity /\ b.array \in [Subscript -> Waiting \cup {Never}]
      /\ b.tail \in Subscript
  BY DEF Ring, Buffer, RelayConstants, IsEmpty
<1>2. /\ p.array = [b.array EXCEPT ![b.head] = Never] /\ p.array_size = Capacity
      /\ p.tail = b.tail /\ p.contents_size = n - 1
      /\ p.head = IF b.head + 1 = Capacity THEN 0 ELSE b.head + 1
      /\ p = [array |-> p.array, array_size |-> p.array_size, head |-> p.head,
              tail |-> p.tail, contents_size |-> p.contents_size]
  BY PopWrites
<1> HIDE DEF p
<1>3. p \in Buffer
  <2>1. p.array \in [Subscript -> Waiting \cup {Never}]
    BY <1>1, <1>2
  <2>2. p.head \in Subscript /\ p.contents_size \in 0 .. Capacity
    BY <1>1, <1>2 DEF Subscript
  <2> QED BY <1>1, <1>2, <2>1, <2>2 DEF Buffer
<1>4. \A i \in 1 .. n : Place(p, i) = Place(b, i + 1)
  <2> SUFFICES ASSUME NEW i \in 1 .. n PROVE Place(p, i) = Place(b, i + 1)
    OBVIOUS
  <2>1. CASE b.head + 1 = Capacity
    BY <1>1, <1>2, <2>1 DEF Place, Subscript
  <2>2. CASE b.head + 1 # Capacity
    <3>1. p.head = b.head + 1 /\ b.head \in Int /\ Capacity \in Int /\ i \in Int
      BY <1>1, <1>2, <2>2 DEF Subscript
    <3>2. Place(b, i + 1) = IF b.head + i < Capacity THEN b.head + i ELSE b.head + i - Capacity
      BY <3>1 DEF Place
    <3>3. Place(p, i) = IF b.head + i < Capacity THEN b.head + i ELSE b.head + i - Capacity
      BY <3>1 DEF Place
    <3> QED BY <3>2, <3>3
  <2> QED BY <2>1, <2>2
<1>5. \A i \in 1 .. n - 1 : p.array[Place(p, i)] = b.array[Place(b, i + 1)]
  <2>1. \A i \in 1 .. n - 1 : Place(b, i + 1) # b.head /\ Place(b, i + 1) \in Subscript
    BY <1>1, Places
  <2> QED BY <1>1, <1>2, <1>4, <2>1
<1>6. NextTail(p) = Place(p, p.contents_size + 1)
  <2>1. NextTail(p) = NextTail(b)
    BY <1>1, <1>2 DEF NextTail
  <2> QED BY <1>1, <1>2, <1>4, <2>1 DEF Ring
<1>7. Ring(p)
  <2>1. \A i \in 1 .. n - 1 : b.array[Place(b, i + 1)] \in Waiting
    BY <1>1 DEF Ring
  <2> QED BY <1>2, <1>3, <1>5, <1>6, <2>1 DEF Ring
<1>8. /\ Items(p) = [i \in 1 .. n - 1 |-> p.array[Place(p, i)]]
      /\ Items(b) = [i \in 1 .. n |-> b.array[Place(b, i)]]
      /\ Items(b) \in Seq(Waiting) /\ Len(Items(b)) = n
      /\ Items(p) \in Seq(Waiting) /\ Len(Items(p)) = n - 1
  BY <1>2, <1>7, ItemsFound
<1>9. \A i \in 1 .. n - 1 : Items(p)[i] = Items(b)[i + 1]
  BY <1>1, <1>5, <1>8
<1>10. /\ Len(Tail(Items(b))) = n - 1 /\ Tail(Items(b)) \in Seq(Waiting)
       /\ \A i \in 1 .. n - 1 : Tail(Items(b))[i] = Items(b)[i + 1]
  BY <1>1, <1>8
<1>11. Items(p) = Tail(Items(b))
  <2>1. \A i \in 1 .. n - 1 : Items(p)[i] = Tail(Items(b))[i]
    BY <1>9, <1>10
  <2> QED BY <1>8, <1>10, <2>1, SeqEqual
<1> QED BY <1>7, <1>11 DEF p

\* front() is the first element, and writing there changes no other.
LEMMA ReplaceKeeps ==
    ASSUME RelayConstants, NEW b, Ring(b), ~IsEmpty(b), NEW item \in Waiting
    PROVE  /\ Ring(ReplaceFront(b, item))
           /\ Items(ReplaceFront(b, item)) = [Items(b) EXCEPT ![1] = item]
           /\ Front(b) = Items(b)[1] /\ Front(b) \in Waiting /\ Len(Items(b)) >= 1
<1> DEFINE p == ReplaceFront(b, item)
           n == b.contents_size
<1>1. /\ Capacity \in Nat \ {0} /\ b.head \in Subscript /\ b.array_size = Capacity
      /\ n \in 1 .. Capacity /\ b.array \in [Subscript -> Waiting \cup {Never}]
      /\ b.tail \in Subscript
  BY DEF Ring, Buffer, RelayConstants, IsEmpty
<1>2. /\ p.array = [b.array EXCEPT ![b.head] = item] /\ p.array_size = Capacity
      /\ p.tail = b.tail /\ p.contents_size = n /\ p.head = b.head
      /\ p = [array |-> p.array, array_size |-> p.array_size, head |-> p.head,
              tail |-> p.tail, contents_size |-> p.contents_size]
  BY ReplaceWrites
<1> HIDE DEF p
<1>3. p \in Buffer
  <2>1. p.array \in [Subscript -> Waiting \cup {Never}]
    BY <1>1, <1>2
  <2> QED BY <1>1, <1>2, <2>1 DEF Buffer
<1>4. \A i \in 1 .. n + 1 : Place(p, i) = Place(b, i)
  BY <1>2 DEF Place
<1>5. /\ Place(b, 1) = b.head
      /\ \A i \in 2 .. n : Place(b, i) # b.head /\ Place(b, i) \in Subscript
  BY <1>1, Places
<1>6. p.array[b.head] = item /\ \A i \in 2 .. n : p.array[Place(p, i)] = b.array[Place(b, i)]
  BY <1>1, <1>2, <1>4, <1>5
<1>7. Ring(p)
  <2>1. NextTail(p) = Place(p, p.contents_size + 1)
    BY <1>1, <1>2, <1>4 DEF Ring, NextTail
  <2>2. \A i \in 1 .. n : i = 1 \/ i \in 2 .. n
    BY <1>1
  <2>3. \A i \in 1 .. n : b.array[Place(b, i)] \in Waiting
    BY DEF Ring
  <2> QED BY <1>1, <1>2, <1>3, <1>4, <1>5, <1>6, <2>1, <2>2, <2>3 DEF Ring
<1>8. /\ Items(p) = [i \in 1 .. n |-> p.array[Place(p, i)]]
      /\ Items(b) = [i \in 1 .. n |-> b.array[Place(b, i)]]
      /\ Items(b) \in Seq(Waiting) /\ Len(Items(b)) = n
  BY <1>2, <1>7, ItemsFound
<1>9. \A i \in 1 .. n : Items(p)[i] = IF i = 1 THEN item ELSE Items(b)[i]
  BY <1>1, <1>4, <1>5, <1>6, <1>8
<1>10. Items(p) = [Items(b) EXCEPT ![1] = item]
  BY <1>1, <1>8, <1>9
<1>11. Front(b) = Items(b)[1] /\ Front(b) \in Waiting
  BY <1>1, <1>5, <1>8 DEF Front, Ring
<1>12. Len(Items(b)) >= 1
  BY <1>1, <1>8
<1> QED BY <1>7, <1>10, <1>11, <1>12 DEF p

-----------------------------------------------------------------------------
\* The requests' shape in Fanout changes with the sequence of elements.
LEMMA OwedMoves ==
    ASSUME NEW items \in Seq(Waiting)
    PROVE  /\ Len(Owed(items)) = Len(items)
           /\ \A i \in 1 .. Len(items) :
                Owed(items)[i] = [id |-> items[i].id, owed |-> items[i].stack]
           /\ Owed(items) \in Seq([id : Nat, owed : SUBSET Client])
<1>1. \A i \in 1 .. Len(items) : items[i] \in Waiting
  OBVIOUS
<1>2. \A i \in 1 .. Len(items) :
        [id |-> items[i].id, owed |-> items[i].stack] \in [id : Nat, owed : SUBSET Client]
  BY <1>1 DEF Waiting
<1> QED BY <1>2 DEF Owed

LEMMA OwedAppend ==
    ASSUME NEW items \in Seq(Waiting), NEW item \in Waiting
    PROVE  Owed(Append(items, item)) =
             Append(Owed(items), [id |-> item.id, owed |-> item.stack])
<1> DEFINE longer == Append(items, item)
           owed == [id |-> item.id, owed |-> item.stack]
           Request == [id : Nat, owed : SUBSET Client]
<1>1. /\ longer \in Seq(Waiting) /\ Len(longer) = Len(items) + 1 /\ Len(items) \in Nat
      /\ longer[Len(items) + 1] = item /\ \A i \in 1 .. Len(items) : longer[i] = items[i]
  OBVIOUS
<1>2. owed \in Request
  BY DEF Waiting
<1>3. /\ Owed(items) \in Seq(Request) /\ Len(Owed(items)) = Len(items)
      /\ \A i \in 1 .. Len(items) :
           Owed(items)[i] = [id |-> items[i].id, owed |-> items[i].stack]
  BY OwedMoves
<1> HIDE DEF longer
<1>4. /\ Owed(longer) \in Seq(Request) /\ Len(Owed(longer)) = Len(items) + 1
      /\ \A i \in 1 .. Len(items) + 1 :
           Owed(longer)[i] = [id |-> longer[i].id, owed |-> longer[i].stack]
  BY <1>1, OwedMoves
<1> HIDE DEF owed, Request
<1>5. /\ Append(Owed(items), owed) \in Seq(Request)
      /\ Len(Append(Owed(items), owed)) = Len(items) + 1
      /\ Append(Owed(items), owed)[Len(items) + 1] = owed
      /\ \A i \in 1 .. Len(items) : Append(Owed(items), owed)[i] = Owed(items)[i]
  BY <1>2, <1>3
<1>6. \A i \in 1 .. Len(items) + 1 : i \in 1 .. Len(items) \/ i = Len(items) + 1
  BY <1>1
<1>7. Owed(longer)[Len(items) + 1] = owed
  BY <1>1, <1>4 DEF owed
<1>8. \A i \in 1 .. Len(Owed(longer)) : Owed(longer)[i] = Append(Owed(items), owed)[i]
  BY <1>1, <1>3, <1>4, <1>5, <1>6, <1>7
<1>9. Owed(longer) = Append(Owed(items), owed)
  BY <1>4, <1>5, <1>8, SeqEqual
<1> QED BY <1>9 DEF longer, owed

LEMMA OwedTail ==
    ASSUME NEW items \in Seq(Waiting), items # <<>>
    PROVE  Owed(Tail(items)) = Tail(Owed(items))
<1> DEFINE Request == [id : Nat, owed : SUBSET Client]
<1>1. /\ Tail(items) \in Seq(Waiting) /\ Len(Tail(items)) = Len(items) - 1
      /\ Len(items) \in Nat \ {0}
      /\ \A i \in 1 .. Len(items) - 1 : Tail(items)[i] = items[i + 1]
  OBVIOUS
<1>2. /\ Owed(items) \in Seq(Request) /\ Len(Owed(items)) = Len(items)
      /\ \A i \in 1 .. Len(items) :
           Owed(items)[i] = [id |-> items[i].id, owed |-> items[i].stack]
  BY OwedMoves
<1>3. /\ Owed(Tail(items)) \in Seq(Request) /\ Len(Owed(Tail(items))) = Len(items) - 1
      /\ \A i \in 1 .. Len(items) - 1 :
           Owed(Tail(items))[i] = [id |-> Tail(items)[i].id, owed |-> Tail(items)[i].stack]
  BY <1>1, OwedMoves
<1> HIDE DEF Request
<1>4. /\ Tail(Owed(items)) \in Seq(Request) /\ Len(Tail(Owed(items))) = Len(items) - 1
      /\ \A i \in 1 .. Len(items) - 1 : Tail(Owed(items))[i] = Owed(items)[i + 1]
  BY <1>1, <1>2
<1>5. \A i \in 1 .. Len(items) - 1 : i + 1 \in 1 .. Len(items)
  BY <1>1
<1>6. \A i \in 1 .. Len(items) - 1 : Owed(Tail(items))[i] = Tail(Owed(items))[i]
  BY <1>1, <1>2, <1>3, <1>4, <1>5
<1>7. \A i \in 1 .. Len(Owed(Tail(items))) : Owed(Tail(items))[i] = Tail(Owed(items))[i]
  BY <1>3, <1>6
<1> QED BY <1>3, <1>4, <1>7, SeqEqual

LEMMA Served ==
    ASSUME NEW r \in Waiting, NEW c
    PROVE  /\ [r EXCEPT !.stack = @ \ {c}] = [id |-> r.id, stack |-> r.stack \ {c}]
           /\ [r EXCEPT !.stack = @ \ {c}] \in Waiting
<1>1. r = [id |-> r.id, stack |-> r.stack] /\ r.id \in Nat /\ r.stack \ {c} \in SUBSET Client
  BY DEF Waiting
<1>2. [r EXCEPT !.stack = @ \ {c}] = [id |-> r.id, stack |-> r.stack \ {c}]
  BY <1>1
<1>3. [id |-> r.id, stack |-> r.stack \ {c}] \in Waiting
  BY <1>1 DEF Waiting
<1> QED BY <1>2, <1>3

LEMMA ServedOwed ==
    ASSUME NEW r \in [id : Nat, owed : SUBSET Client], NEW c
    PROVE  [r EXCEPT !.owed = @ \ {c}] = [id |-> r.id, owed |-> r.owed \ {c}]
<1>1. r = [id |-> r.id, owed |-> r.owed]
  OBVIOUS
<1> QED BY <1>1

\* Serving a client takes it from what the oldest request owes.
LEMMA OwedServe ==
    ASSUME NEW items \in Seq(Waiting), items # <<>>, NEW c
    PROVE  Owed([items EXCEPT ![1] = [items[1] EXCEPT !.stack = @ \ {c}]]) =
             [Owed(items) EXCEPT ![1].owed = @ \ {c}]
<1> DEFINE Request == [id : Nat, owed : SUBSET Client]
           served == [items[1] EXCEPT !.stack = @ \ {c}]
           after == [items EXCEPT ![1] = served]
<1>1. Len(items) \in Nat \ {0} /\ items[1] \in Waiting
  OBVIOUS
<1>2. /\ served = [id |-> items[1].id, stack |-> items[1].stack \ {c}]
      /\ served \in Waiting
  BY <1>1, Served, Zenon
<1> HIDE DEF served
<1>3. /\ after \in Seq(Waiting) /\ Len(after) = Len(items)
      /\ after[1] = served /\ \A i \in 2 .. Len(items) : after[i] = items[i]
  <2> HIDE DEF Waiting
  <2>1. served \in Waiting
    BY <1>2
  <2> QED BY <1>1, <2>1
<1> HIDE DEF after
<1>4. /\ Owed(items) \in Seq(Request) /\ Len(Owed(items)) = Len(items)
      /\ \A i \in 1 .. Len(items) :
           Owed(items)[i] = [id |-> items[i].id, owed |-> items[i].stack]
  BY OwedMoves
<1>5. /\ Owed(after) \in Seq(Request) /\ Len(Owed(after)) = Len(items)
      /\ \A i \in 1 .. Len(items) :
           Owed(after)[i] = [id |-> after[i].id, owed |-> after[i].stack]
  BY <1>3, OwedMoves
<1>6. [Owed(items)[1] EXCEPT !.owed = @ \ {c}] =
        [id |-> items[1].id, owed |-> items[1].stack \ {c}]
  <2>1. Owed(items)[1] = [id |-> items[1].id, owed |-> items[1].stack]
    BY <1>1, <1>4
  <2>2. Owed(items)[1] \in Request
    <3> HIDE DEF Request
    <3> QED BY <1>1, <1>4
  <2>3. Owed(items)[1].id = items[1].id /\ Owed(items)[1].owed = items[1].stack
    BY <2>1
  <2> QED BY <2>2, <2>3, ServedOwed, Zenon
<1>7. /\ Owed(after)[1] = [Owed(items)[1] EXCEPT !.owed = @ \ {c}]
      /\ \A i \in 2 .. Len(items) : Owed(after)[i] = Owed(items)[i]
  <2>1. Owed(after)[1] = [id |-> served.id, owed |-> served.stack]
    BY <1>1, <1>3, <1>5
  <2>2. \A i \in 2 .. Len(items) : i \in 1 .. Len(items)
    BY <1>1
  <2>3. served.id = items[1].id /\ served.stack = items[1].stack \ {c}
    BY <1>2
  <2>4. Owed(after)[1] = [Owed(items)[1] EXCEPT !.owed = @ \ {c}]
    BY <1>6, <2>1, <2>3, Zenon
  <2>5. \A i \in 2 .. Len(items) : Owed(after)[i] = Owed(items)[i]
    BY <1>3, <1>4, <1>5, <2>2, Zenon
  <2> QED BY <2>4, <2>5
<1> HIDE DEF Request
<1>8. Owed(after) = [Owed(items) EXCEPT ![1] = [Owed(items)[1] EXCEPT !.owed = @ \ {c}]]
  BY <1>1, <1>4, <1>5, <1>7, SMTT(60)
<1> QED BY <1>8 DEF after, served

-----------------------------------------------------------------------------
\* The initial buffer is an empty queue.
LEMMA InitRing ==
    ASSUME RelayConstants, Init
    PROVE  RelayInv /\ Items(buffer) = <<>>
<1>1. Capacity \in Nat \ {0, 1}
  BY DEF RelayConstants
<1>2. /\ buffer = EmptyBuffer(Capacity) /\ buffer.array_size = Capacity /\ buffer.head = 1
      /\ buffer.tail = 0 /\ buffer.contents_size = 0
  BY DEF Init, EmptyBuffer
<1>3. buffer \in Buffer
  BY <1>1, <1>2 DEF EmptyBuffer, Buffer, Subscript
<1>4. NextTail(buffer) = Place(buffer, buffer.contents_size + 1)
  BY <1>1, <1>2 DEF NextTail, Place
<1>5. Ring(buffer)
  BY <1>2, <1>3, <1>4 DEF Ring
<1>6. Items(buffer) = <<>>
  <2>1. Items(buffer) \in Seq(Waiting) /\ Len(Items(buffer)) = 0
    BY <1>2, <1>5, ItemsFound
  <2> QED BY <2>1
<1>7. Heard
  BY DEF Init, Heard
<1> QED BY <1>5, <1>6, <1>7 DEF RelayInv, Init

\* What refresh_clients pushes is fresh when the datagram is queued.
LEMMA PushedAreFresh ==
    ASSUME NEW c \in Client, NEW visited,
           visited \in Visits([former_clients EXCEPT ![c] = now]),
           former_clients' = [d \in Client |->
               IF d \in visited \cap Stale([former_clients EXCEPT ![c] = now])
               THEN Never ELSE [former_clients EXCEPT ![c] = now][d]],
           now' = now
    PROVE  visited \ Stale([former_clients EXCEPT ![c] = now]) \in
             SUBSET (Known(former_clients) \ Stale(former_clients))'
<1> DEFINE heard == [former_clients EXCEPT ![c] = now]
<1>1. visited \subseteq Known(heard)
  <2>1. CASE Stale(heard) = {}
    BY <2>1, Zenon DEF Visits
  <2>2. CASE Stale(heard) # {}
    <3> DEFINE before == {d \in Known(heard) : \A s \in Stale(heard) : d < s}
               first == {s \in Stale(heard) : \A t \in Stale(heard) : s <= t}
    <3>1. PICK S \in SUBSET Known(heard) : visited = before \cup first \cup S
      BY <2>2, Zenon DEF Visits
    <3>2. before \subseteq Known(heard) /\ first \subseteq Known(heard)
      BY DEF Stale
    <3> HIDE DEF before, first
    <3> QED BY <3>1, <3>2
  <2> QED BY <2>1, <2>2
<1> HIDE DEF heard
<1> SUFFICES ASSUME NEW d \in visited \ Stale(heard)
             PROVE  d \in (Known(former_clients) \ Stale(former_clients))'
  BY DEF heard
<1>2. d \in Client /\ heard[d] # Never
  BY <1>1 DEF Known
<1>3. former_clients'[d] = heard[d]
  BY <1>2 DEF heard
<1>4. d \in Known(former_clients)'
  BY <1>2, <1>3 DEF Known
<1>5. ~(now - heard[d] > MaxSilence)
  BY <1>1 DEF Stale
<1>6. d \notin Stale(former_clients)'
  BY <1>3, <1>5 DEF Stale
<1> QED BY <1>4, <1>6

\* When nobody fell silent before, the loop erases nothing and visits all.
LEMMA AllAreOwed ==
    ASSUME RelayConstants, Heard, NEW c \in Client, Stale(former_clients) = {},
           NEW visited, visited \in Visits([former_clients EXCEPT ![c] = now]),
           former_clients' = [d \in Client |->
               IF d \in visited \cap Stale([former_clients EXCEPT ![c] = now])
               THEN Never ELSE [former_clients EXCEPT ![c] = now][d]],
           now' = now
    PROVE  visited \ Stale([former_clients EXCEPT ![c] = now]) =
             (Known(former_clients) \ Stale(former_clients))'
<1> DEFINE heard == [former_clients EXCEPT ![c] = now]
<1>1. \A d \in Client : heard[d] = IF d = c THEN now ELSE former_clients[d]
  BY DEF Heard
<1> HIDE DEF heard
<1>2. Stale(heard) = {}
  <2> SUFFICES ASSUME NEW d \in Stale(heard) PROVE FALSE
    OBVIOUS
  <2>1. d \in Client /\ heard[d] # Never /\ now - heard[d] > MaxSilence
    BY DEF Stale, Known
  <2>2. CASE d = c
    <3>1. heard[d] = now
      BY <1>1, <2>1, <2>2
    <3> QED BY <2>1, <3>1 DEF RelayConstants, Heard
  <2>3. CASE d # c
    <3>1. heard[d] = former_clients[d]
      BY <1>1, <2>1, <2>3
    <3>2. d \in Stale(former_clients)
      BY <2>1, <3>1 DEF Stale, Known
    <3> QED BY <3>2
  <2> QED BY <2>2, <2>3
<1>3. visited = Known(heard)
  BY <1>2, Zenon DEF Visits, heard
<1>4. \A d \in Client : former_clients'[d] = heard[d]
  BY <1>2, Zenon DEF heard
<1>5. Known(former_clients)' = Known(heard)
  BY <1>4 DEF Known
<1>6. Stale(former_clients)' = Stale(heard)
  <2>1. \A d \in Known(heard) : former_clients'[d] = heard[d]
    BY <1>4 DEF Known
  <2> QED BY <1>5, <2>1, Zenon DEF Stale
<1> QED BY <1>2, <1>3, <1>5, <1>6, Zenon DEF heard

\* A queued datagram is Fanout's Accept.
LEMMA HandleDataAccepts ==
    ASSUME RelayConstants, RelayInv, NEW c \in Client, HandleData(c)
    PROVE  RelayInv' /\ Promise!Accept
<1> DEFINE heard == [former_clients EXCEPT ![c] = now]
<1>1. PICK visited \in Visits(heard) :
        /\ former_clients' =
              [d \in Client |-> IF d \in visited \cap Stale(heard) THEN Never ELSE heard[d]]
        /\ buffer' = PushBack(buffer, [id |-> accepted', stack |-> visited \ Stale(heard)])
  BY DEF HandleData
<1>2. accepted' = accepted + 1 /\ now' = now /\ sent' = sent /\ accepted' \in Nat
  BY DEF HandleData, RelayInv
<1> DEFINE stack == visited \ Stale(heard)
           request == [id |-> accepted', stack |-> stack]
<1>3. stack \in SUBSET (Known(former_clients) \ Stale(former_clients))'
  BY <1>1, <1>2, PushedAreFresh
<1> HIDE DEF stack, heard
<1>4. stack \in SUBSET Client
  BY <1>3 DEF Known
<1>5. request \in Waiting
  BY <1>2, <1>4 DEF Waiting
<1>6. Ring(buffer)
  BY DEF RelayInv
<1>7. buffer' = PushBack(buffer, request)
  BY <1>1, Zenon DEF stack
<1>8. request.id = accepted' /\ request.stack = stack
  OBVIOUS
<1> HIDE DEF request
<1>9. /\ Ring(buffer')
      /\ Items(buffer') = Append(IF Len(Items(buffer)) = Capacity
                                 THEN Tail(Items(buffer)) ELSE Items(buffer), request)
  BY <1>5, <1>6, <1>7, PushKeeps
<1>10. RelayInv'
  <2>1. Heard
    BY DEF RelayInv
  <2>2. heard \in [Client -> Nat \cup {Never}]
    BY <2>1 DEF Heard, heard
  <2>3. Heard'
    BY <1>1, <1>2, <2>1, <2>2 DEF Heard
  <2> QED BY <1>2, <1>9, <2>3 DEF RelayInv
<1>11. Queue = Owed(Items(buffer)) /\ Queue' = Owed(Items(buffer'))
  <2>1. Queue' = Owed(Items(buffer'))
    BY <1>9, ItemsFound, Zenon DEF Queue, Owed
  <2> QED BY <1>6, <2>1, QueueOwed
<1>12. /\ Items(buffer) \in Seq(Waiting) /\ Len(Items(buffer)) \in 0 .. Capacity
       /\ Capacity \in Nat \ {0}
  BY <1>6, ItemsFound DEF RelayConstants
<1>13. Len(Queue) = Len(Items(buffer))
  BY <1>11, <1>12, OwedMoves
<1>14. Queue' = Append(IF Len(Queue) = Capacity THEN Tail(Queue) ELSE Queue,
                       [id |-> accepted', owed |-> stack])
  <2>1. CASE Len(Items(buffer)) = Capacity
    <3>1. Tail(Items(buffer)) \in Seq(Waiting) /\ Items(buffer) # <<>>
      BY <1>12, <2>1
    <3>2. Owed(Tail(Items(buffer))) = Tail(Owed(Items(buffer)))
      BY <1>12, <3>1, OwedTail
    <3>3. Owed(Append(Tail(Items(buffer)), request)) =
            Append(Owed(Tail(Items(buffer))), [id |-> request.id, owed |-> request.stack])
      BY <1>5, <3>1, OwedAppend
    <3> QED BY <1>8, <1>9, <1>11, <1>13, <2>1, <3>2, <3>3, Zenon
  <2>2. CASE Len(Items(buffer)) # Capacity
    <3>1. Owed(Append(Items(buffer), request)) =
            Append(Owed(Items(buffer)), [id |-> request.id, owed |-> request.stack])
      BY <1>5, <1>12, OwedAppend
    <3> QED BY <1>8, <1>9, <1>11, <1>13, <2>2, <3>1, Zenon
  <2> QED BY <2>1, <2>2
<1>15. Stale(former_clients) = {} => stack = (Known(former_clients) \ Stale(former_clients))'
  BY <1>1, <1>2, AllAreOwed DEF RelayInv, heard, stack
<1> QED BY <1>2, <1>3, <1>10, <1>14, <1>15, Zenon DEF Promise!Accept

\* A client served is Fanout's Deliver, a request removed its Finish.
LEMMA SendReplyServes ==
    ASSUME RelayConstants, RelayInv, SendReply
    PROVE  RelayInv' /\ (Promise!Deliver \/ Promise!Finish)
<1> DEFINE items == Items(buffer)
           request == Front(buffer)
<1>0. Heard'
  BY DEF SendReply, RelayInv, Heard
<1>1. Ring(buffer) /\ ~IsEmpty(buffer) /\ accepted' = accepted /\ accepted \in Nat
  BY DEF SendReply, RelayInv
<1>2. items \in Seq(Waiting) /\ Queue = Owed(items)
  BY <1>1, ItemsFound, QueueOwed
<1>3. request = items[1] /\ request \in Waiting /\ items # <<>> /\ Len(items) \in Nat \ {0}
  <2>1. [id |-> 0, stack |-> {}] \in Waiting
    BY DEF Waiting
  <2>2. Front(buffer) = items[1] /\ Front(buffer) \in Waiting /\ Len(items) >= 1
    BY <1>1, <2>1, ReplaceKeeps
  <2> HIDE DEF items
  <2> QED BY <1>2, <2>2
<1>4. /\ Queue # <<>> /\ Head(Queue) = Queue[1]
      /\ Queue[1] = [id |-> request.id, owed |-> request.stack]
  <2> HIDE DEF items, request
  <2>1. /\ Len(Queue) = Len(items) /\ Queue \in Seq([id : Nat, owed : SUBSET Client])
        /\ Queue[1] = [id |-> items[1].id, owed |-> items[1].stack]
    <3>1. 1 \in 1 .. Len(items)
      BY <1>3
    <3> QED BY <1>2, <3>1, OwedMoves, Zenon
  <2> QED BY <1>3, <2>1
<1>5. Head(Queue).id = request.id /\ Head(Queue).owed = request.stack
  BY <1>4
<1>6. CASE /\ request.stack = {}
           /\ buffer' = PopFront(buffer) /\ sent' = sent
  <2>1. Ring(buffer') /\ Items(buffer') = Tail(items)
    BY <1>1, <1>6, PopKeeps
  <2>2. Queue' = Owed(Items(buffer'))
    BY <2>1, ItemsFound, Zenon DEF Queue, Owed
  <2> HIDE DEF items, request
  <2>3. Queue' = Tail(Queue)
    BY <1>2, <1>3, <2>1, <2>2, OwedTail
  <2>4. RelayInv'
    BY <1>0, <1>1, <2>1 DEF RelayInv
  <2> QED BY <1>1, <1>4, <1>5, <1>6, <2>3, <2>4, Zenon DEF Promise!Finish
<1>7. ASSUME NEW top \in request.stack,
             sent' = Append(sent, [id |-> request.id, to |-> top]),
             buffer' = ReplaceFront(buffer, [request EXCEPT !.stack = @ \ {top}])
      PROVE  RelayInv' /\ Promise!Deliver
  <2> DEFINE served == [request EXCEPT !.stack = @ \ {top}]
  <2>1. served \in Waiting
    BY <1>3, Served, Zenon
  <2> HIDE DEF request
  <2>2. Ring(buffer') /\ Items(buffer') = [items EXCEPT ![1] = served]
    <3> HIDE DEF served
    <3>1. buffer' = ReplaceFront(buffer, served)
      BY <1>7 DEF served
    <3> QED BY <1>1, <2>1, <3>1, ReplaceKeeps
  <2>3. Queue' = Owed(Items(buffer'))
    BY <2>2, ItemsFound, Zenon DEF Queue, Owed
  <2> HIDE DEF items
  <2>4. Queue' = [Queue EXCEPT ![1].owed = @ \ {top}]
    <3>1. Owed([items EXCEPT ![1] = [items[1] EXCEPT !.stack = @ \ {top}]]) =
            [Owed(items) EXCEPT ![1].owed = @ \ {top}]
      BY <1>2, <1>3, OwedServe
    <3> QED BY <1>2, <1>3, <2>2, <2>3, <3>1, Zenon
  <2>5. RelayInv'
    BY <1>0, <1>1, <2>2 DEF RelayInv
  <2>6. sent' = Append(sent, [id |-> Head(Queue).id, to |-> top]) /\ top \in Head(Queue).owed
    BY <1>5, <1>7, Zenon
  <2> QED BY <1>1, <1>4, <2>4, <2>5, <2>6, Zenon DEF Promise!Deliver
<1> QED BY <1>6, <1>7 DEF SendReply

LEMMA RelayInvRests ==
    ASSUME RelayInv, Heard', UNCHANGED <<buffer, accepted>>
    PROVE  RelayInv' /\ Queue' = Queue
<1>1. Queue' = Queue
  BY Zenon DEF Queue
<1>2. RelayInv'
  BY Zenon DEF RelayInv
<1> QED BY <1>1, <1>2

LEMMA RelayStep ==
    ASSUME RelayConstants, RelayInv, [Next]_relayVars
    PROVE  RelayInv' /\ [Promise!Next]_<<accepted, Queue, sent>>
<1>0. Heard
  BY DEF RelayInv
<1>1. CASE Tick
  <2>1. Heard'
    BY <1>0, <1>1 DEF Tick, Heard
  <2> QED BY <1>1, <2>1, RelayInvRests DEF Tick
<1>2. CASE SendReply
  BY <1>2, SendReplyServes, Zenon DEF Promise!Next
<1>3. CASE \E c \in Client : HandleData(c)
  BY <1>3, HandleDataAccepts, Zenon DEF Promise!Next
<1>4. CASE \E c \in Client : CrashInRefresh(c)
  <2>1. Heard'
    BY <1>0, <1>4 DEF CrashInRefresh, Heard
  <2> QED BY <1>4, <2>1, RelayInvRests DEF CrashInRefresh
<1>5. CASE \E c \in Client : HandleBadDatagram(c)
  <2>1. Heard'
    BY <1>0, <1>5 DEF HandleBadDatagram, Heard
  <2> QED BY <1>5, <2>1, RelayInvRests DEF HandleBadDatagram
<1>6. CASE UNCHANGED relayVars
  <2>1. Heard'
    BY <1>0, <1>6 DEF relayVars, Heard
  <2> QED BY <1>6, <2>1, RelayInvRests DEF relayVars
<1> QED BY <1>1, <1>2, <1>3, <1>4, <1>5, <1>6 DEF Next

\* The ring of requests stays a ring: the members of circular_buffer agree, and what they
\* call elements are requests.
THEOREM RelayInvariant == ASSUME RelayConstants PROVE Spec => []RelayInv
<1>1. Init => RelayInv
  BY InitRing
<1>2. RelayInv /\ [Next]_relayVars => RelayInv'
  BY RelayStep
<1> QED BY <1>1, <1>2, PTL DEF Spec

\* The relay implements Fanout for any number of clients and any buffer of at least two
\* requests: a request is only ever removed as the oldest, finished or for want of room,
\* its recipients are fixed and fresh when it is queued, all who are fresh if nobody fell
\* silent before, and each is served once.
THEOREM RelayKeepsPromise == ASSUME RelayConstants PROVE Spec => RelayPromise
<1>1. Init => Promise!Init
  <2>1. Init => Queue = <<>>
    <3> SUFFICES ASSUME Init PROVE Queue = <<>>
      OBVIOUS
    <3>1. Ring(buffer) /\ Items(buffer) = <<>>
      BY InitRing DEF RelayInv
    <3>2. Queue = Owed(<<>>)
      BY <3>1, QueueOwed
    <3>3. <<>> \in Seq(Waiting)
      OBVIOUS
    <3>4. Owed(<<>>) \in Seq([id : Nat, owed : SUBSET Client]) /\ Len(Owed(<<>>)) = 0
      BY <3>3, OwedMoves
    <3> QED BY <3>2, <3>4
  <2> QED BY <2>1 DEF Init, Promise!Init
<1>2. RelayInv /\ [Next]_relayVars => [Promise!Next]_<<accepted, Queue, sent>>
  BY RelayStep
<1> QED BY <1>1, <1>2, RelayInvariant, PTL DEF Spec, RelayPromise, Promise!Spec
=============================================================================
