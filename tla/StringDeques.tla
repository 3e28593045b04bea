---------------------------- MODULE StringDeques ----------------------------
(***************************************************************************)
(* The deques of strings of JNP task 2: a library for C, with one store of *)
(* deques by their numbers, and a number whose deque is empty for good.    *)
(***************************************************************************)
EXTENDS Integers, SequencesExt, Functions

CONSTANTS
    Text,           \* the strings, as numbers in their order; the least is ""
    NULL, NO_TEXT,  \* a null pointer; no string, less than any
    CONST_QUEUE_ID,
    MaxLength       \* bound: strings in a deque

DequeConstants ==
    /\ NULL \notin Text /\ MaxLength \in Nat
    /\ CONST_QUEUE_ID \in Nat /\ NO_TEXT \in Int /\ \A t \in Text : t \in Int /\ NO_TEXT < t

VARIABLES
    deques, next_deque_id,
    inserts         \* by number: strings put in, less those removed, since it was empty

dequeVars == <<deques, next_deque_id, inserts>>

\* Fewer deques than a number has values: next_deque_id does not come round.
Id == 0 .. CONST_QUEUE_ID

Init == deques = << >> /\ next_deque_id = 0 /\ inserts = [id \in Id |-> 0]

strdeque_new ==
    /\ next_deque_id < CONST_QUEUE_ID
    /\ deques' = [id \in DOMAIN deques \cup {next_deque_id} |->
                     IF id = next_deque_id THEN << >> ELSE deques[id]]
    /\ next_deque_id' = next_deque_id + 1
    /\ UNCHANGED inserts

strdeque_delete(id) ==
    /\ deques' = IF id = CONST_QUEUE_ID THEN deques ELSE Restrict(deques, DOMAIN deques \ {id})
    /\ inserts' = [inserts EXCEPT ![id] = 0]
    /\ UNCHANGED next_deque_id

\* At a position behind the end a string is appended.
strdeque_insert_at(id, pos, value) ==
    LET Place == IF pos < Len(deques[id]) THEN pos ELSE Len(deques[id])
        taken == value # NULL /\ id # CONST_QUEUE_ID /\ id \in DOMAIN deques
    IN /\ taken => Len(deques[id]) < MaxLength
       /\ deques' = IF taken THEN [deques EXCEPT ![id] = InsertAt(@, Place + 1, value)] ELSE deques
       /\ inserts' = IF taken THEN [inserts EXCEPT ![id] = @ + 1] ELSE inserts
       /\ UNCHANGED next_deque_id

strdeque_remove_at(id, pos) ==
    LET there == id # CONST_QUEUE_ID /\ id \in DOMAIN deques /\ pos < Len(deques[id]) IN
    /\ deques' = IF there THEN [deques EXCEPT ![id] = RemoveAt(@, pos + 1)] ELSE deques
    /\ inserts' = IF there THEN [inserts EXCEPT ![id] = @ - 1] ELSE inserts
    /\ UNCHANGED next_deque_id

strdeque_clear(id) ==
    /\ deques' = IF id # CONST_QUEUE_ID /\ id \in DOMAIN deques
                 THEN [deques EXCEPT ![id] = << >>] ELSE deques
    /\ inserts' = [inserts EXCEPT ![id] = 0]
    /\ UNCHANGED next_deque_id

Next ==
    \/ strdeque_new
    \/ \E id \in Id : strdeque_delete(id) \/ strdeque_clear(id)
    \/ \E id \in Id, pos \in 0 .. MaxLength :
          strdeque_remove_at(id, pos) \/ \E t \in Text \cup {NULL} : strdeque_insert_at(id, pos, t)

Spec == Init /\ [][Next]_dequeVars
-----------------------------------------------------------------------------
\* What the caller sees, of a number that may name no deque.
empty_deque_if_not_present(id) == IF id \in DOMAIN deques THEN deques[id] ELSE << >>

strdeque_size(id) == IF id \in DOMAIN deques THEN Len(deques[id]) ELSE 0

strdeque_get_at(id, pos) ==
    IF id # CONST_QUEUE_ID /\ id \in DOMAIN deques /\ pos < Len(deques[id])
    THEN deques[id][pos + 1] ELSE NULL

\* operator< of two deques: at the first place where they differ, or the shorter.
Less(s, t) ==
    \E i \in 1 .. Min({Len(s) + 1, Len(t)}) :
       /\ SubSeq(s, 1, i - 1) = SubSeq(t, 1, i - 1)
       /\ i <= Len(s) => s[i] < t[i]

strdeque_comp(id1, id2) ==
    LET deque1 == empty_deque_if_not_present(id1)
        deque2 == empty_deque_if_not_present(id2)
    IN IF Less(deque1, deque2) THEN -1 ELSE IF Less(deque2, deque1) THEN 1 ELSE 0
-----------------------------------------------------------------------------
TypeOK ==
    /\ DOMAIN deques \subseteq Id /\ next_deque_id \in Id
    /\ \A id \in DOMAIN deques : deques[id] \in BoundedSeq(Text, MaxLength)

\* What can be read one by one is what comp compares: numbers are equal to it when every
\* position reads the same, otherwise the first that differs decides, the end before any
\* string.
Read(id, pos) == IF strdeque_get_at(id, pos) = NULL THEN NO_TEXT ELSE strdeque_get_at(id, pos)
ComparedAsRead ==
    \A a, b \in Id :
       LET differ == {p \in 0 .. MaxLength : Read(a, p) # Read(b, p)}
           first == CHOOSE p \in differ : \A q \in differ : p <= q
       IN strdeque_comp(a, b) = IF differ = {} THEN 0
                                ELSE IF Read(a, first) < Read(b, first) THEN -1 ELSE 1

\* A deque holds as many strings as were put in and not removed; one that was deleted, was
\* never made, or is the constant one is empty, and its number is not given out again.
SizesAgree ==
    \A id \in Id :
       /\ strdeque_size(id) = inserts[id]
       /\ strdeque_size(id) = Cardinality({pos \in 0 .. MaxLength : strdeque_get_at(id, pos) # NULL})
       /\ id >= next_deque_id => strdeque_size(id) = 0 /\ id \notin DOMAIN deques
=============================================================================
