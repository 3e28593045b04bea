----------------------------- MODULE RingBuffer -----------------------------
(***************************************************************************)
(* circular.h: a buffer in an array that throws its oldest element away    *)
(* when one more is pushed.  A buffer is a record of the class's members.  *)
(***************************************************************************)
EXTENDS Integers, Sequences

CONSTANT Destroyed      \* an element of the array that is not constructed

\* circular_buffer(capacity): head_ starts one after tail_, in or behind the array.
EmptyBuffer(capacity) ==
    [array |-> [i \in 0 .. capacity - 1 |-> Destroyed],
     array_size |-> capacity, head |-> 1, tail |-> 0, contents_size |-> 0]

IsEmpty(b) == b.contents_size = 0
Front(b) == b.array[b.head]

NextTail(b) == IF b.tail + 1 = b.array_size THEN 0 ELSE b.tail + 1

IncrementTail(b) == [b EXCEPT !.contents_size = @ + 1, !.tail = NextTail(b)]

IncrementHead(b) ==
    [b EXCEPT !.head = IF @ + 1 = b.array_size THEN 0 ELSE @ + 1, !.contents_size = @ - 1]

\* mutant: the head stays on a full buffer
PushBackOver(b, item) == IncrementTail([b EXCEPT !.array[NextTail(b)] = item])

PushBack(b, item) ==
    LET stored == [b EXCEPT !.array[NextTail(b)] = item]
    IN IncrementTail(IF b.contents_size = b.array_size THEN IncrementHead(stored) ELSE stored)

PopFront(b) == [IncrementHead(b) EXCEPT !.array[b.head] = Destroyed]

ReplaceFront(b, item) == [b EXCEPT !.array[b.head] = item]

\* begin() .. end(): the elements by operator[].
Items(b) == [i \in 1 .. b.contents_size |-> b.array[(i - 1 + b.head) % b.array_size]]
=============================================================================
