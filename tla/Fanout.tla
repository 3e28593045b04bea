------------------------------- MODULE Fanout -------------------------------
(***************************************************************************)
(* What the relay promises: an accepted message is owed to clients that    *)
(* are not silent, to all of them if nobody fell silent before; each gets  *)
(* it once, messages are finished one after another, and the oldest is     *)
(* given up only when Capacity wait.                                       *)
(***************************************************************************)
EXTENDS Integers, Sequences

CONSTANTS Client, Capacity

VARIABLES
    fresh,      \* clients that were heard lately
    silent,     \* clients that were not, and are still remembered
    accepted,   \* messages so far
    queue,      \* the waiting messages and the clients each is still owed to
    sent        \* who got which message, in order

Accept ==
    /\ accepted' = accepted + 1
    /\ \E owed \in SUBSET fresh' :
          /\ silent = {} => owed = fresh'
          /\ queue' = Append(IF Len(queue) = Capacity THEN Tail(queue) ELSE queue,
                             [id |-> accepted', owed |-> owed])
    /\ UNCHANGED sent

Deliver ==
    /\ queue # <<>>
    /\ \E c \in Head(queue).owed :
          /\ queue' = [queue EXCEPT ![1].owed = @ \ {c}]
          /\ sent' = Append(sent, [id |-> Head(queue).id, to |-> c])
    /\ UNCHANGED accepted

Finish ==
    /\ queue # <<>> /\ Head(queue).owed = {}
    /\ queue' = Tail(queue)
    /\ UNCHANGED <<accepted, sent>>

Init == accepted = 0 /\ queue = <<>> /\ sent = <<>>
Next == Accept \/ Deliver \/ Finish
Spec == Init /\ [][Next]_<<accepted, queue, sent>>
=============================================================================
