----------------------------- MODULE Dictionary -----------------------------
(***************************************************************************)
(* What map.h promises: a partial function from keys to values in which a  *)
(* binding, once made, stays until its key is removed.                     *)
(***************************************************************************)
EXTENDS Functions

CONSTANTS Key, Value
VARIABLE contents

Init == contents = << >>

Insert(k, v) ==
    /\ k \notin DOMAIN contents
    /\ contents' = [i \in DOMAIN contents \cup {k} |-> IF i = k THEN v ELSE contents[i]]

Remove(k) ==
    /\ k \in DOMAIN contents
    /\ contents' = Restrict(contents, DOMAIN contents \ {k})

Next == \E k \in Key : Remove(k) \/ \E v \in Value : Insert(k, v)

Spec == Init /\ [][Next]_contents
=============================================================================
