-------------------------- MODULE MCSiktackaServer --------------------------
(***************************************************************************)
(* Instances of SiktackaServer for TLC.                                    *)
(***************************************************************************)
EXTENDS SiktackaServer

\* One session per socket.
OwnSocket == [c \in Session |-> c]

\* Sessions 1 and 3 are played from the same socket, 2 from another.
SharedSocket == [c \in Session |-> c % 2]

\* The names are not in the order of the session ids; session 2 observes, 4 wants
\* the name of 1.
SomeNames    == <<2, NoName, 1, 2>>
ThreePlayers == <<2, 1, 3>>

\* A client that was restarted keeps its name.
NameOfSocket == [c \in Session |-> IF SharedSocket[c] = 1 THEN 1 ELSE 2]

\* Stay on the field, go right, go down, go up and left.
SomeSteps == {<<0, 0>>, <<1, 0>>, <<0, 1>>, <<-1, -1>>}

\* With the default turning speed no snake spends three turns on one field, so the
\* turns in which it stays can be left out where only the end of games matters.
MovingSteps == {<<1, 0>>, <<0, 1>>, <<-1, 0>>, <<0, -1>>}
=============================================================================
