------------------------------- MODULE GuiFeed -------------------------------
(***************************************************************************)
(* What the client promises to the GUI: the commands of a game arrive in   *)
(* the order of its events, starting with NEW_GAME, with no gap and no     *)
(* duplicate, until the NEW_GAME of some game begins a new picture         *)
(* (zadanie_2.txt, part B).  `screen` is the last command sent.            *)
(***************************************************************************)
EXTENDS Naturals

CONSTANT NoGame     \* the picture before the first command
VARIABLE screen     \* [game, no] of the last command the GUI was sent

Init == screen = [game |-> NoGame, no |-> 0]

ShowNewGame ==
    /\ screen'.game # NoGame
    /\ screen' = [game |-> screen'.game, no |-> 0]

ShowNext ==
    /\ screen.game # NoGame
    /\ screen' = [screen EXCEPT !.no = @ + 1]

Next == ShowNewGame \/ ShowNext

Spec == Init /\ [][Next]_screen
=============================================================================
