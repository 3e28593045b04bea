----------------------------- MODULE MCProcesses -----------------------------
(***************************************************************************)
(* Four programs whose threads or processes share memory, a monitor or     *)
(* pipes, a page whose requests are answered in any order, and the loop    *)
(* that cuts the game server's log into datagrams.  They share nothing     *)
(* with each other: `part` names the one that runs, the others stay in an  *)
(* initial state.                                                          *)
(***************************************************************************)
EXTENDS Board, Semaphore, EventPacking, Sequences, FiniteSets

CONSTANTS p1, p2, p3, None, rose, fern

VARIABLES part,
    system, phase, accepted, unwritten, inits, answers, out, in, local, copying,
    edges, threads, BC, owner,
    points, selection, fetches, shown, chart, asked, alarms, posts, lists, listed, disturbed

boardVars == vars
circuitVars == <<system, phase, accepted, unwritten, inits, answers, out, in, local, copying>>
bcVars == <<edges, threads, BC, owner>>
pageVars == <<points, selection, fetches, shown, chart, asked, alarms, posts, lists, listed,
              disturbed>>

\* Three pieces on a board of 2 x 2: the first is as wide as the board, so it can only
\* move down and up, past or against the other two.
MCWidthOf == [p \in {p1, p2, p3} |-> IF p = p1 THEN 2 ELSE 1]
MCHeightOf == [p \in {p1, p2, p3} |-> 1]

Op(kind, l, r) == [kind |-> kind, index |-> None, value |-> None, left |-> l, right |-> r]
Num(v) == [kind |-> "num", index |-> None, value |-> v, left |-> None, right |-> None]
Var(i) == [kind |-> "var", index |-> i, value |-> None, left |-> None, right |-> None]
Eq(v, root) == [left |-> v, root |-> root]

\* x0 = x1 + x1, x1 = -(x2): two readers of one variable, and one without an equation.
Shared == [equations |-> <<Eq(0, 1), Eq(1, 4)>>,
           node |-> <<Op("add", 2, 3), Var(1), Var(1), Op("neg", 5, None), Var(2)>>]
\* x1 = 2, x0 = x1 * x2: a constant that runs rounds ahead.
Constant == [equations |-> <<Eq(1, 1), Eq(0, 2)>>,
             node |-> <<Num(2), Op("mul", 3, 4), Var(1), Var(2)>>]
Cyclic == [equations |-> <<Eq(0, 1), Eq(1, 2), Eq(2, 3)>>, node |-> <<Var(1), Var(2), Var(1)>>]
\* No equation for x0.
Unanswered == [equations |-> <<Eq(1, 1)>>, node |-> <<Var(0)>>]
Repeated == [equations |-> <<Eq(0, 1), Eq(0, 2)>>, node |-> <<Num(1), Var(1)>>]
MCSystems == {Shared, Constant, Cyclic, Unanswered, Repeated}

Circuit == INSTANCE Circuit WITH
    Systems <- MCSystems, Rounds <- 2, Variable <- 0 .. 2, Value <- {1}

\* A diamond with two shortest paths, and a triangle with a repeated edge.
Diamond == <<<<1, 2>>, <<1, 3>>, <<2, 4>>, <<3, 4>>>>
Triangle == <<<<1, 2>>, <<2, 3>>, <<2, 3>>, <<3, 1>>>>

Betweenness == INSTANCE Betweenness WITH
    Inputs <- {Diamond, Triangle}, MaxThreads <- 3, Scale <- 4

\* Two flowers to select, and series of the first that outlive the selection.
Pulse == INSTANCE FlowerPulse WITH
    Flower <- {rose, fern}, Kind <- {"moisture"}, NONE <- None,
    MaxPoints <- 1, MaxFetches <- 3, MaxAlarms <- 2

ASSUME BoardConstants /\ SemaphoreConstants /\ PackingConstants

ProcessesInit ==
    /\ part \in {"board", "semaphore", "circuit", "betweenness", "page", "packing"}
    /\ Init /\ SemInit /\ Circuit!Init /\ Betweenness!Init /\ Pulse!Init /\ PackInit
    /\ part # "circuit" => system = Unanswered
    /\ part # "betweenness" => edges = Diamond /\ Len(threads) = 1
    /\ part # "packing" => events = <<>> /\ first_event = 0

BoardStep ==
    part = "board" /\ Next
    /\ UNCHANGED <<part, semVars, circuitVars, bcVars, pageVars, packVars>>
SemaphoreStep ==
    part = "semaphore" /\ SemNext
    /\ UNCHANGED <<part, boardVars, circuitVars, bcVars, pageVars, packVars>>
CircuitStep ==
    part = "circuit" /\ Circuit!Next
    /\ UNCHANGED <<part, boardVars, semVars, bcVars, pageVars, packVars>>
BetweennessStep ==
    part = "betweenness" /\ Betweenness!Next
    /\ UNCHANGED <<part, boardVars, semVars, circuitVars, pageVars, packVars>>
PageStep ==
    part = "page" /\ Pulse!Next
    /\ UNCHANGED <<part, boardVars, semVars, circuitVars, bcVars, packVars>>
PackingStep ==
    part = "packing" /\ PackNext
    /\ UNCHANGED <<part, boardVars, semVars, circuitVars, bcVars, pageVars>>

ProcessesNext ==
    BoardStep \/ SemaphoreStep \/ CircuitStep \/ BetweennessStep \/ PageStep \/ PackingStep

\* Processes of the circuit and the scheduler of the system run on while they can, and the
\* loop of send_message runs to its end.  The page asks for nothing of its own accord before
\* it runs, so its fairness is idle then.
ProcessesSpec ==
    /\ ProcessesInit
    /\ [][ProcessesNext]_<<part, boardVars, semVars, circuitVars, bcVars, pageVars, packVars>>
    /\ WF_<<part, circuitVars>>(CircuitStep)
    /\ WF_packVars(PackingStep)
    /\ Pulse!Fairness
-----------------------------------------------------------------------------
\* The type invariants of the six modules.
TypesOK ==
    /\ TypeOK /\ SemTypeOK /\ Circuit!TypeOK /\ Betweenness!TypeOK /\ Pulse!TypeOK
    /\ PackTypeOK

\* Every round of the circuit gets the answer its equations give, and it all ends.
EveryRoundAnsweredRight == part = "circuit" => Circuit!EveryRoundAnsweredRight
\* The threads of PW task 2 add up to Freeman's centrality.
CentralityIsComplete == Betweenness!CentralityIsComplete
\* App.js ends up with the data of the flower that stays selected, draws them if it has
\* drawn no other flower since the selection was last empty, and lists the alarms it sent.
PageSettles == Pulse!SelectionPrevails /\ []Pulse!AlarmsListed
=============================================================================
