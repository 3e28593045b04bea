-------------------------------- MODULE Board --------------------------------
(***************************************************************************)
(* MojaPlansza: a board shared by threads, a Java monitor.  Every piece is *)
(* driven by a thread of its own, which places it, moves it and takes it   *)
(* off.  A call runs under the monitor until it returns, throws or waits,  *)
(* so each of these stretches is one action.                               *)
(***************************************************************************)
EXTENDS Integers

CONSTANTS
    Piece,
    WidthOf,        \* of every piece
    HeightOf,       \* the height
    Width, Height,  \* of the board
    NoPiece,        \* null in field
    NoTask          \* no entry in a map of tasks

VARIABLES
    field,              \* the piece on every field
    characters,         \* where every placed piece has its corner
    waitingTasksMove,   \* the entry of every piece in the map of moves
    waiting,            \* the task every thread waits with, inside postaw or przesun
    notified            \* the waiting threads that were woken and want the monitor

vars == <<field, characters, waitingTasksMove, waiting, notified>>

BoardConstants ==
    /\ Width \in Nat \ {0} /\ Height \in Nat \ {0}
    /\ WidthOf \in [Piece -> Nat \ {0}] /\ HeightOf \in [Piece -> Nat \ {0}]
    /\ NoPiece \notin Piece

Field == (0 .. Width - 1) \X (0 .. Height - 1)
Nowhere == <<-1, -1>>
Direction == {"GORA", "DOL", "LEWO", "PRAWO"}

Rectangle(x, y, w, h) == (x .. x + w - 1) \X (y .. y + h - 1)
Area(p, at) == Rectangle(at[1], at[2], WidthOf[p], HeightOf[p])

TaskInsert(p, at) == [to |-> at, new |-> Area(p, at), old |-> {}, move |-> FALSE]

\* The strip a move enters, the one it leaves and the corner after it.
TaskMove(p, direction) ==
    LET x == characters[p][1]
        y == characters[p][2]
        w == WidthOf[p]
        h == HeightOf[p]
        Move(to, new, old) == [to |-> to, new |-> new, old |-> old, move |-> TRUE]
    IN [GORA  |-> Move(<<x, y - 1>>, Rectangle(x, y - 1, w, 1), Rectangle(x, y + h - 1, w, 1)),
        DOL   |-> Move(<<x, y + 1>>, Rectangle(x, y + h, w, 1), Rectangle(x, y, w, 1)),
        LEWO  |-> Move(<<x - 1, y>>, Rectangle(x - 1, y, 1, h), Rectangle(x + w - 1, y, 1, h)),
        PRAWO |-> Move(<<x + 1, y>>, Rectangle(x + w, y, 1, h), Rectangle(x, y, 1, h))][direction]

IsValidMove(p, direction) ==
    [GORA  |-> characters[p][2] > 0,
     DOL   |-> characters[p][2] + HeightOf[p] <= Height - 1,
     LEWO  |-> characters[p][1] > 0,
     PRAWO |-> characters[p][1] + WidthOf[p] <= Width - 1][direction]

IsPossible(task) == \A f \in task.new : field[f] = NoPiece

Perform(p, task) ==
    /\ field' = [f \in Field |-> IF f \in task.old THEN NoPiece
                                 ELSE IF f \in task.new THEN p ELSE field[f]]
    /\ characters' = [characters EXCEPT ![p] = task.to]

\* Some piece of S is in the way of the task.
IsBlockedBy(task, S) == \E f \in task.new : field[f] \in S

\* The graph has an edge from every piece with an entry to every piece in its way.
\* It has a cycle exactly when some of its nodes lead back among themselves.
DeadlockDetected(tasks) ==
    \E S \in (SUBSET Piece) \ {{}} :
        \A p \in S : tasks[p] # NoTask /\ IsBlockedBy(tasks[p], S)

\* mutant: notify() instead of notifyAll()
NotifyOne(p) ==
    LET asleep == {q \in Piece \ (notified \cup {p}) : waiting[q] # NoTask}
    IN IF asleep = {} THEN notified' = notified \ {p}
       ELSE \E q \in asleep : notified' = (notified \ {p}) \cup {q}

NotifyAll(p) == notified' = {q \in Piece \ {p} : waiting[q] # NoTask}

StopWaiting(p) == waiting' = [waiting EXCEPT ![p] = NoTask]
-----------------------------------------------------------------------------
Init ==
    /\ field = [f \in Field |-> NoPiece]
    /\ characters = [p \in Piece |-> Nowhere]
    /\ waitingTasksMove = [p \in Piece |-> NoTask]
    /\ waiting = [p \in Piece |-> NoTask]
    /\ notified = {}

IsRunning(p) == waiting[p] = NoTask

\* The loop around performIfPossible(), entered or taken up after wait(): the move
\* is made, its entry removed and everybody woken, or the thread waits (again).  A
\* placed piece wakes nobody.
TryOrWait(p, task, tasks) ==
    \/ /\ IsPossible(task)
       /\ Perform(p, task)
       /\ StopWaiting(p)
       /\ IF task.move
          THEN NotifyAll(p) /\ waitingTasksMove' = [tasks EXCEPT ![p] = NoTask]
          ELSE notified' = notified \ {p} /\ waitingTasksMove' = tasks
    \/ /\ ~IsPossible(task)
       /\ waiting' = [waiting EXCEPT ![p] = task]
       /\ notified' = notified \ {p}
       /\ waitingTasksMove' = tasks
       /\ UNCHANGED <<field, characters>>

Postaw(p, at) ==
    /\ IsRunning(p)
    /\ characters[p] = Nowhere
    /\ 0 <= at[1] /\ at[1] + WidthOf[p] <= Width
    /\ 0 <= Height /\ at[2] + HeightOf[p] <= Height
    /\ TryOrWait(p, TaskInsert(p, at), waitingTasksMove)

\* mutant: the entry is written after the check
EntryAfterCheck(p, direction) ==
    /\ IsRunning(p) /\ characters[p] # Nowhere /\ IsValidMove(p, direction)
    /\ ~DeadlockDetected(waitingTasksMove)
    /\ LET task == TaskMove(p, direction)
       IN TryOrWait(p, task, [waitingTasksMove EXCEPT ![p] = task])

\* przesun, when it does not throw: the entry is written before the check.
Przesun(p, direction) ==
    LET task == TaskMove(p, direction)
        tasks == [waitingTasksMove EXCEPT ![p] = task]
    IN /\ IsRunning(p)
       /\ characters[p] # Nowhere
       /\ IsValidMove(p, direction)
       /\ ~DeadlockDetected(tasks)
       /\ TryOrWait(p, task, tasks)

\* przesun throws DeadlockException: the entry of p is gone, an older one too.
RefuseMove(p, direction) ==
    /\ IsRunning(p)
    /\ characters[p] # Nowhere
    /\ IsValidMove(p, direction)
    /\ DeadlockDetected([waitingTasksMove EXCEPT ![p] = TaskMove(p, direction)])
    /\ waitingTasksMove' = [waitingTasksMove EXCEPT ![p] = NoTask]
    /\ UNCHANGED <<field, characters, waiting, notified>>

\* mutant: an if around wait() instead of a loop
ResumeUnchecked(p) ==
    /\ p \in notified /\ Perform(p, waiting[p])
    /\ StopWaiting(p) /\ NotifyAll(p)
    /\ waitingTasksMove' = [waitingTasksMove EXCEPT ![p] = NoTask]

\* A woken thread has the monitor again, inside wait().
Resume(p) ==
    /\ p \in notified
    /\ TryOrWait(p, waiting[p], waitingTasksMove)

\* The thread is interrupted in wait(): the exception leaves the entry where it is.
Interrupt(p) ==
    /\ ~IsRunning(p)
    /\ StopWaiting(p)
    /\ notified' = notified \ {p}
    /\ UNCHANGED <<field, characters, waitingTasksMove>>

Usun(p) ==
    /\ IsRunning(p)
    /\ characters[p] # Nowhere
    /\ field' = [f \in Field |-> IF f \in Area(p, characters[p]) THEN NoPiece ELSE field[f]]
    /\ characters' = [characters EXCEPT ![p] = Nowhere]
    /\ waitingTasksMove' = [waitingTasksMove EXCEPT ![p] = NoTask]
    /\ NotifyAll(p)
    /\ UNCHANGED waiting

Next ==
    \E p \in Piece :
        \/ \E at \in Field : Postaw(p, at)
        \/ \E d \in Direction : Przesun(p, d) \/ RefuseMove(p, d)
        \/ Resume(p)
        \/ Interrupt(p)
        \/ Usun(p)

Spec == Init /\ [][Next]_vars
-----------------------------------------------------------------------------
Task == [to : Field, new : SUBSET Field, old : SUBSET Field, move : BOOLEAN]

TypeOK ==
    /\ field \in [Field -> Piece \cup {NoPiece}]
    /\ characters \in [Piece -> Field \cup {Nowhere}]
    /\ waitingTasksMove \in [Piece -> Task \cup {NoTask}]
    /\ waiting \in [Piece -> Task \cup {NoTask}]
    /\ notified \in SUBSET Piece

\* The two pictures of the board agree: a field holds a piece exactly when the
\* piece stands there according to characters, so that no two pieces overlap and
\* no piece leaves a trace, although a task was computed before the thread waited.
FieldMirrorsCharacters ==
    \A f \in Field, p \in Piece :
        field[f] = p <=> characters[p] # Nowhere /\ f \in Area(p, characters[p])

\* No thread sleeps through its chance: whoever waits and has not been woken cannot
\* perform its task, although placing a piece and a refused move wake nobody.
NoLostWakeup ==
    \A p \in Piece : ~IsRunning(p) /\ p \notin notified => ~IsPossible(waiting[p])

\* The threads that wait to move never wait for each other in a circle: the check
\* in przesun sees every entry and is made only once, before the thread waits.
NoCircularWait ==
    ~ \E S \in (SUBSET Piece) \ {{}} :
        \A p \in S : /\ waiting[p] # NoTask
                     /\ waiting[p].move
                     /\ IsBlockedBy(waiting[p], S)
=============================================================================
