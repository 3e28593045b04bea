---------------------------- MODULE Board_proofs ----------------------------
(***************************************************************************)
(* Proofs about Board, for every set and size of pieces and every board,   *)
(* and about Semaphore, for every set of threads.                          *)
(***************************************************************************)
EXTENDS Board, Semaphore, TLAPS

IsInside(p, at) == at[1] + WidthOf[p] <= Width /\ at[2] + HeightOf[p] <= Height

\* A task made before its thread waited is still the right one for its piece.
TaskFits(p) ==
    waiting[p] # NoTask =>
        \/ /\ waiting[p].move
           /\ characters[p] # Nowhere
           /\ \E d \in Direction : IsValidMove(p, d) /\ waiting[p] = TaskMove(p, d)
        \/ /\ ~waiting[p].move
           /\ characters[p] = Nowhere
           /\ \E at \in Field : IsInside(p, at) /\ waiting[p] = TaskInsert(p, at)

\* What a task promises when its piece is where it was.
TaskIsSound(p, task) ==
    /\ task.to \in Field /\ task.new \subseteq Field
    /\ IsInside(p, task.to)
    /\ \A f \in Field : /\ ~(f \in task.old /\ f \in task.new)
                        /\ f \in Area(p, task.to) <=>
                              \/ f \in task.new
                              \/ /\ characters[p] # Nowhere
                                 /\ f \in Area(p, characters[p])
                                 /\ f \notin task.old
                        /\ f \in task.old => /\ characters[p] # Nowhere
                                             /\ f \in Area(p, characters[p])

State ==
    /\ field \in [Field -> Piece \cup {NoPiece}]
    /\ characters \in [Piece -> Field \cup {Nowhere}]
    /\ waiting = [q \in Piece |-> waiting[q]]
    /\ \A p \in Piece : characters[p] # Nowhere => IsInside(p, characters[p])

BoardInv ==
    /\ State
    /\ FieldMirrorsCharacters
    /\ \A p \in Piece : TaskFits(p)

LEMMA NowhereIsOutside == Nowhere \notin Field
BY DEF Nowhere, Field

\* The strips of a move are right for a piece inside the board.
LEMMA MoveIsSound ==
    ASSUME BoardConstants, State, NEW p \in Piece, NEW d \in Direction,
           characters[p] # Nowhere, IsValidMove(p, d)
    PROVE  TaskIsSound(p, TaskMove(p, d))
<1> DEFINE c == characters[p]
           t == TaskMove(p, d)
<1>1. /\ c \in Field /\ c = <<c[1], c[2]>> /\ c[1] \in 0 .. Width - 1 /\ c[2] \in 0 .. Height - 1
      /\ c[1] + WidthOf[p] <= Width /\ c[2] + HeightOf[p] <= Height
      /\ WidthOf[p] \in Nat \ {0} /\ HeightOf[p] \in Nat \ {0}
      /\ Width \in Nat /\ Height \in Nat
  BY DEF State, Field, IsInside, BoardConstants
<1>2. \A f \in Field : f = <<f[1], f[2]>> /\ f[1] \in Int /\ f[2] \in Int
  BY <1>1 DEF Field
<1>3. CASE d = "GORA"
  <2>1. t = [to |-> <<c[1], c[2] - 1>>, new |-> Rectangle(c[1], c[2] - 1, WidthOf[p], 1),
             old |-> Rectangle(c[1], c[2] + HeightOf[p] - 1, WidthOf[p], 1), move |-> TRUE]
    BY <1>3 DEF TaskMove
  <2>2. c[2] > 0
    BY <1>3 DEF IsValidMove
  <2> QED BY <1>1, <1>2, <2>1, <2>2 DEF TaskIsSound, IsInside, Area, Rectangle, Field
<1>4. CASE d = "DOL"
  <2>1. t = [to |-> <<c[1], c[2] + 1>>,
             new |-> Rectangle(c[1], c[2] + HeightOf[p], WidthOf[p], 1),
             old |-> Rectangle(c[1], c[2], WidthOf[p], 1), move |-> TRUE]
    BY <1>4 DEF TaskMove
  <2>2. c[2] + HeightOf[p] <= Height - 1
    BY <1>4 DEF IsValidMove
  <2> QED BY <1>1, <1>2, <2>1, <2>2 DEF TaskIsSound, IsInside, Area, Rectangle, Field
<1>5. CASE d = "LEWO"
  <2>1. t = [to |-> <<c[1] - 1, c[2]>>, new |-> Rectangle(c[1] - 1, c[2], 1, HeightOf[p]),
             old |-> Rectangle(c[1] + WidthOf[p] - 1, c[2], 1, HeightOf[p]), move |-> TRUE]
    BY <1>5 DEF TaskMove
  <2>2. c[1] > 0
    BY <1>5 DEF IsValidMove
  <2> QED BY <1>1, <1>2, <2>1, <2>2 DEF TaskIsSound, IsInside, Area, Rectangle, Field
<1>6. CASE d = "PRAWO"
  <2>1. t = [to |-> <<c[1] + 1, c[2]>>,
             new |-> Rectangle(c[1] + WidthOf[p], c[2], 1, HeightOf[p]),
             old |-> Rectangle(c[1], c[2], 1, HeightOf[p]), move |-> TRUE]
    BY <1>6 DEF TaskMove
  <2>2. c[1] + WidthOf[p] <= Width - 1
    BY <1>6 DEF IsValidMove
  <2> QED BY <1>1, <1>2, <2>1, <2>2 DEF TaskIsSound, IsInside, Area, Rectangle, Field
<1> QED BY <1>3, <1>4, <1>5, <1>6 DEF Direction

LEMMA InsertIsSound ==
    ASSUME BoardConstants, State, NEW p \in Piece, NEW at \in Field,
           characters[p] = Nowhere, IsInside(p, at)
    PROVE  TaskIsSound(p, TaskInsert(p, at))
BY DEF TaskIsSound, TaskInsert, BoardConstants, IsInside, Area, Rectangle, Field

\* Performing a sound task keeps the two pictures of the board equal.
LEMMA PerformKeepsInv ==
    ASSUME BoardConstants, BoardInv, NEW p \in Piece, NEW task, TaskIsSound(p, task),
           IsPossible(task), Perform(p, task), waiting' = [waiting EXCEPT ![p] = NoTask]
    PROVE  BoardInv'
<1>1. State'
  <2>1. field' \in [Field -> Piece \cup {NoPiece}]
    BY DEF Perform, BoardInv, State
  <2>2. characters' \in [Piece -> Field \cup {Nowhere}]
    BY DEF Perform, BoardInv, State, TaskIsSound
  <2>3. waiting' = [q \in Piece |-> waiting'[q]]
    BY DEF BoardInv, State
  <2>4. \A q \in Piece : characters'[q] # Nowhere => IsInside(q, characters'[q])
    BY DEF Perform, BoardInv, State, TaskIsSound, IsInside
  <2> QED BY <2>1, <2>2, <2>3, <2>4 DEF State, IsInside
<1>2. FieldMirrorsCharacters'
  <2> SUFFICES ASSUME NEW f \in Field, NEW q \in Piece
               PROVE  field'[f] = q <=> characters'[q] # Nowhere /\ f \in Area(q, characters'[q])
    BY DEF FieldMirrorsCharacters, Area
  <2>1. field'[f] = IF f \in task.old THEN NoPiece ELSE IF f \in task.new THEN p ELSE field[f]
    BY DEF Perform
  <2>2. characters'[q] = IF q = p THEN task.to ELSE characters[q]
    BY DEF Perform, BoardInv, State
  <2>3. task.to # Nowhere
    BY NowhereIsOutside DEF TaskIsSound
  <2>4. /\ ~(f \in task.old /\ f \in task.new)
        /\ f \in Area(p, task.to) <=>
             \/ f \in task.new
             \/ /\ characters[p] # Nowhere
                /\ f \in Area(p, characters[p])
                /\ f \notin task.old
        /\ f \in task.old => characters[p] # Nowhere /\ f \in Area(p, characters[p])
    BY DEF TaskIsSound
  <2>5. field[f] = q <=> characters[q] # Nowhere /\ f \in Area(q, characters[q])
    BY DEF BoardInv, FieldMirrorsCharacters
  <2>6. field[f] = p <=> characters[p] # Nowhere /\ f \in Area(p, characters[p])
    BY DEF BoardInv, FieldMirrorsCharacters
  <2>7. f \in task.new => field[f] = NoPiece
    BY DEF IsPossible
  <2>8. p # NoPiece /\ q # NoPiece
    BY DEF BoardConstants
  <2> QED BY <2>1, <2>2, <2>3, <2>4, <2>5, <2>6, <2>7, <2>8
<1>3. ASSUME NEW q \in Piece PROVE TaskFits(q)'
  <2>1. CASE q = p
    <3>1. waiting'[p] = NoTask
      BY DEF BoardInv, State
    <3> QED BY <2>1, <3>1 DEF TaskFits
  <2>2. CASE q # p
    <3>1. waiting'[q] = waiting[q] /\ characters'[q] = characters[q]
      BY <2>2 DEF BoardInv, State, Perform
    <3>2. TaskFits(q)
      BY DEF BoardInv
    <3> QED BY <3>1, <3>2, ZenonT(60) DEF TaskFits, IsValidMove, TaskMove, TaskInsert, IsInside
  <2> QED BY <2>1, <2>2
<1> QED BY <1>1, <1>2, <1>3 DEF BoardInv

\* A thread goes to sleep, in its call or again after being woken.
LEMMA WaitKeepsInv ==
    ASSUME BoardInv, NEW p \in Piece, NEW task,
           waiting' = [waiting EXCEPT ![p] = task],
           UNCHANGED <<field, characters>>,
           TaskFits(p)'
    PROVE  BoardInv'
<1>1. waiting = [q \in Piece |-> waiting[q]]
  BY DEF BoardInv, State
<1>2. waiting' = [q \in Piece |-> waiting'[q]]
  BY <1>1
<1>3. State'
  BY <1>2 DEF BoardInv, State, IsInside
<1>4. FieldMirrorsCharacters'
  BY DEF BoardInv, FieldMirrorsCharacters, Area
<1>5. ASSUME NEW q \in Piece PROVE TaskFits(q)'
  <2>1. CASE q = p
    BY <2>1
  <2>2. CASE q # p
    <3>1. waiting'[q] = waiting[q] /\ TaskFits(q)
      BY <1>1, <2>2 DEF BoardInv
    <3> QED BY <3>1, ZenonT(60) DEF TaskFits, IsValidMove, TaskMove, TaskInsert, IsInside
  <2> QED BY <2>1, <2>2
<1> QED BY <1>3, <1>4, <1>5 DEF BoardInv

\* The calls that wait or perform a task that is right where the piece stands.
LEMMA TryOrWaitKeepsInv ==
    ASSUME BoardConstants, BoardInv, NEW p \in Piece, NEW task, NEW tasks,
           TaskIsSound(p, task), TryOrWait(p, task, tasks),
           waiting'[p] = task /\ UNCHANGED characters => TaskFits(p)'
    PROVE  BoardInv'
<1>1. CASE /\ IsPossible(task) /\ Perform(p, task) /\ StopWaiting(p)
  BY <1>1, PerformKeepsInv DEF StopWaiting
<1>2. CASE /\ waiting' = [waiting EXCEPT ![p] = task]
           /\ UNCHANGED <<field, characters>>
  <2>1. waiting'[p] = task
    BY <1>2 DEF BoardInv, State
  <2> QED BY <1>2, <2>1, WaitKeepsInv
<1> QED BY <1>1, <1>2 DEF TryOrWait

\* A step that leaves board and waiting threads alone.
LEMMA StutterKeepsInv ==
    ASSUME BoardInv, UNCHANGED <<field, characters, waiting>> PROVE BoardInv'
<1>1. State' /\ FieldMirrorsCharacters'
  BY DEF BoardInv, State, FieldMirrorsCharacters, IsInside, Area
<1>2. ASSUME NEW q \in Piece PROVE TaskFits(q)'
  <2>1. TaskFits(q)
    BY DEF BoardInv
  <2> QED BY <2>1, ZenonT(60) DEF TaskFits, IsValidMove, TaskMove, TaskInsert, IsInside
<1> QED BY <1>1, <1>2 DEF BoardInv

\* Only threads that wait are woken.
NotifiedWait ==
    /\ waiting = [q \in Piece |-> waiting[q]]
    /\ \A p \in notified : p \in Piece /\ waiting[p] # NoTask

LEMMA TryOrWaitKeepsNotified ==
    ASSUME NotifiedWait, NEW p \in Piece, NEW task, NEW tasks, TryOrWait(p, task, tasks)
    PROVE  NotifiedWait'
<1>1. waiting = [q \in Piece |-> waiting[q]]
  BY DEF NotifiedWait
<1>2. PICK new : waiting' = [waiting EXCEPT ![p] = new]
  BY DEF TryOrWait, StopWaiting
<1>3. waiting' = [q \in Piece |-> waiting'[q]]
  BY <1>1, <1>2
<1>4. ASSUME NEW q \in notified' PROVE q \in Piece \ {p} /\ waiting[q] # NoTask
  BY <1>4 DEF TryOrWait, NotifyAll, NotifiedWait
<1>5. \A q \in notified' : q \in Piece /\ waiting'[q] # NoTask
  BY <1>1, <1>2, <1>4
<1> QED BY <1>3, <1>5 DEF NotifiedWait

LEMMA NotifiedWaitInvariant == Spec => []NotifiedWait
<1>1. Init => NotifiedWait
  BY DEF Init, NotifiedWait
<1>2. NotifiedWait /\ [Next]_vars => NotifiedWait'
  <2> SUFFICES ASSUME NotifiedWait, [Next]_vars PROVE NotifiedWait'
    OBVIOUS
  <2>1. CASE UNCHANGED vars
    BY <2>1 DEF vars, NotifiedWait
  <2>2. ASSUME NEW p \in Piece, NEW at \in Field, Postaw(p, at) PROVE NotifiedWait'
    BY <2>2, TryOrWaitKeepsNotified DEF Postaw
  <2>3. ASSUME NEW p \in Piece, NEW d \in Direction, Przesun(p, d) PROVE NotifiedWait'
    BY <2>3, TryOrWaitKeepsNotified DEF Przesun
  <2>4. ASSUME NEW p \in Piece, NEW d \in Direction, RefuseMove(p, d) PROVE NotifiedWait'
    BY <2>4 DEF RefuseMove, NotifiedWait
  <2>5. ASSUME NEW p \in Piece, Resume(p) PROVE NotifiedWait'
    BY <2>5, TryOrWaitKeepsNotified DEF Resume
  <2>6. ASSUME NEW p \in Piece, Interrupt(p) PROVE NotifiedWait'
    <3>1. waiting = [q \in Piece |-> waiting[q]]
      BY DEF NotifiedWait
    <3>2. waiting' = [q \in Piece |-> waiting'[q]]
      BY <2>6, <3>1 DEF Interrupt, StopWaiting
    <3>3. \A q \in notified' : q \in Piece /\ waiting'[q] # NoTask
      BY <2>6, <3>1 DEF Interrupt, StopWaiting, NotifiedWait
    <3> QED BY <3>2, <3>3 DEF NotifiedWait
  <2>7. ASSUME NEW p \in Piece, Usun(p) PROVE NotifiedWait'
    BY <2>7 DEF Usun, NotifyAll, NotifiedWait
  <2> QED BY <2>1, <2>2, <2>3, <2>4, <2>5, <2>6, <2>7 DEF Next
<1> QED BY <1>1, <1>2, PTL DEF Spec

\* Fields and pieces agree and every waiting task stays the right one.
THEOREM BoardInvariant == ASSUME BoardConstants PROVE Spec => []BoardInv
<1>1. Init => BoardInv
  <2> SUFFICES ASSUME Init PROVE BoardInv
    OBVIOUS
  <2>1. State
    BY DEF Init, State
  <2>2. FieldMirrorsCharacters
    BY DEF Init, FieldMirrorsCharacters, BoardConstants
  <2>3. \A p \in Piece : TaskFits(p)
    BY DEF Init, TaskFits
  <2> QED BY <2>1, <2>2, <2>3 DEF BoardInv
<1>2. BoardInv /\ NotifiedWait /\ [Next]_vars => BoardInv'
  <2> SUFFICES ASSUME BoardInv, NotifiedWait, [Next]_vars PROVE BoardInv'
    OBVIOUS
  <2>1. CASE UNCHANGED vars
    BY <2>1, StutterKeepsInv DEF vars
  <2>2. ASSUME NEW p \in Piece, NEW at \in Field, Postaw(p, at) PROVE BoardInv'
    <3>1. characters[p] = Nowhere /\ IsInside(p, at)
      BY <2>2 DEF Postaw, IsInside
    <3>2. TaskIsSound(p, TaskInsert(p, at))
      BY <3>1, InsertIsSound DEF BoardInv
    <3>3. TryOrWait(p, TaskInsert(p, at), waitingTasksMove)
      BY <2>2 DEF Postaw
    <3>4. waiting'[p] = TaskInsert(p, at) /\ UNCHANGED characters => TaskFits(p)'
      <4> SUFFICES ASSUME waiting'[p] = TaskInsert(p, at), characters' = characters
                   PROVE  TaskFits(p)'
        OBVIOUS
      <4>1. TaskInsert(p, at)' = TaskInsert(p, at) /\ ~TaskInsert(p, at).move
        BY DEF TaskInsert, Area
      <4> HIDE DEF TaskInsert
      <4> QED BY <3>1, <4>1 DEF TaskFits, IsInside
    <3> QED BY <3>2, <3>3, <3>4, TryOrWaitKeepsInv
  <2>3. ASSUME NEW p \in Piece, NEW d \in Direction, Przesun(p, d) PROVE BoardInv'
    <3> DEFINE task == TaskMove(p, d)
               tasks == [waitingTasksMove EXCEPT ![p] = task]
    <3>1. characters[p] # Nowhere /\ IsValidMove(p, d) /\ TryOrWait(p, task, tasks)
      BY <2>3 DEF Przesun
    <3>2. TaskIsSound(p, task)
      BY <3>1, MoveIsSound DEF BoardInv
    <3>3. task.move
      BY DEF TaskMove, Direction
    <3>4. waiting'[p] = task /\ UNCHANGED characters => TaskFits(p)'
      BY <3>1, <3>3 DEF TaskFits, IsValidMove, TaskMove
    <3> HIDE DEF task, tasks
    <3> QED BY <3>1, <3>2, <3>4, TryOrWaitKeepsInv
  <2>4. ASSUME NEW p \in Piece, NEW d \in Direction, RefuseMove(p, d) PROVE BoardInv'
    BY <2>4, StutterKeepsInv DEF RefuseMove
  <2>5. ASSUME NEW p \in Piece, Resume(p) PROVE BoardInv'
    <3>1. TaskFits(p) /\ waiting[p] # NoTask
      BY <2>5 DEF BoardInv, Resume, NotifiedWait
    <3>2. TaskIsSound(p, waiting[p])
      BY <3>1, InsertIsSound, MoveIsSound DEF BoardInv, TaskFits
    <3>3. TryOrWait(p, waiting[p], waitingTasksMove)
      BY <2>5 DEF Resume
    <3>4. waiting'[p] = waiting[p] /\ UNCHANGED characters => TaskFits(p)'
      BY <3>1 DEF TaskFits, IsValidMove, TaskMove, TaskInsert, IsInside
    <3> QED BY <3>2, <3>3, <3>4, TryOrWaitKeepsInv
  <2>6. ASSUME NEW p \in Piece, Interrupt(p) PROVE BoardInv'
    <3>1. waiting'[p] = NoTask
      BY <2>6 DEF Interrupt, StopWaiting, BoardInv, State
    <3>2. TaskFits(p)'
      BY <3>1 DEF TaskFits
    <3> QED BY <2>6, <3>2, WaitKeepsInv DEF Interrupt, StopWaiting
  <2>7. ASSUME NEW p \in Piece, Usun(p) PROVE BoardInv'
    <3>1. /\ characters' = [characters EXCEPT ![p] = Nowhere]
          /\ UNCHANGED waiting /\ waiting[p] = NoTask
      BY <2>7 DEF Usun, IsRunning
    <3>2. State'
      BY <2>7, <3>1 DEF Usun, BoardInv, State, IsInside
    <3>3. FieldMirrorsCharacters'
      BY <2>7, <3>1 DEF Usun, BoardInv, State, FieldMirrorsCharacters, BoardConstants, Area
    <3>4. ASSUME NEW q \in Piece PROVE TaskFits(q)'
      <4>1. TaskFits(q)
        BY DEF BoardInv
      <4>2. CASE q = p
        BY <3>1, <4>2 DEF TaskFits
      <4>3. CASE q # p
        <5>1. characters'[q] = characters[q]
          BY <3>1, <4>3 DEF BoardInv, State
        <5> QED BY <3>1, <4>1, <5>1, ZenonT(60) DEF TaskFits, IsValidMove, TaskMove, TaskInsert, IsInside
      <4> QED BY <4>2, <4>3
    <3> QED BY <3>2, <3>3, <3>4 DEF BoardInv
  <2> QED BY <2>1, <2>2, <2>3, <2>4, <2>5, <2>6, <2>7 DEF Next
<1> QED BY <1>1, <1>2, NotifiedWaitInvariant, PTL DEF Spec

\* The field and the map of pieces agree after every call.
THEOREM FieldMirrorsCharactersHolds ==
    ASSUME BoardConstants PROVE Spec => []FieldMirrorsCharacters
<1>1. BoardInv => FieldMirrorsCharacters
  BY DEF BoardInv
<1> QED BY <1>1, BoardInvariant, PTL
-----------------------------------------------------------------------------
LEMMA WaitingTasksAreOnTheBoard ==
    ASSUME BoardConstants, BoardInv, NEW p \in Piece, waiting[p] # NoTask
    PROVE  waiting[p].new \subseteq Field /\ (waiting[p].move \/ waiting[p].old = {})
<1>1. TaskFits(p)
  BY DEF BoardInv
<1>2. TaskIsSound(p, waiting[p])
  BY <1>1, InsertIsSound, MoveIsSound DEF BoardInv, TaskFits
<1>3. CASE waiting[p].move
  BY <1>2, <1>3 DEF TaskIsSound
<1>4. CASE ~waiting[p].move
  <2>1. PICK at \in Field : waiting[p] = TaskInsert(p, at)
    BY <1>1, <1>4 DEF TaskFits
  <2>2. waiting[p].old = {}
    BY <2>1 DEF TaskInsert
  <2> QED BY <1>2, <2>2 DEF TaskIsSound
<1> QED BY <1>3, <1>4

\* A task performed or put to sleep leaves no sleeper whose way is free.
LEMMA TryOrWaitLosesNoWakeup ==
    ASSUME BoardConstants, BoardInv, NoLostWakeup, NEW p \in Piece, NEW task, NEW tasks,
           TryOrWait(p, task, tasks), task.move \/ task.old = {}
    PROVE  NoLostWakeup'
<1> SUFFICES ASSUME NEW q \in Piece, waiting'[q] # NoTask, q \notin notified'
             PROVE  \E f \in waiting'[q].new : field'[f] # NoPiece
  BY DEF NoLostWakeup, IsRunning, IsPossible
<1>1. waiting = [r \in Piece |-> waiting[r]]
  BY DEF BoardInv, State
<1>2. CASE q = p
  BY <1>1, <1>2 DEF TryOrWait, StopWaiting, IsPossible
<1>3. CASE q # p
  <2>1. waiting'[q] = waiting[q] /\ waiting[q] # NoTask
    BY <1>1, <1>3 DEF TryOrWait, StopWaiting
  <2>2. q \notin notified /\ \A f \in Field : field[f] # NoPiece => field'[f] # NoPiece
    BY <1>3, <2>1 DEF TryOrWait, NotifyAll, Perform, BoardConstants
  <2>3. PICK f \in waiting[q].new : field[f] # NoPiece
    BY <2>1, <2>2 DEF NoLostWakeup, IsRunning, IsPossible
  <2>4. f \in Field
    BY <2>1, <2>3, WaitingTasksAreOnTheBoard
  <2> QED BY <2>1, <2>2, <2>3, <2>4
<1> QED BY <1>2, <1>3

\* Nobody sleeps through its chance: wherever fields are freed, all sleepers are woken.
THEOREM NoLostWakeupHolds == ASSUME BoardConstants PROVE Spec => []NoLostWakeup
<1>1. Init => NoLostWakeup
  BY DEF Init, NoLostWakeup, IsRunning
<1>2. BoardInv /\ NotifiedWait /\ NoLostWakeup /\ [Next]_vars => NoLostWakeup'
  <2> SUFFICES ASSUME BoardInv, NotifiedWait, NoLostWakeup, [Next]_vars PROVE NoLostWakeup'
    OBVIOUS
  <2>1. CASE UNCHANGED vars
    BY <2>1 DEF vars, NoLostWakeup, IsRunning, IsPossible
  <2>2. ASSUME NEW p \in Piece, NEW at \in Field, Postaw(p, at) PROVE NoLostWakeup'
    BY <2>2, TryOrWaitLosesNoWakeup DEF Postaw, TaskInsert
  <2>3. ASSUME NEW p \in Piece, NEW d \in Direction, Przesun(p, d) PROVE NoLostWakeup'
    <3>1. TaskMove(p, d).move
      BY DEF TaskMove, Direction
    <3> QED BY <2>3, <3>1, TryOrWaitLosesNoWakeup DEF Przesun
  <2>4. ASSUME NEW p \in Piece, NEW d \in Direction, RefuseMove(p, d) PROVE NoLostWakeup'
    BY <2>4 DEF RefuseMove, NoLostWakeup, IsRunning, IsPossible
  <2>5. ASSUME NEW p \in Piece, Resume(p) PROVE NoLostWakeup'
    BY <2>5, TryOrWaitLosesNoWakeup, WaitingTasksAreOnTheBoard DEF Resume, NotifiedWait
  <2>6. ASSUME NEW p \in Piece, Interrupt(p) PROVE NoLostWakeup'
    BY <2>6 DEF Interrupt, StopWaiting, BoardInv, State, NoLostWakeup, IsRunning, IsPossible
  <2>7. ASSUME NEW p \in Piece, Usun(p) PROVE NoLostWakeup'
    BY <2>7 DEF Usun, NotifyAll, NoLostWakeup, IsRunning
  <2> QED BY <2>1, <2>2, <2>3, <2>4, <2>5, <2>6, <2>7 DEF Next
<1> QED BY <1>1, <1>2, BoardInvariant, NotifiedWaitInvariant, PTL DEF Spec
-----------------------------------------------------------------------------
\* A thread that waits to move has the entry it waits with.
EntriesOfWaiters ==
    /\ waiting = [p \in Piece |-> waiting[p]]
    /\ waitingTasksMove = [p \in Piece |-> waitingTasksMove[p]]
    /\ \A p \in Piece :
          waiting[p] # NoTask /\ waiting[p].move => waitingTasksMove[p] = waiting[p]

\* A circle in the new state that the step did not close was one before.
LEMMA TryOrWaitClosesNoCircle ==
    ASSUME BoardConstants, BoardInv, EntriesOfWaiters, NoCircularWait,
           NEW p \in Piece, NEW task, NEW tasks, TryOrWait(p, task, tasks),
           tasks = [q \in Piece |-> tasks[q]],
           \A q \in Piece \ {p} : tasks[q] = waitingTasksMove[q],
           task.move => tasks[p] = task,
           \/ ~task.move
           \/ ~DeadlockDetected(tasks)
           \/ waiting[p] = task /\ waiting[p] # NoTask
    PROVE  EntriesOfWaiters' /\ NoCircularWait'
<1>1. waiting' = [q \in Piece |-> waiting'[q]]
      /\ waitingTasksMove' = [q \in Piece |-> waitingTasksMove'[q]]
  BY DEF TryOrWait, StopWaiting, EntriesOfWaiters
<1>2. \A q \in Piece \ {p} : waiting'[q] = waiting[q] /\ waitingTasksMove'[q] = waitingTasksMove[q]
  BY DEF TryOrWait, StopWaiting, EntriesOfWaiters
<1>3. waiting'[p] # NoTask =>
         waiting'[p] = task /\ waitingTasksMove' = tasks /\ UNCHANGED <<field, characters>>
  BY DEF TryOrWait, StopWaiting, EntriesOfWaiters
<1>4. EntriesOfWaiters'
  BY <1>1, <1>2, <1>3 DEF EntriesOfWaiters
<1>5. ASSUME NEW S \in (SUBSET Piece) \ {{}},
             \A q \in S : /\ waiting'[q] # NoTask /\ waiting'[q].move
                          /\ \E f \in waiting'[q].new : field'[f] \in S
      PROVE  FALSE
  <2>1. CASE p \in S
    <3>1. waiting'[p] = task /\ task.move /\ UNCHANGED field /\ waitingTasksMove' = tasks
      BY <1>3, <1>5, <2>1
    <3>2. \A q \in S : /\ tasks[q] = waiting'[q] /\ tasks[q] # NoTask
                       /\ IsBlockedBy(tasks[q], S)
      BY <1>4, <1>5, <3>1 DEF EntriesOfWaiters, IsBlockedBy
    <3>3. DeadlockDetected(tasks)
      BY <3>2 DEF DeadlockDetected
    <3>4. waiting[p] = task /\ waiting[p] # NoTask
      BY <3>1, <3>3
    <3>5. \A q \in S : waiting'[q] = waiting[q]
      BY <1>2, <3>1, <3>4
    <3> QED BY <1>5, <3>1, <3>5 DEF NoCircularWait, IsBlockedBy
  <2>2. CASE p \notin S
    <3>1. \A f \in Field : field'[f] \in S => field'[f] = field[f]
      BY <2>2 DEF TryOrWait, Perform, BoardConstants
    <3>2. \A q \in S : waiting[q] # NoTask /\ waiting[q].move /\ waiting'[q] = waiting[q]
      BY <1>2, <1>5, <2>2
    <3>3. ASSUME NEW q \in S PROVE IsBlockedBy(waiting[q], S)
      <4>1. PICK f \in waiting[q].new : field'[f] \in S
        BY <1>5, <3>2
      <4>2. f \in Field
        BY <3>2, <4>1, WaitingTasksAreOnTheBoard
      <4> QED BY <3>1, <4>1, <4>2 DEF IsBlockedBy
    <3> QED BY <3>2, <3>3 DEF NoCircularWait
  <2> QED BY <2>1, <2>2
<1> QED BY <1>4, <1>5 DEF NoCircularWait, IsBlockedBy

\* The threads inside przesun never wait in a circle: the one that would close it is
\* refused before it waits.
THEOREM NoCircularWaitHolds == ASSUME BoardConstants PROVE Spec => []NoCircularWait
<1> DEFINE Inv == EntriesOfWaiters /\ NoCircularWait
<1>1. Init => Inv
  BY DEF Init, EntriesOfWaiters, NoCircularWait
<1>2. BoardInv /\ NotifiedWait /\ Inv /\ [Next]_vars => Inv'
  <2> SUFFICES ASSUME BoardInv, NotifiedWait, Inv, [Next]_vars PROVE Inv'
    OBVIOUS
  <2>1. CASE UNCHANGED vars
    BY <2>1 DEF vars, EntriesOfWaiters, NoCircularWait, IsBlockedBy
  <2>2. ASSUME NEW p \in Piece, NEW at \in Field, Postaw(p, at) PROVE Inv'
    BY <2>2, TryOrWaitClosesNoCircle DEF Postaw, TaskInsert, EntriesOfWaiters
  <2>3. ASSUME NEW p \in Piece, NEW d \in Direction, Przesun(p, d) PROVE Inv'
    <3> DEFINE task == TaskMove(p, d)
               tasks == [waitingTasksMove EXCEPT ![p] = task]
    <3>1. TryOrWait(p, task, tasks) /\ ~DeadlockDetected(tasks)
      BY <2>3 DEF Przesun
    <3> HIDE DEF task
    <3>2. /\ tasks = [q \in Piece |-> tasks[q]]
          /\ \A q \in Piece \ {p} : tasks[q] = waitingTasksMove[q]
          /\ tasks[p] = task
      BY DEF EntriesOfWaiters
    <3> HIDE DEF tasks
    <3> QED BY <3>1, <3>2, TryOrWaitClosesNoCircle
  <2>4. ASSUME NEW p \in Piece, NEW d \in Direction, RefuseMove(p, d) PROVE Inv'
    BY <2>4 DEF RefuseMove, IsRunning, EntriesOfWaiters, NoCircularWait, IsBlockedBy
  <2>5. ASSUME NEW p \in Piece, Resume(p) PROVE Inv'
    <3>1. waiting[p] # NoTask /\ TryOrWait(p, waiting[p], waitingTasksMove)
      BY <2>5 DEF Resume, NotifiedWait
    <3>2. waiting[p].move => waitingTasksMove[p] = waiting[p]
      BY <3>1 DEF EntriesOfWaiters
    <3>3. waitingTasksMove = [q \in Piece |-> waitingTasksMove[q]]
      BY DEF EntriesOfWaiters
    <3> QED BY <3>1, <3>2, <3>3, TryOrWaitClosesNoCircle
  <2>6. ASSUME NEW p \in Piece, Interrupt(p) PROVE Inv'
    <3>1. /\ waiting' = [waiting EXCEPT ![p] = NoTask] /\ UNCHANGED <<field, waitingTasksMove>>
      BY <2>6 DEF Interrupt, StopWaiting
    <3> QED BY <3>1 DEF EntriesOfWaiters, NoCircularWait, IsBlockedBy
  <2>7. ASSUME NEW p \in Piece, Usun(p) PROVE Inv'
    <3>1. /\ UNCHANGED waiting /\ waiting[p] = NoTask
          /\ waitingTasksMove' = [waitingTasksMove EXCEPT ![p] = NoTask]
          /\ \A f \in Field : field'[f] # NoPiece => field'[f] = field[f]
      BY <2>7 DEF Usun, IsRunning
    <3>2. EntriesOfWaiters'
      BY <3>1 DEF EntriesOfWaiters
    <3>3. ASSUME NEW q \in Piece, waiting[q] # NoTask, NEW S \in SUBSET Piece,
                 \E f \in waiting[q].new : field'[f] \in S
          PROVE  IsBlockedBy(waiting[q], S)
      <4>1. PICK f \in waiting[q].new : field'[f] \in S
        BY <3>3
      <4>2. f \in Field /\ field'[f] # NoPiece
        BY <3>3, <4>1, WaitingTasksAreOnTheBoard DEF BoardConstants
      <4> QED BY <3>1, <4>1, <4>2 DEF IsBlockedBy
    <3>4. NoCircularWait'
      BY <3>1, <3>3 DEF NoCircularWait, IsBlockedBy
    <3> QED BY <3>2, <3>4
  <2> QED BY <2>1, <2>2, <2>3, <2>4, <2>5, <2>6, <2>7 DEF Next
<1> QED BY <1>1, <1>2, BoardInvariant, NotifiedWaitInvariant, PTL DEF Spec
-----------------------------------------------------------------------------
(* The semaphore *)

\* The spin lock protects the sub, and a thread that is about to write has read what
\* is still there: 1 before a sub, 0 before an xadd.
SemaphoreInv ==
    /\ SemTypeOK
    /\ \A t \in Thread : pc[t] \in HasMutex => mutex = 1
    /\ \A t, u \in Thread : pc[t] \in HasMutex /\ pc[u] \in HasMutex => t = u
    /\ \A t \in Thread : pc[t] \in {"sub", "write_sub"} => sem = 1
    /\ \A t \in Thread : pc[t] = "write_sub" => read[t] = 1
    /\ \A t \in Thread : pc[t] = "write_add" => read[t] = 0
    /\ MutualExclusion

\* A lock for any number of threads, however their accesses interleave.
THEOREM SemaphoreInvariant == ASSUME SemaphoreConstants PROVE SemSpec => []SemaphoreInv
<1>1. SemInit => SemaphoreInv
  BY DEF SemInit, SemaphoreInv, SemTypeOK, MutualExclusion, Holds, HasMutex, SemaphoreConstants
<1>2. SemaphoreInv /\ [SemNext]_semVars => SemaphoreInv'
  <2> SUFFICES ASSUME SemaphoreInv, [SemNext]_semVars PROVE SemaphoreInv'
    OBVIOUS
  <2> USE DEF SemaphoreInv, SemTypeOK, MutualExclusion, Holds, HasMutex, Goto
  <2>1. CASE UNCHANGED semVars
    BY <2>1 DEF semVars
  <2>2. ASSUME NEW t \in Thread, Call(t) PROVE SemaphoreInv'
    BY <2>2 DEF Call
  <2>3. ASSUME NEW t \in Thread, WaitMutex(t) PROVE SemaphoreInv'
    BY <2>3 DEF WaitMutex
  <2>4. ASSUME NEW t \in Thread, Compare(t) PROVE SemaphoreInv'
    BY <2>4 DEF Compare
  <2>5. ASSUME NEW t \in Thread, WaitSemaphore(t) PROVE SemaphoreInv'
    BY <2>5 DEF WaitSemaphore
  <2>6. ASSUME NEW t \in Thread, ReadSub(t) PROVE SemaphoreInv'
    BY <2>6 DEF ReadSub
  <2>7. ASSUME NEW t \in Thread, WriteSub(t) PROVE SemaphoreInv'
    BY <2>7 DEF WriteSub
  <2>8. ASSUME NEW t \in Thread, Release(t) PROVE SemaphoreInv'
    BY <2>8 DEF Release
  <2>9. ASSUME NEW t \in Thread, ReadAdd(t) PROVE SemaphoreInv'
    BY <2>9 DEF ReadAdd
  <2>10. ASSUME NEW t \in Thread, WriteAdd(t) PROVE SemaphoreInv'
    BY <2>10 DEF WriteAdd
  <2> QED BY <2>1, <2>2, <2>3, <2>4, <2>5, <2>6, <2>7, <2>8, <2>9, <2>10 DEF SemNext
<1> QED BY <1>1, <1>2, PTL DEF SemSpec

\* One thread at a time holds the semaphore.
THEOREM MutualExclusionHolds == ASSUME SemaphoreConstants PROVE SemSpec => []MutualExclusion
<1>1. SemaphoreInv => MutualExclusion
  BY DEF SemaphoreInv
<1> QED BY <1>1, SemaphoreInvariant, PTL
=============================================================================
