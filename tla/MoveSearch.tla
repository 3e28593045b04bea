------------------------------ MODULE MoveSearch ------------------------------
(***************************************************************************)
(* How the computer of Middle Ages looks for its best move (move.c and     *)
(* evaluatePosition.c): every move of a piece is done on the board, valued *)
(* and undone.  ai.c, whose loop over the pieces is commented out, is the  *)
(* caller these functions were written for.                                *)
(***************************************************************************)
EXTENDS MiddleAges, SequencesExt

\* A board of 20 or less: the fourth power of a distance is less than a king.
SearchConstants == \A d \in Inits : d.n <= 20

boardSize == (CHOOSE d \in first_init : TRUE).n
Squares == (1 .. boardSize) \X (1 .. boardSize)

\* Where a player's king stood at the beginning.
getKingPosition(player) ==
    LET d == CHOOSE d \in first_init : TRUE
    IN IF player = 1 THEN <<d.x1, d.y1>> ELSE <<d.x2, d.y2>>

\* No square and no piece.
NONE == <<0, 0>>
NULL == createNewPiece(0, "", 0)

\* moved is the piece on from; removed is NONE, to, or from when the mover itself dies.
Move(g, command, from, to, created, removed) ==
    [command |-> command, from |-> from, to |-> to, created |-> created, removed |-> removed,
     moved |-> g.pieces[from], taken |-> IF removed = to THEN g.pieces[to] ELSE NULL]

DoNothing == [command |-> "DO_NOTHING"]

constructMoveCommand(g, from, to) ==
    Move(g, "MOVE", from, to, NULL,
         IF ~Taken(g, to) THEN NONE
         ELSE IF Strength(g.pieces[from]) < Strength(g.pieces[to]) THEN from ELSE to)

\* The moved piece is the one that can be told by its square.
WithLastMove(g, sq, turn) == IF Taken(g, sq) THEN [g EXCEPT !.pieces[sq].lastMove = turn] ELSE g

doMove(g, m) ==
    LET left == removePiece(g, m.from)
        mover == [m.moved EXCEPT !.lastMove = g.current_turn]
    IN CASE m.command = "DO_NOTHING" -> g
         [] m.command \in {"PRODUCE_PEASANT", "PRODUCE_KNIGHT"} ->
               WithLastMove(putPiece(g, m.to, m.created), m.from, g.current_turn)
         [] OTHER ->
               CASE m.removed = NONE -> putPiece(left, m.to, mover)
                 [] m.removed = m.from -> left
                 [] m.removed = m.to ->
                       IF m.moved.letter = m.taken.letter THEN removePiece(left, m.to)
                       ELSE putPiece(removePiece(left, m.to), m.to, mover)

undoMove(g, m) ==
    LET back == putPiece(g, m.from, m.moved)
    IN CASE m.command = "DO_NOTHING" -> g
         [] m.command \in {"PRODUCE_PEASANT", "PRODUCE_KNIGHT"} ->
               WithLastMove(removePiece(g, m.to), m.from, m.moved.lastMove)
         [] OTHER ->
               CASE m.removed = NONE -> removePiece(back, m.to)
                 [] m.removed = m.from -> back
                 [] m.removed = m.to -> putPiece(removePiece(back, m.to), m.to, m.taken)

\* The squares around, row by row.
Around(from) ==
    SelectSeq([i \in 1 .. 9 |-> <<from[1] - 1 + ((i - 1) % 3), from[2] - 1 + ((i - 1) \div 3)>>],
              LAMBDA sq : sq # from /\ sq \in Squares)

getMovesCommands(g, from) ==
    LET targets == SelectSeq(Around(from), LAMBDA sq :
                       ~Taken(g, sq) \/ g.pieces[sq].owner # g.pieces[from].owner)
    IN [i \in DOMAIN targets |-> constructMoveCommand(g, from, targets[i])]

\* A peasant who rested brings forth peasants and knights; the two letters of a kind are one.
Births(g, from) ==
    LET free == SelectSeq(Around(from), LAMBDA sq : ~Taken(g, sq))
        New(letter, turn) == createNewPiece(g.pieces[from].owner, letter, turn)
        At(sq) == <<Move(g, "PRODUCE_PEASANT", from, sq, New("C", g.current_turn), NONE),
                    Move(g, "PRODUCE_KNIGHT", from, sq, New("R", g.current_turn - 1), NONE)>>
    IN IF g.pieces[from].letter = "C" /\ g.current_turn - g.pieces[from].lastMove >= 3
       THEN FlattenSeq([i \in DOMAIN free |-> At(free[i])]) ELSE << >>

getPossibleMoves(g, from) ==
    <<DoNothing>> \o IF g.pieces[from].lastMove = g.current_turn THEN << >>
                     ELSE getMovesCommands(g, from) \o Births(g, from)
-----------------------------------------------------------------------------
getPieceValue(letter) == CASE letter = "C" -> 60 [] letter = "R" -> 100 [] letter = "K" -> 1000000

Distance(a, b) ==
    Max({a[1] - b[1], b[1] - a[1], a[2] - b[2], b[2] - a[2]})
knightAttackValue(king, sq) == (boardSize - Distance(king, sq)) ^ 4

peasantEvaluate(lastMove, turn) == 20 * Min({turn - lastMove, 2}) ^ 2

\* The peasants at most two squares away, when (x, y) itself is on the board.
countNeighbours(g, sq) ==
    Cardinality({s \in DOMAIN g.pieces : sq \in Squares /\ Distance(s, sq) <= 2
                                         /\ g.pieces[s].letter = "C"})
crowdPenalty(x) == IF x < 4 THEN 0 ELSE IF x = 4 THEN boardSize ELSE 10000

tooManyPeasants(g) == IF g.myPeasants > 4 THEN -10000000 * g.myPeasants ELSE 0

calculatePiecesValue(m, king) ==
    (CASE m.removed = NONE -> 0
       [] m.removed = m.from -> -getPieceValue(m.moved.letter)
       [] m.removed = m.to /\ m.moved.letter = m.taken.letter ->
             IF m.moved.letter = "R" THEN knightAttackValue(king, m.to) ELSE 0
       [] OTHER -> getPieceValue(m.taken.letter))
    + IF m.created = NULL THEN 0 ELSE getPieceValue(m.created.letter)

calculatePerk(g, m) ==
    (IF \/ m.command = "PRODUCE_PEASANT" /\ g.myKnights >= g.myPeasants
        \/ m.command = "PRODUCE_KNIGHT" /\ g.myPeasants > g.myKnights
     THEN 10000 ELSE 0)
    - IF m.command = "PRODUCE_PEASANT" /\ g.myPeasants > 5 THEN 1000000 ELSE 0

\* g is the board after the move m.
evaluatePosition(g, player, m) ==
    LET enemyKing == getKingPosition(3 - player)
    IN IF m.command = "DO_NOTHING" THEN tooManyPeasants(g)
       ELSE calculatePiecesValue(m, getKingPosition(player))
            + (IF m.moved.letter # "R" THEN 0
               ELSE knightAttackValue(enemyKing, m.to) - knightAttackValue(enemyKing, m.from))
            + (IF m.moved.letter # "C" THEN 0
               ELSE peasantEvaluate(g.current_turn, g.current_turn)
                    - crowdPenalty(countNeighbours(g, m.to)))
            + tooManyPeasants(g) + calculatePerk(g, m)

\* The first of the most valuable moves; the board is left as the search leaves it.
getBestMove(g, from, player) ==
    LET Tried(r, m) ==
            LET done == doMove(r.board, m)
                value == evaluatePosition(done, player, m)
            IN [board |-> undoMove(done, m),
                result |-> IF value > r.best THEN m ELSE r.result,
                best |-> IF value > r.best THEN value ELSE r.best]
    IN FoldLeft(Tried, [board |-> g, result |-> DoNothing, best |-> -2000000000],
                getPossibleMoves(g, from))
-----------------------------------------------------------------------------
\* The pieces a search may be asked about.
Searched ==
    IF first_init = {} \/ exit # Reading THEN {}
    ELSE {sq \in DOMAIN game.pieces : sq \in Squares /\ game.pieces[sq].owner = game.current_player
                                      /\ game.pieces[sq].lastMove < game.current_turn}

\* The pieces of a board, with no regard to when a new peasant may move: move.c says this
\* turn, the engine says the one before.
Seen(g, m) ==
    IF m.command = "PRODUCE_PEASANT" THEN [g.pieces EXCEPT ![m.to].lastMove = 0] ELSE g.pieces

\* The board that the search looks at after a move is the one the engine would make of it,
\* and the engine would not refuse the move.
SearchForesees ==
    \A sq \in Searched : \A m \in ToSet(getPossibleMoves(game, sq)) \ {DoNothing} :
       IF m.command = "MOVE"
       THEN ~MoveRefused(game, sq, m.to) /\ doMove(game, m).pieces = Moved(game, sq, m.to).pieces
       ELSE /\ is_valid_peasant(game, sq)
            /\ ~MoveRefused(NewPieceOn(game, m.created.letter, sq), sq, m.to)
            /\ Seen(doMove(game, m), m) = Seen(Produced(game, m.created.letter, sq, m.to), m)

\* A search leaves the board as it was, fits into its table of 26 moves, takes a king that
\* its piece can take, and never lets its own king die alone.
SearchIsSound ==
    \A sq \in Searched :
       \A moves \in {getPossibleMoves(game, sq)},
          r \in {getBestMove(game, sq, game.current_player)} :
          /\ r.board = game
          /\ Len(moves) <= 26
          /\ (\E m \in ToSet(moves) \ {DoNothing} : m.taken.letter = "K" /\ m.moved.letter = "R")
             => r.result.taken.letter = "K"
          /\ ~(r.result # DoNothing /\ r.result.removed = sq /\ r.result.moved.letter = "K")
=============================================================================
