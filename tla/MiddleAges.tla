---------------------------- MODULE MiddleAges ----------------------------
(***************************************************************************)
(* The engine of the game Middle Ages: main reads commands, validates them *)
(* (parse.c), and plays them on the board (engine.c, board.c, piece.c).    *)
(* The computer's turn is its END_TURN, the one move ai.c still makes.     *)
(***************************************************************************)
EXTENDS Integers, FiniteSets, Functions

CONSTANTS
    Inits,      \* the data of INIT lines: records with n, k, p, x1, y1, x2, y2
    Steps,      \* what MOVE and PRODUCE lines name: pairs of squares <<x, y>>
    JunkLimit   \* what turns_limit may hold before the first INIT

VARIABLES
    game,           \* GameBoard and aiPlayerNumber
    command_count, init_count, first_init,
    overwritten,    \* peasants lost because putPiece found their square taken
    exit            \* while main reads Reading, then its exit code or Crashed

maVars == <<game, command_count, init_count, first_init, overwritten, exit>>

Reading == -1
Crashed == -2

Player == {1, 2}
Opponent(p) == 3 - p

newGameBoard(limit) ==
    [pieces |-> << >>, current_player |-> 1, current_turn |-> 1, turns_limit |-> limit,
     isKingAlive |-> [p \in Player |-> TRUE], myKnights |-> 0, myPeasants |-> 0,
     aiPlayerNumber |-> 0]

Init ==
    /\ \E limit \in JunkLimit : game = newGameBoard(limit)
    /\ command_count = 0 /\ init_count = 0 /\ first_init = {} /\ overwritten = 0 /\ exit = Reading

createNewPiece(owner, letter, whenAvailable) ==
    [owner |-> owner, letter |-> letter, lastMove |-> whenAvailable]

Taken(g, sq) == sq \in DOMAIN g.pieces
removePiece(g, sq) == [g EXCEPT !.pieces = Restrict(@, DOMAIN @ \ {sq})]
\* A piece put on a square that is taken is freed.
putPiece(g, sq, piece) ==
    IF Taken(g, sq) THEN g
    ELSE [g EXCEPT !.pieces = [s \in DOMAIN @ \cup {sq} |-> IF s = sq THEN piece ELSE @[s]]]

definitlyKillPiece(g, piece) ==
    [g EXCEPT !.isKingAlive[piece.owner] = @ /\ piece.letter # "K",
              !.myPeasants = IF piece.letter = "C" THEN @ - 1 ELSE @,
              !.myKnights = IF piece.letter = "R" THEN @ - 1 ELSE @]

\* The letters K, R and C in the order of their codes.
Strength(piece) == CASE piece.letter = "C" -> 1 [] piece.letter = "K" -> 2 [] piece.letter = "R" -> 3

initializePlayerPieces(g, player, x, y) ==
    LET P(letter) == createNewPiece(player, letter, 0)
    IN putPiece(putPiece(putPiece(putPiece(g, <<x, y>>, P("K")), <<x + 2, y>>, P("R")),
                         <<x + 3, y>>, P("R")), <<x + 1, y>>, P("C"))

\* The function init.
StartGame(g, d) ==
    LET set == [g EXCEPT !.turns_limit = d.k, !.myKnights = 2, !.myPeasants = 1,
                         !.aiPlayerNumber = d.p]
    IN initializePlayerPieces(initializePlayerPieces(set, 1, d.x1, d.y1), 2, d.x2, d.y2)

\* move returns 1.
MoveRefused(g, from, to) ==
    \/ ~Taken(g, from)
    \/ g.pieces[from].lastMove >= g.current_turn
    \/ /\ from # to
       /\ \/ g.pieces[from].owner # g.current_player
          \/ Taken(g, to) /\ g.pieces[to].owner = g.pieces[from].owner

\* What move does when it returns 0.
Moved(g, from, to) ==
    LET attacker == [g.pieces[from] EXCEPT !.lastMove = g.current_turn]
        left == removePiece(g, from)
    IN IF from = to THEN g
       ELSE IF ~Taken(g, to) THEN putPiece(left, to, attacker)
       ELSE LET defender == g.pieces[to]
                cleared == removePiece(left, to)
                dead == {p \in {attacker, defender} :
                            Strength(p) <= Strength(IF p = attacker THEN defender ELSE attacker)}
            IN IF dead = {attacker, defender}
               THEN definitlyKillPiece(definitlyKillPiece(cleared, attacker), defender)
               ELSE IF dead = {defender}
               THEN definitlyKillPiece(putPiece(cleared, to, attacker), defender)
               ELSE definitlyKillPiece(putPiece(cleared, to, defender), attacker)

is_valid_peasant(g, sq) ==
    /\ Taken(g, sq)
    /\ g.pieces[sq].owner = g.current_player /\ g.pieces[sq].letter = "C"
    /\ g.current_turn - g.pieces[sq].lastMove > 2

Increment(g, letter) ==
    IF letter = "R" THEN [g EXCEPT !.myKnights = @ + 1] ELSE [g EXCEPT !.myPeasants = @ + 1]

\* The new piece stands on its father's square when it moves.
NewPieceOn(g, letter, from) ==
    putPiece(removePiece(g, from), from,
             createNewPiece(g.current_player, letter, g.current_turn - 1))

\* Afterwards the father is put back, if his square is free, and the new piece may move
\* again in this turn.
Produced(g, letter, from, to) ==
    LET moved == Moved(NewPieceOn(g, letter, from), from, to)
        father == [g.pieces[from] EXCEPT !.lastMove = g.current_turn]
        back == putPiece(moved, from, father)
        isNew == /\ Taken(back, to)
                 /\ from = to \/ back.pieces[to].owner = g.current_player
    IN IF isNew THEN [back EXCEPT !.pieces[to].lastMove = g.current_turn - 1] ELSE back

endTurn(g) ==
    [g EXCEPT !.current_turn = IF g.current_player = 2 THEN @ + 1 ELSE @,
              !.current_player = Opponent(@)]

gameOver(g) ==
    \/ \E p \in Player : ~g.isKingAlive[p]
    \/ g.current_turn > g.turns_limit

gameResult(g) ==
    IF /\ g.aiPlayerNumber # 0
       /\ ~g.isKingAlive[g.aiPlayerNumber] /\ g.isKingAlive[Opponent(g.aiPlayerNumber)]
    THEN 2 ELSE 1

performMoves(g) == IF gameOver(g) THEN g ELSE endTurn(g)

\* The rest of main's loop after a command that was played.
Finish(g) ==
    /\ game' = g
    /\ exit' = IF gameOver(g) THEN gameResult(g) ELSE Reading

\* An input error ends the program.
Reject ==
    /\ exit' = 42
    /\ UNCHANGED <<game, first_init, overwritten>>

\* command_count only matters up to 3.
Read ==
    /\ exit = Reading
    /\ command_count' = IF command_count = 3 THEN 3 ELSE command_count + 1

Near(a, b, distance) == a - b < distance /\ b - a < distance

validate_king_column(d) == d.x1 + 3 <= d.n /\ d.x2 + 3 <= d.n

validate_init_data(d) ==
    /\ d.n > 8
    /\ init_count < 2 /\ command_count < 2
    /\ d.p \in Player
    /\ validate_king_column(d)
    /\ init_count = 0 => /\ ~(Near(d.x1, d.x2, 8) /\ Near(d.y1, d.y2, 8))
                         /\ {d.x1, d.y1, d.x2, d.y2} \subseteq 1 .. d.n
    /\ init_count = 1 => \E f \in first_init : d.p # f.p /\ [d EXCEPT !.p = f.p] = f

ReadInit(d) ==
    /\ Read
    /\ init_count' = init_count + 1
    /\ IF validate_init_data(d)
       THEN /\ LET g == StartGame(game, d) IN Finish(IF d.p = 1 THEN performMoves(g) ELSE g)
            /\ first_init' = IF init_count = 0 THEN {d} ELSE first_init
            /\ UNCHANGED overwritten
       ELSE Reject

\* Before INIT no coordinate is valid.
validate_two_points(from, to) ==
    /\ Near(from[1], to[1], 2) /\ Near(from[2], to[2], 2)
    /\ \E f \in first_init : {from[1], from[2], to[1], to[2]} \subseteq 1 .. f.n

ReadMove(from, to) ==
    /\ Read
    /\ IF validate_two_points(from, to) /\ ~MoveRefused(game, from, to)
       THEN Finish(Moved(game, from, to)) /\ UNCHANGED <<first_init, overwritten>>
       ELSE Reject
    /\ UNCHANGED init_count

\* PRODUCE_KNIGHT and PRODUCE_PEASANT.  When the move is refused the board keeps a
\* piece that was freed, and endGame frees it again.
ReadProduce(letter, from, to) ==
    /\ Read
    /\ LET g == Increment(game, letter)
           valid == validate_two_points(from, to) /\ is_valid_peasant(g, from)
           refused == valid /\ MoveRefused(NewPieceOn(g, letter, from), from, to)
       IN \/ /\ valid /\ ~refused
             /\ Finish(Produced(g, letter, from, to))
             /\ overwritten' = IF from = to THEN overwritten + 1 ELSE overwritten
             /\ UNCHANGED first_init
          \/ ~valid /\ Reject
          \/ /\ refused
             /\ exit' \in {42, Crashed}
             /\ UNCHANGED <<game, first_init, overwritten>>
    /\ UNCHANGED init_count

ReadEndTurn ==
    /\ Read
    /\ Finish(performMoves(endTurn(game)))
    /\ UNCHANGED <<init_count, first_init, overwritten>>

\* A line that is no command, or the end of the input.
ReadGarbage ==
    /\ exit = Reading
    /\ Reject
    /\ UNCHANGED <<command_count, init_count>>

Next ==
    \/ \E d \in Inits : ReadInit(d)
    \/ \E step \in Steps :
          \/ ReadMove(step[1], step[2])
          \/ \E letter \in {"R", "C"} : ReadProduce(letter, step[1], step[2])
    \/ ReadEndTurn \/ ReadGarbage

Spec == Init /\ [][Next]_maVars
-----------------------------------------------------------------------------
TypeOK ==
    /\ DOMAIN game.pieces \subseteq Nat \X Nat
    /\ \A sq \in DOMAIN game.pieces :
          /\ game.pieces[sq].owner \in Player /\ game.pieces[sq].letter \in {"K", "R", "C"}
          /\ game.pieces[sq].lastMove \in 0 .. game.current_turn
    /\ game.current_player \in Player /\ game.aiPlayerNumber \in {0, 1, 2}
    /\ init_count \in 0 .. 3 /\ command_count \in 0 .. 3 /\ overwritten \in Nat
    /\ exit \in {Reading, Crashed, 1, 2, 42}

On(letter, players) ==
    Cardinality({sq \in DOMAIN game.pieces :
                    game.pieces[sq].letter = letter /\ game.pieces[sq].owner \in players})

\* The flags and counters follow the pieces through fights, deaths and births: a king is
\* alive exactly while he stands on the board, and the knights and peasants counted are
\* those of both players less the two knights and the peasant never counted.
CountersFollowBoard ==
    first_init # {} =>
        /\ \A p \in Player : On("K", {p}) = (IF game.isKingAlive[p] THEN 1 ELSE 0)
        /\ On("R", Player) = game.myKnights + 2
        /\ On("C", Player) = game.myPeasants + 1 - overwritten
=============================================================================
