------------------------------ MODULE EventLog ------------------------------
(***************************************************************************)
(* What the game server promises about its vector `events`, as seen by     *)
(* everything that reads it: one append-only log per game, numbered from   *)
(* 0, opened by NEW_GAME, closed by GAME_OVER, with nothing else of those  *)
(* two types in between.  SiktackaServer (the handlers) and EventDelivery  *)
(* (the protocol that ships the log to a client) both implement it.        *)
(***************************************************************************)
EXTENDS Naturals, Sequences

VARIABLES
    game_id,   \* id of the current or last game
    started,   \* is a game in progress?
    events     \* its log: a sequence of [no, type]

vars == <<game_id, started, events>>

MoveTypes  == {"PIXEL", "PLAYER_ELIMINATED"}
EventTypes == MoveTypes \cup {"NEW_GAME", "GAME_OVER"}

\* The entries of log l from position i on are moves, up to position j.
OnlyMoves(l, i, j) == \A k \in i .. j : l[k].type \in MoveTypes

Numbered(l) == \A k \in 1 .. Len(l) : l[k].no = k - 1

\* log m continues log l
Continues(l, m) ==
    /\ Len(l) <= Len(m)
    /\ \A k \in 1 .. Len(l) : m[k] = l[k]

Init ==
    /\ started = FALSE
    /\ events  = <<>>

\* A new game: a fresh id, the old log dropped, NEW_GAME and the first moves.
StartGame ==
    /\ ~started
    /\ started' = TRUE
    /\ game_id' # game_id
    /\ Len(events') > 0
    /\ events'[1].type = "NEW_GAME"
    /\ OnlyMoves(events', 2, Len(events'))
    /\ Numbered(events')

\* One turn: moves are appended to the log of the running game.
Advance ==
    /\ started
    /\ started' = TRUE
    /\ game_id' = game_id
    /\ Continues(events, events')
    /\ OnlyMoves(events', Len(events) + 1, Len(events'))
    /\ Numbered(events')

\* The last turn: moves, then GAME_OVER.
Finish ==
    /\ started
    /\ started' = FALSE
    /\ game_id' = game_id
    /\ Len(events') > Len(events)
    /\ Continues(events, events')
    /\ OnlyMoves(events', Len(events) + 1, Len(events') - 1)
    /\ events'[Len(events')].type = "GAME_OVER"
    /\ Numbered(events')

Next == StartGame \/ Advance \/ Finish

Spec == Init /\ [][Next]_vars
=============================================================================
