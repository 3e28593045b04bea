----------------------- MODULE SiktackaServer_proofs -----------------------
(***************************************************************************)
(* What TLAPS proves of SiktackaServer, for any clients, sockets, names,   *)
(* limits and boards: that its tables stay in step, and of the log of      *)
(* events it writes, what it says of the trail, of the numbers and of who  *)
(* still plays, and that it is the log EventLog promises.                  *)
(***************************************************************************)
EXTENDS SiktackaServer, FiniteSetTheorems, TLAPS

-----------------------------------------------------------------------------
(* The order of the maps. *)

LEMMA SubsetsAreFinite ==
    ASSUME NEW S \in SUBSET Session
    PROVE  IsFiniteSet(S) /\ Cardinality(S) \in Nat
BY ServerAssumption, FS_Subset, FS_CardinalityType

\* The players before c are fewer than those before a later one.
LEMMA RankIncreases ==
    ASSUME NEW S \in SUBSET Session, NEW c \in S, NEW d \in S, c < d
    PROVE  Rank(S, c) < Rank(S, d)
<1>. DEFINE Before(x) == {e \in S : e < x}
<1>0. S \subseteq Nat
  BY ServerAssumption
<1>1. Before(c) \in SUBSET Session /\ Before(d) \in SUBSET Session
  OBVIOUS
<1>2. Before(c) \in SUBSET Before(d)
  <2>. SUFFICES ASSUME NEW e \in S, e < c PROVE e < d
    OBVIOUS
  <2>1. e \in Nat /\ c \in Nat /\ d \in Nat
    BY <1>0
  <2>. QED
    BY <2>1
<1>3. c \in Before(d) /\ c \notin Before(c)
  BY <1>0
<1>4. Cardinality(Before(c)) <= Cardinality(Before(d))
      /\ Cardinality(Before(c)) # Cardinality(Before(d))
  BY <1>1, <1>2, <1>3, SubsetsAreFinite, FS_Subset
<1>. QED
  BY <1>1, <1>4, SubsetsAreFinite DEF Rank

LEMMA RankInRange ==
    ASSUME NEW S \in SUBSET Session, NEW c \in S
    PROVE  Rank(S, c) \in 0 .. Cardinality(S) - 1
<1>. DEFINE Before == {e \in S : e < c}
<1>1. Before \in SUBSET S /\ Before \in SUBSET Session /\ Before # S
  <2>1. c \in Nat
    BY ServerAssumption
  <2>2. c \notin Before
    BY <2>1
  <2>. QED
    BY <2>2
<1>2. /\ Cardinality(Before) \in Nat /\ Cardinality(S) \in Nat
      /\ Cardinality(Before) <= Cardinality(S)
      /\ Cardinality(Before) # Cardinality(S)
  BY <1>1, SubsetsAreFinite, FS_Subset
<1>. QED
  BY <1>2 DEF Rank

\* Every position of the order is taken: Nth names a member of S.
LEMMA NthIsMember ==
    ASSUME NEW S \in SUBSET Session, NEW i \in 0 .. Cardinality(S) - 1
    PROVE  Nth(S, i) \in S /\ Rank(S, Nth(S, i)) = i
<1>. DEFINE n == Cardinality(S)
            R == 0 .. n - 1
            f == [c \in S |-> Rank(S, c)]
<1>1. n \in Nat /\ IsFiniteSet(S)
  BY SubsetsAreFinite
<1>2. IsFiniteSet(R) /\ Cardinality(R) = n
  <2>1. 0 \in Int /\ n - 1 \in Int
    BY <1>1
  <2>. QED
    BY <1>1, <2>1, FS_Interval
<1>3. f \in [S -> R]
  BY RankInRange
<1>4. \A c, d \in S : f[c] = f[d] => c = d
  <2>. SUFFICES ASSUME NEW c \in S, NEW d \in S, c # d PROVE f[c] # f[d]
    OBVIOUS
  <2>1. c < d \/ d < c
    BY ServerAssumption
  <2>2. Rank(S, c) \in Int /\ Rank(S, d) \in Int
    BY <1>1, RankInRange
  <2>. QED
    BY <2>1, <2>2, RankIncreases
<1>5. f \in Injection(S, R)
  BY <1>3, <1>4 DEF Injection, IsInjective
<1>6. f \in Surjection(S, R)
  BY <1>1, <1>2, <1>5, FS_Injection
<1>7. \E c \in S : f[c] = i
  BY <1>6 DEF Surjection
<1>8. \E c \in S : Rank(S, c) = i
  BY <1>7
<1>. QED
  BY <1>8 DEF Nth

-----------------------------------------------------------------------------
(* What the operators return. *)

PlayersType(ps) ==
    /\ DOMAIN ps \subseteq Session
    /\ \A c \in DOMAIN ps : ps[c] \in Player

LEMMA PutPuts ==
    ASSUME NEW f, NEW x, NEW y
    PROVE  /\ DOMAIN Put(f, x, y) = DOMAIN f \cup {x}
           /\ Put(f, x, y)[x] = y
           /\ \A z \in DOMAIN f : z # x => Put(f, x, y)[z] = f[z]
BY DEF Put

LEMMA PutPlayerType ==
    ASSUME NEW ps, PlayersType(ps), NEW c \in Session, NEW q \in Player
    PROVE  PlayersType(Put(ps, c, q))
<1>1. DOMAIN Put(ps, c, q) = DOMAIN ps \cup {c}
  BY PutPuts
<1>2. ASSUME NEW d \in DOMAIN Put(ps, c, q) PROVE Put(ps, c, q)[d] \in Player
  <2>1. CASE d = c
    BY <2>1 DEF Put
  <2>2. CASE d # c
    <3>1. d \in DOMAIN ps /\ Put(ps, c, q)[d] = ps[d]
      BY <1>1, <2>2 DEF Put
    <3>. QED
      BY <3>1 DEF PlayersType
  <2>. QED
    BY <2>1, <2>2
<1>. QED
  BY <1>1, <1>2 DEF PlayersType

LEMMA NewPlayerType ==
    ASSUME NEW n \in Nat
    PROVE  NewPlayer(n) \in Player /\ ~NewPlayer(n).disconnected
BY DEF NewPlayer, Player

\* add_player, when the session joins.
LEMMA PlayersWithType ==
    ASSUME PlayersType(players), NEW c \in Session
    PROVE  /\ PlayersType(PlayersWith(c))
           /\ DOMAIN PlayersWith(c) = DOMAIN players \cup (IF Joins(c) THEN {c} ELSE {})
           /\ Joins(c) => ~PlayersWith(c)[c].disconnected
           /\ \A d \in DOMAIN players :
                 ~(Joins(c) /\ d = c) => PlayersWith(c)[d] = players[d]
<1>1. NameOf[c] \in Nat
  BY ServerAssumption
<1>2. NewPlayer(NameOf[c]) \in Player /\ ~NewPlayer(NameOf[c]).disconnected
  BY <1>1, NewPlayerType
<1>3. CASE Joins(c)
  <2>1. PlayersWith(c) = Put(players, c, NewPlayer(NameOf[c]))
    BY <1>3 DEF PlayersWith
  <2>2. PlayersType(PlayersWith(c))
    BY <1>2, <2>1, PutPlayerType
  <2>3. DOMAIN PlayersWith(c) = DOMAIN players \cup {c}
    BY <2>1, PutPuts
  <2>4. PlayersWith(c)[c] = NewPlayer(NameOf[c])
    BY <2>1 DEF Put
  <2>5. \A d \in DOMAIN players : d # c => PlayersWith(c)[d] = players[d]
    BY <2>1 DEF Put
  <2>. QED
    BY <1>2, <1>3, <2>2, <2>3, <2>4, <2>5
<1>4. CASE ~Joins(c)
  BY <1>4 DEF PlayersWith
<1>. QED
  BY <1>3, <1>4

LEMMA SetTurnType ==
    ASSUME NEW ps, PlayersType(ps), NEW c \in Session, NEW turn \in Turns
    PROVE  /\ PlayersType(SetTurn(ps, c, turn))
           /\ DOMAIN SetTurn(ps, c, turn) = DOMAIN ps \cup {c}
           /\ \A d \in DOMAIN ps :
                 SetTurn(ps, c, turn)[d].disconnected = ps[d].disconnected
<1>. DEFINE p == IF c \in DOMAIN ps THEN ps[c] ELSE NewPlayer(NoName)
            q == [p EXCEPT !.turn_direction = turn,
                           !.ready = @ \/ (turn # 0 /\ p.name # NoName)]
<1>1. p \in Player
  BY NewPlayerType DEF PlayersType, NoName
<1>2. q \in Player /\ q.disconnected = p.disconnected
  <2>1. turn \in {-1, 0, 1}
    BY ServerAssumption
  <2>. HIDE DEF p
  <2>2. (p.ready \/ (turn # 0 /\ p.name # NoName)) \in BOOLEAN
    BY <1>1 DEF Player
  <2>. QED
    BY <1>1, <2>1, <2>2 DEF Player
<1>3. SetTurn(ps, c, turn) = Put(ps, c, q)
  BY DEF SetTurn
<1>. HIDE DEF p, q
<1>4. PlayersType(Put(ps, c, q))
  BY <1>2, PutPlayerType
<1>5. ASSUME NEW d \in DOMAIN ps
      PROVE  Put(ps, c, q)[d].disconnected = ps[d].disconnected
  <2>1. CASE d = c
    <3>1. Put(ps, c, q)[d] = q
      BY <2>1 DEF Put
    <3>2. p = ps[d]
      BY <2>1 DEF p
    <3>. QED
      BY <3>1, <3>2, <1>2
  <2>2. CASE d # c
    BY <2>2 DEF Put
  <2>. QED
    BY <2>1, <2>2
<1>. QED
  BY <1>3, <1>4, <1>5, PutPuts

\* The field of a snake that is not eliminated is on the board, its edges included.
LEMMA NotEliminated ==
    ASSUME NEW S, NEW field, NEW taken, NEW c \in S, field[c] \in Int \X Int,
           c \notin Eliminated(S, field, taken)
    PROVE  field[c] \in Fields
BY ServerAssumption DEF Eliminated, out_of_range, Fields

LEMMA MoveEventsType ==
    ASSUME NEW no \in Nat, NEW ps, PlayersType(ps), NEW S \in SUBSET DOMAIN ps,
           NEW field, NEW Out,
           \A c \in S : field[c] \in Int \X Int,
           \A c \in S : c \notin Out => field[c] \in Fields
    PROVE  /\ MoveEvents(no, S, ps, field, Out) \in Seq(Event)
           /\ Len(MoveEvents(no, S, ps, field, Out)) = Cardinality(S)
<1>. DEFINE n == Cardinality(S)
            e(i) == LET c == Nth(S, i - 1)
                    IN  MoveEvent(no + i - 1, ps[c].number, field[c], c \in Out)
<1>1. S \in SUBSET Session
  BY DEF PlayersType
<1>2. n \in Nat
  BY <1>1, SubsetsAreFinite
<1>3. ASSUME NEW i \in 1 .. n PROVE e(i) \in Event
  <2>1. Nth(S, i - 1) \in S
    <3>1. i - 1 \in 0 .. Cardinality(S) - 1
      BY <1>2
    <3>. QED
      BY <3>1, <1>1, NthIsMember
  <2>2. PICK c \in S : c = Nth(S, i - 1)
    BY <2>1
  <2>3. ps[c].number \in Nat
    BY DEF PlayersType, Player
  <2>4. no + i - 1 \in Nat
    BY <1>2
  <2>5. MoveEvent(no + i - 1, ps[c].number, field[c], c \in Out) \in Event
    <3>1. CASE c \in Out
      BY <3>1, <2>3, <2>4 DEF MoveEvent, Event
    <3>2. CASE c \notin Out
      BY <3>2, <2>3, <2>4 DEF MoveEvent, Event
    <3>. QED
      BY <3>1, <3>2
  <2>. QED
    BY <2>2, <2>5
<1>4. MoveEvents(no, S, ps, field, Out) = [i \in 1 .. n |-> e(i)]
  BY DEF MoveEvents
<1>. HIDE DEF e, n
<1>5. [i \in 1 .. n |-> e(i)] \in Seq(Event) /\ Len([i \in 1 .. n |-> e(i)]) = n
  BY <1>2, <1>3
<1>. QED
  BY <1>4, <1>5 DEF n

LEMMA NamedAreSessions ==
    ASSUME NEW ps, PlayersType(ps)
    PROVE  /\ Named(ps) \subseteq DOMAIN ps /\ Named(ps) \in SUBSET Session
           /\ Playing(ps) \subseteq DOMAIN ps /\ Playing(ps) \in SUBSET Session
BY DEF PlayersType, Named, Playing

LEMMA NamesType ==
    ASSUME NEW ps, PlayersType(ps)
    PROVE  player_names(ps) \in Seq(Nat)
<1>. DEFINE n == Cardinality(Named(ps))
            name(i) == ps[Nth(Named(ps), i - 1)].name
<1>1. n \in Nat
  BY NamedAreSessions, SubsetsAreFinite
<1>2. ASSUME NEW i \in 1 .. n PROVE name(i) \in Nat
  <2>1. i - 1 \in 0 .. Cardinality(Named(ps)) - 1
    BY <1>1
  <2>2. Nth(Named(ps), i - 1) \in Named(ps)
    BY <2>1, NamedAreSessions, NthIsMember
  <2>. QED
    BY <2>2, NamedAreSessions DEF PlayersType, Player
<1>3. player_names(ps) = [i \in 1 .. n |-> name(i)]
  BY DEF player_names
<1>. HIDE DEF n, name
<1>. QED
  BY <1>1, <1>2, <1>3

\* game_start_event and start_game leave the players where they are in the map and
\* write a log that is well formed.
LEMMA StartGameType ==
    ASSUME NEW ps, PlayersType(ps), NEW field \in [Named(ps) -> StartFields],
           StartGame(ps, field)
    PROVE  /\ PlayersType(players')
           /\ DOMAIN players' = DOMAIN ps
           /\ \A d \in DOMAIN ps : players'[d].disconnected = ps[d].disconnected
           /\ events' \in Seq(Event)
           /\ last_event_no' = Len(events')
           /\ taken_fields' \subseteq Fields
           /\ started' = TRUE
           /\ game_id' = game_id + 1
<1>. DEFINE S == Named(ps)
            Out == Eliminated(S, field, {})
            numbered == [c \in DOMAIN ps |->
                IF c \in S THEN [ps[c] EXCEPT !.number = NumberOf(ps, c)] ELSE ps[c]]
            new == [no |-> 0, type |-> "NEW_GAME", players |-> player_names(ps)]
            moves == MoveEvents(1, S, numbered, field, Out)
<1>1. /\ game_id' = game_id + 1
      /\ started' = TRUE
      /\ events' = <<new>> \o moves
      /\ last_event_no' = 1 + Cardinality(S)
      /\ taken_fields' = TakenBy(S, field, Out)
      /\ players' = [c \in DOMAIN ps |->
            IF c \in S THEN [numbered[c] EXCEPT !.plays = c \notin Out, !.field = field[c]]
            ELSE ps[c]]
  BY DEF StartGame
<1>2. S \subseteq DOMAIN ps /\ S \in SUBSET Session /\ Cardinality(S) \in Nat
  BY NamedAreSessions, SubsetsAreFinite
<1>3. \A c \in S : field[c] \in Int \X Int /\ NumberOf(ps, c) \in Nat
  <2>. SUFFICES ASSUME NEW c \in S
                PROVE  field[c] \in Int \X Int /\ NumberOf(ps, c) \in Nat
    OBVIOUS
  <2>1. field[c] \in StartFields
    OBVIOUS
  <2>2. Rank(S, c) \in Nat
    BY <1>2, RankInRange
  <2>. QED
    BY <2>1, <2>2 DEF StartFields, NumberOf
<1>4. \A c \in S : c \notin Out => field[c] \in Fields
  BY <1>3, NotEliminated
<1>. HIDE DEF S, Out
<1>5. /\ PlayersType(numbered) /\ DOMAIN numbered = DOMAIN ps
      /\ \A c \in DOMAIN ps : numbered[c].disconnected = ps[c].disconnected
  <2>. SUFFICES ASSUME NEW c \in DOMAIN ps
                PROVE  /\ numbered[c] \in Player
                       /\ numbered[c].disconnected = ps[c].disconnected
    BY DEF PlayersType
  <2>1. ps[c] \in Player
    BY DEF PlayersType
  <2>. QED
    BY <2>1, <1>3 DEF Player
<1>. HIDE DEF numbered
<1>6. /\ PlayersType(players') /\ DOMAIN players' = DOMAIN ps
      /\ \A d \in DOMAIN ps : players'[d].disconnected = ps[d].disconnected
  <2>. SUFFICES ASSUME NEW d \in DOMAIN ps
                PROVE  /\ players'[d] \in Player
                       /\ players'[d].disconnected = ps[d].disconnected
    BY <1>1 DEF PlayersType
  <2>1. ps[d] \in Player /\ numbered[d] \in Player
        /\ numbered[d].disconnected = ps[d].disconnected
    BY <1>5 DEF PlayersType
  <2>2. CASE d \in S
    <3>1. players'[d] = [numbered[d] EXCEPT !.plays = d \notin Out, !.field = field[d]]
      BY <1>1, <2>2
    <3>2. (d \notin Out) \in BOOLEAN
      OBVIOUS
    <3>. QED
      BY <3>1, <3>2, <2>1, <2>2, <1>3 DEF Player
  <2>3. CASE d \notin S
    BY <1>1, <2>1, <2>3
  <2>. QED
    BY <2>2, <2>3
<1>7. moves \in Seq(Event) /\ Len(moves) = Cardinality(S)
  BY <1>2, <1>3, <1>4, <1>5, MoveEventsType
<1>8. new \in Event
  BY NamesType DEF Event
<1>. HIDE DEF new, moves
<1>9. events' \in Seq(Event) /\ last_event_no' = Len(events')
  <2>1. <<new>> \in Seq(Event) /\ Len(<<new>>) = 1
    BY <1>8
  <2>2. <<new>> \o moves \in Seq(Event) /\ Len(<<new>> \o moves) = 1 + Len(moves)
    BY <2>1, <1>7
  <2>. QED
    BY <2>2, <1>1, <1>7
<1>10. taken_fields' \subseteq Fields
  BY <1>1, <1>4 DEF TakenBy
<1>. QED
  BY <1>1, <1>6, <1>9, <1>10

LEMMA Concatenation ==
    ASSUME NEW l \in Seq(Event), NEW m \in Seq(Event)
    PROVE  l \o m \in Seq(Event) /\ Len(l \o m) = Len(l) + Len(m)
OBVIOUS

\* A turn: the snakes that play move, and after the last one the players who left
\* are forgotten.
LEMMA TickType ==
    ASSUME TypeOK, NEW step \in [Playing(players) -> Steps], TickWith(step)
    PROVE  /\ PlayersType(players')
           /\ events' \in Seq(Event)
           /\ last_event_no' = Len(events')
           /\ taken_fields' \subseteq Fields
           /\ started' \in BOOLEAN
           /\ started' => /\ DOMAIN players' = DOMAIN players
                          /\ \A c \in DOMAIN players :
                                players'[c].disconnected = players[c].disconnected
           /\ ~started' =>
                 /\ DOMAIN players' = {c \in DOMAIN players : ~players[c].disconnected}
                 /\ \A c \in DOMAIN players' : ~players'[c].disconnected
<1>. DEFINE P == Playing(players)
            field == [c \in P |-> MovedTo(players[c].field, step[c])]
            moved == {c \in P : field[c] # players[c].field}
            Out == Eliminated(moved, field, taken_fields)
            ps == [c \in DOMAIN players |->
                     IF c \in P
                     THEN [players[c] EXCEPT !.field = field[c], !.plays = c \notin Out]
                     ELSE players[c]]
            over == TooFew(ps)
            no == last_event_no + Cardinality(moved)
            moves == MoveEvents(last_event_no, moved, players, field, Out)
            final == IF over THEN <<[no |-> no, type |-> "GAME_OVER"]>> ELSE <<>>
<1>1. /\ taken_fields' = taken_fields \cup TakenBy(moved, field, Out)
      /\ events' = events \o moves \o final
      /\ last_event_no' = IF over THEN no + 1 ELSE no
      /\ players' = IF over THEN AfterGame(ps) ELSE ps
      /\ started' = ~over
  BY DEF TickWith
<1>2. /\ PlayersType(players)
      /\ events \in Seq(Event) /\ Len(events) \in Nat /\ last_event_no = Len(events)
      /\ taken_fields \subseteq Fields
  BY DEF TypeOK, PlayersType
<1>3. /\ P \subseteq DOMAIN players /\ P \in SUBSET Session
      /\ moved \in SUBSET Session /\ moved \subseteq DOMAIN players
      /\ Cardinality(moved) \in Nat
  BY <1>2, NamedAreSessions, SubsetsAreFinite
<1>4. \A c \in P : field[c] \in Int \X Int
  <2>. SUFFICES ASSUME NEW c \in P PROVE field[c] \in Int \X Int
    OBVIOUS
  <2>1. players[c].field \in Int \X Int
    BY <1>2, <1>3 DEF PlayersType, Player
  <2>2. step[c] \in Int \X Int
    BY ServerAssumption
  <2>. QED
    BY <2>1, <2>2 DEF MovedTo
<1>5. \A c \in moved : c \notin Out => field[c] \in Fields
  BY <1>4, NotEliminated
<1>. HIDE DEF P, field, Out
<1>6. /\ PlayersType(ps) /\ DOMAIN ps = DOMAIN players
      /\ \A c \in DOMAIN players : ps[c].disconnected = players[c].disconnected
  <2>. SUFFICES ASSUME NEW c \in DOMAIN players
                PROVE  /\ ps[c] \in Player
                       /\ ps[c].disconnected = players[c].disconnected
    BY <1>2 DEF PlayersType
  <2>1. players[c] \in Player
    BY <1>2 DEF PlayersType
  <2>2. (c \notin Out) \in BOOLEAN
    OBVIOUS
  <2>. QED
    BY <2>1, <2>2, <1>4 DEF Player
<1>7. moves \in Seq(Event) /\ Len(moves) = Cardinality(moved)
  BY <1>2, <1>3, <1>4, <1>5, MoveEventsType
<1>. HIDE DEF moves, moved, ps
<1>8. over \in BOOLEAN
  BY DEF TooFew
<1>9. final \in Seq(Event) /\ Len(final) = IF over THEN 1 ELSE 0
  <2>1. [no |-> no, type |-> "GAME_OVER"] \in Event
    BY <1>2, <1>3 DEF Event
  <2>2. CASE over
    BY <2>1, <2>2
  <2>3. CASE ~over
    BY <2>3
  <2>. QED
    BY <2>2, <2>3
<1>. HIDE DEF final, over
<1>10. events' \in Seq(Event) /\ last_event_no' = Len(events')
  <2>1. events \o moves \in Seq(Event) /\ Len(events \o moves) = Len(events) + Len(moves)
    BY <1>2, <1>7
  <2>2. /\ events' \in Seq(Event)
        /\ Len(events') = Len(events) + Len(moves) + Len(final)
    BY <2>1, <1>1, <1>9, Concatenation
  <2>. QED
    BY <2>2, <1>1, <1>2, <1>3, <1>7, <1>8, <1>9
<1>11. taken_fields' \subseteq Fields
  BY <1>1, <1>2, <1>5 DEF TakenBy
<1>12. PlayersType(AfterGame(ps))
       /\ DOMAIN AfterGame(ps) = {c \in DOMAIN players : ~players[c].disconnected}
       /\ \A c \in DOMAIN AfterGame(ps) : ~AfterGame(ps)[c].disconnected
  <2>1. DOMAIN AfterGame(ps) = {c \in DOMAIN players : ~players[c].disconnected}
    BY <1>6 DEF AfterGame
  <2>2. ASSUME NEW c \in DOMAIN AfterGame(ps)
        PROVE  AfterGame(ps)[c] \in Player /\ ~AfterGame(ps)[c].disconnected
    <3>1. AfterGame(ps)[c] = [ps[c] EXCEPT !.plays = FALSE, !.ready = FALSE,
                                           !.turn_direction = 0]
      BY DEF AfterGame
    <3>2. ps[c] \in Player /\ ~ps[c].disconnected
      BY <1>6, <2>1 DEF PlayersType
    <3>. QED
      BY <3>1, <3>2 DEF Player
  <2>. QED
    BY <2>1, <2>2, <1>2 DEF PlayersType
<1>. QED
  BY <1>1, <1>6, <1>8, <1>10, <1>11, <1>12

-----------------------------------------------------------------------------
(* The inductive invariant. *)

\* During a game the players without a client are those marked disconnected; this
\* is what makes the tables agree again when game_over_event forgets them.
DisconnectedAreGone ==
    running => \A c \in DOMAIN players : players[c].disconnected <=> c \notin clients

IInv == TypeOK /\ TablesAgree /\ GameIdsAgree /\ DisconnectedAreGone

LEMMA InitIInv == Init => IInv
<1>. SUFFICES ASSUME Init PROVE IInv
  OBVIOUS
<1>1. TypeOK
  <2>1. DOMAIN server_msgs = {} /\ DOMAIN players = {}
    BY DEF Init
  <2>2. events \in Seq(Event) /\ last_event_no = Len(events)
    BY DEF Init
  <2>3. game_id \in 0 .. MaxGames /\ ticks \in 0 .. MaxTicks
    BY ServerAssumption DEF Init
  <2>4. /\ clients = {} /\ client_times = {} /\ taken_fields = {}
        /\ started \in BOOLEAN /\ running \in BOOLEAN
    BY DEF Init
  <2>. QED
    BY <2>1, <2>2, <2>3, <2>4 DEF TypeOK
<1>2. TablesAgree /\ GameIdsAgree /\ DisconnectedAreGone
  BY DEF Init, TablesAgree, GameIdsAgree, DisconnectedAreGone
<1>. QED
  BY <1>1, <1>2 DEF IInv

LEMMA RefreshIInv ==
    ASSUME IInv, NEW C \in SUBSET client_times, RefreshClients(C)
    PROVE  IInv'
<1>. USE DEF IInv
<1>1. /\ running /\ running' = running
      /\ clients' = clients \ C
      /\ client_times' = client_times \ C
      /\ DOMAIN server_msgs' = DOMAIN server_msgs \ C
      /\ \A c \in DOMAIN server_msgs' : server_msgs'[c] = server_msgs[c]
      /\ players' = PlayersWithout(C)
      /\ events' = events /\ started' = started /\ game_id' = game_id
      /\ last_event_no' = last_event_no /\ taken_fields' = taken_fields
      /\ ticks' = ticks
  BY DEF RefreshClients, RemoveClients, Restrict
<1>2. /\ DOMAIN players' = IF started THEN DOMAIN players ELSE DOMAIN players \ C
      /\ \A c \in DOMAIN players' :
            /\ players'[c] \in Player
            /\ players'[c].disconnected =
                  (players[c].disconnected \/ (started /\ c \in C))
  <2>1. CASE started
    <3>1. players' = [c \in DOMAIN players |->
                        [players[c] EXCEPT !.disconnected = @ \/ c \in C]]
      BY <1>1, <2>1 DEF PlayersWithout
    <3>. SUFFICES ASSUME NEW c \in DOMAIN players
                  PROVE  /\ players'[c] \in Player
                         /\ players'[c].disconnected = (players[c].disconnected \/ c \in C)
      BY <2>1, <3>1
    <3>2. players[c] \in Player
      BY DEF TypeOK
    <3>3. (players[c].disconnected \/ c \in C) \in BOOLEAN
      OBVIOUS
    <3>. QED
      BY <3>1, <3>2, <3>3 DEF Player
  <2>2. CASE ~started
    <3>1. players' = [c \in DOMAIN players \ C |-> players[c]]
      BY <1>1, <2>2 DEF PlayersWithout, Restrict
    <3>. SUFFICES ASSUME NEW c \in DOMAIN players \ C
                  PROVE  /\ players'[c] \in Player
                         /\ players'[c].disconnected = players[c].disconnected
      BY <2>2, <3>1 DEF TypeOK, Player
    <3>. QED
      BY <3>1 DEF TypeOK
  <2>. QED
    BY <2>1, <2>2 DEF TypeOK
<1>3. TypeOK'
  BY <1>1, <1>2 DEF TypeOK
<1>4. TablesAgree'
  BY <1>1, <1>2 DEF TablesAgree
<1>5. GameIdsAgree'
  BY <1>1 DEF GameIdsAgree
<1>6. DisconnectedAreGone'
  <2>. SUFFICES ASSUME NEW c \in DOMAIN players'
                PROVE  players'[c].disconnected <=> c \notin clients'
    BY <1>1 DEF DisconnectedAreGone
  <2>1. c \in DOMAIN players /\ (players[c].disconnected <=> c \notin clients)
    BY <1>1, <1>2 DEF DisconnectedAreGone
  <2>. QED
    BY <1>1, <1>2, <2>1
<1>. QED
  BY <1>3, <1>4, <1>5, <1>6

\* The tables after the first half of handle_incoming_data: if send_reply will find
\* the connection, all three hold it.
LEMMA JoinedTables ==
    ASSUME IInv, running, NEW c \in Session
    PROVE  /\ ClientsWith(c) \subseteq Session
           /\ DOMAIN MsgsWith(c) \subseteq Session
           /\ DOMAIN MsgsWith(c) = ClientsWith(c)
           /\ \A d \in DOMAIN MsgsWith(c) : MsgsWith(c)[d] = game_id
           /\ ClientsWith(c) = clients \cup (IF Joins(c) THEN {c} ELSE {})
<1>. USE DEF IInv
<1>1. /\ clients = DOMAIN server_msgs /\ clients \subseteq Session
      /\ \A d \in DOMAIN server_msgs : server_msgs[d] = game_id
  BY DEF TablesAgree, TypeOK, GameIdsAgree
<1>2. CASE Joins(c)
  <2>1. ClientsWith(c) = clients \cup {c} /\ MsgsWith(c) = Put(server_msgs, c, game_id)
    BY <1>2 DEF ClientsWith, MsgsWith
  <2>2. /\ DOMAIN MsgsWith(c) = DOMAIN server_msgs \cup {c}
        /\ \A d \in DOMAIN MsgsWith(c) : MsgsWith(c)[d] = game_id
    BY <2>1, <1>1 DEF Put
  <2>. QED
    BY <1>1, <1>2, <2>1, <2>2
<1>3. CASE ~Joins(c)
  BY <1>1, <1>3 DEF ClientsWith, MsgsWith
<1>. QED
  BY <1>2, <1>3

\* The players after set_turn_direction: the client's player exists and is not
\* disconnected, unless the connection is unknown.
LEMMA JoinedPlayers ==
    ASSUME IInv, running, NEW c \in Session, NEW turn \in Turns
    PROVE  LET ps == SetTurn(PlayersWith(c), c, turn)
           IN  /\ PlayersType(ps)
               /\ DOMAIN ps = DOMAIN players \cup {c}
               /\ c \in ClientsWith(c) =>
                     \A d \in DOMAIN ps : ps[d].disconnected <=> d \notin ClientsWith(c)
<1>. USE DEF IInv
<1>. DEFINE qs == PlayersWith(c)
            ps == SetTurn(qs, c, turn)
<1>1. PlayersType(players)
  BY DEF TypeOK, PlayersType
<1>2. /\ PlayersType(qs)
      /\ DOMAIN qs = DOMAIN players \cup (IF Joins(c) THEN {c} ELSE {})
      /\ Joins(c) => ~qs[c].disconnected
      /\ \A d \in DOMAIN players : ~(Joins(c) /\ d = c) => qs[d] = players[d]
  BY <1>1, PlayersWithType
<1>. HIDE DEF qs
<1>3. /\ PlayersType(ps)
      /\ DOMAIN ps = DOMAIN qs \cup {c}
      /\ \A d \in DOMAIN qs : ps[d].disconnected = qs[d].disconnected
  BY <1>2, SetTurnType
<1>. HIDE DEF ps
<1>4. DOMAIN ps = DOMAIN players \cup {c}
  BY <1>2, <1>3
<1>5. ASSUME c \in ClientsWith(c), NEW d \in DOMAIN ps
      PROVE  ps[d].disconnected <=> d \notin ClientsWith(c)
  <2>1. ClientsWith(c) = clients \cup (IF Joins(c) THEN {c} ELSE {})
    BY JoinedTables
  <2>2. /\ clients \subseteq DOMAIN players
        /\ \A e \in DOMAIN players : players[e].disconnected <=> e \notin clients
    BY DEF TablesAgree, DisconnectedAreGone
  <2>3. CASE Joins(c) /\ d = c
    BY <2>1, <2>3, <1>2, <1>3
  <2>4. CASE ~(Joins(c) /\ d = c)
    <3>1. d \in DOMAIN players
      BY <2>1, <2>2, <2>4, <1>4, <1>5
    <3>2. ps[d].disconnected = players[d].disconnected
      BY <3>1, <2>4, <1>2, <1>3
    <3>. QED
      BY <3>1, <3>2, <2>1, <2>2, <2>4
  <2>. QED
    BY <2>3, <2>4
<1>. QED
  BY <1>3, <1>4, <1>5 DEF ps, qs

LEMMA MessageIInv ==
    ASSUME IInv, NEW c \in Session, NEW turn \in Turns, HandleMessage(c, turn)
    PROVE  IInv'
<1>. USE DEF IInv
<1>. DEFINE ps == SetTurn(PlayersWith(c), c, turn)
<1>1. /\ running
      /\ clients' = ClientsWith(c)
      /\ client_times' = client_times \cup {c}
      /\ server_msgs' = MsgsWith(c)
      /\ players' = ps
      /\ running' = (c \in DOMAIN MsgsWith(c))
      /\ events' = events /\ started' = started /\ game_id' = game_id
      /\ last_event_no' = last_event_no /\ taken_fields' = taken_fields
      /\ ticks' = ticks
  BY DEF HandleMessage
<1>2. /\ ClientsWith(c) \subseteq Session
      /\ DOMAIN MsgsWith(c) \subseteq Session
      /\ DOMAIN MsgsWith(c) = ClientsWith(c)
      /\ \A d \in DOMAIN MsgsWith(c) : MsgsWith(c)[d] = game_id
      /\ ClientsWith(c) = clients \cup (IF Joins(c) THEN {c} ELSE {})
  BY <1>1, JoinedTables
<1>3. /\ PlayersType(ps)
      /\ DOMAIN ps = DOMAIN players \cup {c}
      /\ c \in ClientsWith(c) =>
            \A d \in DOMAIN ps : ps[d].disconnected <=> d \notin ClientsWith(c)
  BY <1>1, JoinedPlayers
<1>. HIDE DEF ps
<1>4. TypeOK'
  BY <1>1, <1>2, <1>3 DEF TypeOK, PlayersType
<1>5. TablesAgree'
  BY <1>1, <1>2, <1>3 DEF TablesAgree
<1>6. GameIdsAgree' /\ DisconnectedAreGone'
  BY <1>1, <1>2, <1>3 DEF GameIdsAgree, DisconnectedAreGone
<1>. QED
  BY <1>4, <1>5, <1>6

LEMMA LastReadyIInv ==
    ASSUME IInv, NEW c \in Session, NEW turn \in Turns, HandleLastReady(c, turn)
    PROVE  IInv'
<1>. USE DEF IInv
<1>. DEFINE ps == SetTurn(PlayersWith(c), c, turn)
<1>1. PICK C \in SUBSET ClientsWith(c) :
         LET left == Restrict(ps, DOMAIN ps \ C) IN
         /\ clients' = ClientsWith(c) \ C
         /\ client_times' = (client_times \cup {c}) \ C
         /\ server_msgs' = [d \in DOMAIN MsgsWith(c) \ C |-> game_id + 1]
         /\ \E field \in [Named(left) -> StartFields] : StartGame(left, field)
         /\ running' = (c \in DOMAIN MsgsWith(c) \ C)
  BY DEF HandleLastReady
<1>2. running /\ ~started /\ ticks' = 0 /\ game_id < MaxGames
  BY DEF HandleLastReady, CanStart
<1>3. /\ ClientsWith(c) \subseteq Session
      /\ DOMAIN MsgsWith(c) \subseteq Session
      /\ DOMAIN MsgsWith(c) = ClientsWith(c)
      /\ ClientsWith(c) = clients \cup (IF Joins(c) THEN {c} ELSE {})
  BY <1>2, JoinedTables
<1>4. /\ PlayersType(ps)
      /\ DOMAIN ps = DOMAIN players \cup {c}
      /\ c \in ClientsWith(c) =>
            \A d \in DOMAIN ps : ps[d].disconnected <=> d \notin ClientsWith(c)
  BY <1>2, JoinedPlayers
<1>. HIDE DEF ps
<1>. DEFINE left == Restrict(ps, DOMAIN ps \ C)
<1>5. PlayersType(left) /\ DOMAIN left = DOMAIN ps \ C
      /\ \A d \in DOMAIN left : left[d] = ps[d]
  BY <1>4 DEF Restrict, PlayersType
<1>6. PICK field \in [Named(left) -> StartFields] : StartGame(left, field)
  BY <1>1
<1>. HIDE DEF left
<1>7. /\ PlayersType(players')
      /\ DOMAIN players' = DOMAIN left
      /\ \A d \in DOMAIN left : players'[d].disconnected = left[d].disconnected
      /\ events' \in Seq(Event)
      /\ last_event_no' = Len(events')
      /\ taken_fields' \subseteq Fields
      /\ started' = TRUE
      /\ game_id' = game_id + 1
  BY <1>5, <1>6, StartGameType
<1>8. TypeOK'
  <2>1. game_id' \in 0 .. MaxGames /\ ticks' \in 0 .. MaxTicks
    BY <1>2, <1>7, ServerAssumption DEF TypeOK
  <2>2. clients' \subseteq Session /\ client_times' \subseteq Session
    BY <1>1, <1>3 DEF TypeOK
  <2>3. /\ DOMAIN server_msgs' \subseteq Session
        /\ \A d \in DOMAIN server_msgs' : server_msgs'[d] \in 0 .. MaxGames
    BY <1>1, <1>3, <1>7, <2>1
  <2>4. running' \in BOOLEAN
    BY <1>1
  <2>. QED
    BY <1>7, <2>1, <2>2, <2>3, <2>4 DEF TypeOK, PlayersType
<1>9. TablesAgree'
  <2>1. clients = client_times
    BY <1>2 DEF TablesAgree
  <2>2. ASSUME running'
        PROVE  /\ clients' = client_times'
               /\ clients' = DOMAIN server_msgs'
               /\ clients' \subseteq DOMAIN players'
    <3>1. c \in ClientsWith(c)
      BY <1>1, <1>3, <2>2
    <3>2. clients \subseteq DOMAIN players
      BY <1>2 DEF TablesAgree
    <3>. QED
      BY <1>1, <1>3, <1>4, <1>5, <1>7, <2>1, <3>1, <3>2
  <2>. QED
    BY <1>7, <2>2 DEF TablesAgree
<1>10. GameIdsAgree'
  BY <1>1, <1>7 DEF GameIdsAgree
<1>11. DisconnectedAreGone'
  <2>. SUFFICES ASSUME running', NEW d \in DOMAIN players'
                PROVE  players'[d].disconnected <=> d \notin clients'
    BY DEF DisconnectedAreGone
  <2>1. c \in ClientsWith(c)
    BY <1>1, <1>3
  <2>2. d \in DOMAIN ps /\ d \notin C /\ players'[d].disconnected = ps[d].disconnected
    BY <1>5, <1>7
  <2>. QED
    BY <1>1, <1>4, <2>1, <2>2
<1>. QED
  BY <1>8, <1>9, <1>10, <1>11

LEMMA TickIInv ==
    ASSUME IInv, Tick
    PROVE  IInv'
<1>. USE DEF IInv
<1>1. PICK step \in [Playing(players) -> Steps] : TickWith(step)
  BY DEF Tick
<1>2. /\ running /\ running' = running /\ started /\ game_id' = game_id
      /\ clients' = clients /\ client_times' = client_times
      /\ server_msgs' = server_msgs /\ ticks < MaxTicks /\ ticks' = ticks + 1
  BY DEF Tick, connections
<1>3. /\ PlayersType(players')
      /\ events' \in Seq(Event)
      /\ last_event_no' = Len(events')
      /\ taken_fields' \subseteq Fields
      /\ started' \in BOOLEAN
      /\ started' => /\ DOMAIN players' = DOMAIN players
                     /\ \A c \in DOMAIN players :
                           players'[c].disconnected = players[c].disconnected
      /\ ~started' =>
            /\ DOMAIN players' = {c \in DOMAIN players : ~players[c].disconnected}
            /\ \A c \in DOMAIN players' : ~players'[c].disconnected
  BY <1>1, TickType
<1>4. ticks' \in 0 .. MaxTicks
  BY <1>2, ServerAssumption DEF TypeOK
<1>5. TypeOK'
  BY <1>2, <1>3, <1>4 DEF TypeOK, PlayersType
<1>6. /\ clients = client_times /\ clients = DOMAIN server_msgs
      /\ clients \subseteq DOMAIN players
      /\ \A c \in DOMAIN players : players[c].disconnected <=> c \notin clients
  BY <1>2 DEF TablesAgree, DisconnectedAreGone
<1>7. TablesAgree' /\ DisconnectedAreGone'
  <2>1. CASE started'
    BY <2>1, <1>2, <1>3, <1>6 DEF TablesAgree, DisconnectedAreGone
  <2>2. CASE ~started'
    BY <2>2, <1>2, <1>3, <1>6 DEF TablesAgree, DisconnectedAreGone
  <2>. QED
    BY <2>1, <2>2
<1>8. GameIdsAgree'
  BY <1>2 DEF GameIdsAgree
<1>. QED
  BY <1>5, <1>7, <1>8

LEMMA NextIInv == IInv /\ [Next]_vars => IInv'
<1>. SUFFICES ASSUME IInv, [Next]_vars PROVE IInv'
  OBVIOUS
<1>1. ASSUME NEW C \in SUBSET client_times, RefreshClients(C) PROVE IInv'
  BY <1>1, RefreshIInv
<1>2. ASSUME NEW c \in Session, NEW turn \in Turns, HandleMessage(c, turn) PROVE IInv'
  BY <1>2, MessageIInv
<1>3. ASSUME NEW c \in Session, NEW turn \in Turns, HandleLastReady(c, turn) PROVE IInv'
  BY <1>3, LastReadyIInv
<1>4. CASE Tick
  BY <1>4, TickIInv
<1>5. CASE UNCHANGED vars
  BY <1>5 DEF vars, connections, game, IInv, TypeOK, TablesAgree, GameIdsAgree,
              DisconnectedAreGone
<1>. QED
  BY <1>1, <1>2, <1>3, <1>4, <1>5 DEF Next

\* The strengthened invariant holds in every state of the server.
THEOREM ServerInvariant == Spec => []IInv
BY InitIInv, NextIInv, PTL DEF Spec

\* Every field of the server and of its game keeps its type; the log is as long as
\* last_event_no says and no snake has left a trail outside the board.
THEOREM ServerTypes == Spec => []TypeOK
<1>. IInv => TypeOK
  BY DEF IInv
<1>. QED
  BY ServerInvariant, PTL

\* As long as the server runs, clients, client_times, server_msgs and the players
\* of the game are of the same connections (remove_client, handle_new_client,
\* game_over_event).
THEOREM TablesStayInStep == Spec => []TablesAgree
<1>. IInv => TablesAgree
  BY DEF IInv
<1>. QED
  BY ServerInvariant, PTL

\* Every message manager sends the id of the game whose log it sends.
THEOREM GameIdsStayInStep == Spec => []GameIdsAgree
<1>. IInv => GameIdsAgree
  BY DEF IInv
<1>. QED
  BY ServerInvariant, PTL

-----------------------------------------------------------------------------
(* The parts of the invariant, of a log l. *)

PixelsIn(l) == {i \in 1 .. Len(l) : l[i].type = "PIXEL"}
OutsIn(l)   == {i \in 1 .. Len(l) : l[i].type = "PLAYER_ELIMINATED"}
GoneFrom(l) == {l[i].number : i \in OutsIn(l)}

TrailOf(l, taken) ==
    /\ taken = {l[i].field : i \in PixelsIn(l)}
    /\ \A i, j \in PixelsIn(l) : i # j => l[i].field # l[j].field

ForGood(l) ==
    \A i \in OutsIn(l) : \A j \in i + 1 .. Len(l) :
        l[j].type # "GAME_OVER" => l[j].number # l[i].number

\* Opened by NEW_GAME, moves from the second event up to event n, numbered from 0.
WellWritten(l, n) ==
    /\ Len(l) > 0 /\ l[1].type = "NEW_GAME"
    /\ \A i \in 2 .. n : l[i].type \in {"PIXEL", "PLAYER_ELIMINATED"}
    /\ \A i \in 1 .. Len(l) : l[i].no = i - 1

\* The numbers of the players in P are their places in the list of names; no two
\* have the same, and nobody has been eliminated under one of them.
NumbersOf(P, ps, l) ==
    \A c \in P : /\ ps[c].number < Len(l[1].players)
                 /\ l[1].players[ps[c].number + 1] = ps[c].name
                 /\ ps[c].number \notin GoneFrom(l)
                 /\ \A d \in P : ps[c].number = ps[d].number => c = d

\* A connection plays under the name it sends, or observes.
NamesKept(ps) ==
    \A c \in DOMAIN ps : /\ ps[c].name \in {NoName, NameOf[c]}
                         /\ ps[c].plays => ps[c].name # NoName

LInv ==
    /\ IInv
    /\ TrailOf(events, taken_fields)
    /\ ForGood(events)
    /\ NamesKept(players)
    /\ started => /\ WellWritten(events, Len(events))
                  /\ NumbersOf(Playing(players), players, events)

\* What holds besides when no two sessions share a socket.
OneSessionEach == \A c, d \in Session : SocketOf[c] = SocketOf[d] => c = d

NamesDiffer(ps) == \A c, d \in Named(ps) : ps[c].name = ps[d].name => c = d

AInv == LInv /\ NamesDiffer(players) /\ LogTellsWhoPlays

-----------------------------------------------------------------------------
(* A log that is continued. *)

LEMMA RankInjective ==
    ASSUME NEW S \in SUBSET Session, NEW c \in S, NEW d \in S, Rank(S, c) = Rank(S, d)
    PROVE  c = d
<1>. SUFFICES ASSUME c # d PROVE FALSE
  OBVIOUS
<1>1. c < d \/ d < c
  BY ServerAssumption
<1>2. Rank(S, c) \in Int /\ Rank(S, d) \in Int
  BY RankInRange, SubsetsAreFinite
<1>. QED
  BY <1>1, <1>2, RankIncreases

\* The events of a turn are one of each player who moves; who[i] is the i-th.
Reports(E, no, S, ps, field, Out, who) ==
    /\ E \in Seq(Event)
    /\ who \in [1 .. Len(E) -> S]
    /\ \A i \in 1 .. Len(E) :
          E[i] = MoveEvent(no + i - 1, ps[who[i]].number, field[who[i]], who[i] \in Out)
    /\ \A i, j \in 1 .. Len(E) : who[i] = who[j] => i = j
    /\ \A c \in S : \E i \in 1 .. Len(E) : who[i] = c

LEMMA MovesReport ==
    ASSUME NEW no \in Nat, NEW ps, PlayersType(ps), NEW S \in SUBSET DOMAIN ps,
           NEW field, NEW Out,
           \A c \in S : field[c] \in Int \X Int,
           \A c \in S : c \notin Out => field[c] \in Fields
    PROVE  \E who : Reports(MoveEvents(no, S, ps, field, Out), no, S, ps, field, Out, who)
<1>. DEFINE E == MoveEvents(no, S, ps, field, Out)
            n == Cardinality(S)
            who == [i \in 1 .. n |-> Nth(S, i - 1)]
<1>1. S \in SUBSET Session /\ n \in Nat
  BY SubsetsAreFinite DEF PlayersType
<1>2. E \in Seq(Event) /\ Len(E) = n
  BY MoveEventsType
<1>3. \A i \in 1 .. n : who[i] \in S /\ Rank(S, who[i]) = i - 1
  <2>. SUFFICES ASSUME NEW i \in 1 .. n
                PROVE  Nth(S, i - 1) \in S /\ Rank(S, Nth(S, i - 1)) = i - 1
    OBVIOUS
  <2>1. i - 1 \in 0 .. Cardinality(S) - 1
    BY <1>1
  <2>. QED
    BY <2>1, <1>1, NthIsMember
<1>4. \A i \in 1 .. n :
         E[i] = MoveEvent(no + i - 1, ps[who[i]].number, field[who[i]], who[i] \in Out)
  BY DEF MoveEvents
<1>5. \A i, j \in 1 .. n : who[i] = who[j] => i = j
  <2>. SUFFICES ASSUME NEW i \in 1 .. n, NEW j \in 1 .. n, who[i] = who[j] PROVE i = j
    OBVIOUS
  <2>1. Rank(S, who[i]) = i - 1 /\ Rank(S, who[j]) = j - 1
    BY <1>3
  <2>. QED
    BY <2>1, <1>1
<1>6. \A c \in S : \E i \in 1 .. n : who[i] = c
  <2>. SUFFICES ASSUME NEW c \in S PROVE \E i \in 1 .. n : who[i] = c
    OBVIOUS
  <2>1. Rank(S, c) \in 0 .. n - 1
    BY <1>1, RankInRange
  <2>2. Rank(S, c) + 1 \in 1 .. n
    BY <2>1, <1>1
  <2>3. who[Rank(S, c) + 1] \in S /\ Rank(S, who[Rank(S, c) + 1]) = Rank(S, c)
    BY <2>1, <2>2, <1>3
  <2>. QED
    BY <2>2, <2>3, <1>1, RankInjective
<1>. HIDE DEF E
<1>7. who \in [1 .. n -> S]
  BY <1>3
<1>. HIDE DEF who, n
<1>8. Reports(E, no, S, ps, field, Out, who)
  BY <1>2, <1>3, <1>4, <1>5, <1>6, <1>7 DEF Reports
<1>. QED
  BY <1>8 DEF E

\* Where the events of l \o m come from.
LEMMA Continued ==
    ASSUME NEW l \in Seq(Event), NEW m \in Seq(Event)
    PROVE  /\ \A i \in 1 .. Len(l) : i \in 1 .. Len(l \o m) /\ (l \o m)[i] = l[i]
           /\ \A i \in 1 .. Len(m) : /\ Len(l) + i \in 1 .. Len(l \o m)
                                     /\ (l \o m)[Len(l) + i] = m[i]
           /\ \A k \in 1 .. Len(l \o m) :
                 \/ k \in 1 .. Len(l)
                 \/ \E i \in 1 .. Len(m) : k = Len(l) + i
<1>1. Len(l) \in Nat /\ Len(m) \in Nat /\ Len(l \o m) = Len(l) + Len(m)
  OBVIOUS
<1>2. \A i \in 1 .. Len(l) : (l \o m)[i] = l[i]
  OBVIOUS
<1>3. \A i \in 1 .. Len(m) : (l \o m)[Len(l) + i] = m[i]
  OBVIOUS
<1>4. ASSUME NEW k \in 1 .. Len(l \o m), k \notin 1 .. Len(l)
      PROVE  \E i \in 1 .. Len(m) : k = Len(l) + i
  <2>1. k - Len(l) \in 1 .. Len(m) /\ k = Len(l) + (k - Len(l))
    BY <1>1, <1>4
  <2>. QED
    BY <2>1
<1>5. /\ \A i \in 1 .. Len(l) : i \in 1 .. Len(l \o m)
      /\ \A i \in 1 .. Len(m) : Len(l) + i \in 1 .. Len(l \o m)
  BY <1>1
<1>6. \A k \in 1 .. Len(l \o m) :
         \/ k \in 1 .. Len(l)
         \/ \E i \in 1 .. Len(m) : k = Len(l) + i
  BY <1>4
<1>. QED
  BY <1>2, <1>3, <1>5, <1>6

LEMMA ReportedEvent ==
    ASSUME NEW E, NEW no \in Nat, NEW S, NEW ps, NEW field, NEW Out, NEW who,
           Reports(E, no, S, ps, field, Out, who), NEW i \in 1 .. Len(E)
    PROVE  /\ who[i] \in S
           /\ E[i].no = no + i - 1
           /\ E[i].number = ps[who[i]].number
           /\ E[i].type = IF who[i] \in Out THEN "PLAYER_ELIMINATED" ELSE "PIXEL"
           /\ who[i] \notin Out => E[i].field = field[who[i]]
<1>1. /\ who[i] \in S
      /\ E[i] = MoveEvent(no + i - 1, ps[who[i]].number, field[who[i]], who[i] \in Out)
  BY DEF Reports
<1>2. CASE who[i] \in Out
  BY <1>1, <1>2 DEF MoveEvent
<1>3. CASE who[i] \notin Out
  BY <1>1, <1>3 DEF MoveEvent
<1>. QED
  BY <1>1, <1>2, <1>3

\* The events that l \o E has besides those of l.
LEMMA ReportsAppend ==
    ASSUME NEW l \in Seq(Event), NEW E, NEW no \in Nat, NEW S, NEW ps, NEW field,
           NEW Out, NEW who, Reports(E, no, S, ps, field, Out, who)
    PROVE  /\ l \o E \in Seq(Event)
           /\ PixelsIn(l \o E) = PixelsIn(l)
                 \cup {Len(l) + i : i \in {i \in 1 .. Len(E) : who[i] \notin Out}}
           /\ OutsIn(l \o E) = OutsIn(l)
                 \cup {Len(l) + i : i \in {i \in 1 .. Len(E) : who[i] \in Out}}
           /\ \A i \in 1 .. Len(l) : i \in 1 .. Len(l \o E) /\ (l \o E)[i] = l[i]
           /\ \A i \in 1 .. Len(E) : /\ Len(l) + i \in 1 .. Len(l \o E)
                                     /\ (l \o E)[Len(l) + i] = E[i]
           /\ \A k \in 1 .. Len(l \o E) :
                 k \in 1 .. Len(l) \/ \E i \in 1 .. Len(E) : k = Len(l) + i
<1>. DEFINE m == l \o E
<1>1. E \in Seq(Event) /\ m \in Seq(Event)
  BY DEF Reports
<1>2. /\ \A i \in 1 .. Len(l) : i \in 1 .. Len(m) /\ m[i] = l[i]
      /\ \A i \in 1 .. Len(E) : Len(l) + i \in 1 .. Len(m) /\ m[Len(l) + i] = E[i]
      /\ \A k \in 1 .. Len(m) :
            k \in 1 .. Len(l) \/ \E i \in 1 .. Len(E) : k = Len(l) + i
  BY <1>1, Continued
<1>3. \A i \in 1 .. Len(E) :
         E[i].type = IF who[i] \in Out THEN "PLAYER_ELIMINATED" ELSE "PIXEL"
  BY ReportedEvent
<1>. HIDE DEF m
<1>6. ASSUME NEW i \in 1 .. Len(l)
      PROVE  /\ i \in PixelsIn(m) <=> i \in PixelsIn(l)
             /\ i \in OutsIn(m) <=> i \in OutsIn(l)
  BY <1>2 DEF PixelsIn, OutsIn
<1>7. ASSUME NEW i \in 1 .. Len(E)
      PROVE  /\ Len(l) + i \in PixelsIn(m) <=> who[i] \notin Out
             /\ Len(l) + i \in OutsIn(m) <=> who[i] \in Out
  <2>1. /\ Len(l) + i \in 1 .. Len(m)
        /\ m[Len(l) + i].type = IF who[i] \in Out THEN "PLAYER_ELIMINATED" ELSE "PIXEL"
    BY <1>2, <1>3
  <2>. QED
    BY <2>1 DEF PixelsIn, OutsIn
<1>8. /\ PixelsIn(m) \subseteq 1 .. Len(m) /\ OutsIn(m) \subseteq 1 .. Len(m)
      /\ PixelsIn(l) \subseteq 1 .. Len(l) /\ OutsIn(l) \subseteq 1 .. Len(l)
  BY DEF PixelsIn, OutsIn
<1>4. PixelsIn(m) = PixelsIn(l)
         \cup {Len(l) + i : i \in {i \in 1 .. Len(E) : who[i] \notin Out}}
  BY <1>2, <1>6, <1>7, <1>8
<1>5. OutsIn(m) = OutsIn(l)
         \cup {Len(l) + i : i \in {i \in 1 .. Len(E) : who[i] \in Out}}
  BY <1>2, <1>6, <1>7, <1>8
<1>. QED
  BY <1>1, <1>2, <1>4, <1>5 DEF m

LEMMA OutsAppend ==
    ASSUME NEW l \in Seq(Event), NEW E \in Seq(Event), NEW Late \in SUBSET (1 .. Len(E)),
           \A i \in 1 .. Len(E) : E[i].type = "PLAYER_ELIMINATED" <=> i \in Late
    PROVE  OutsIn(l \o E) = OutsIn(l) \cup {Len(l) + i : i \in Late}
<1>. DEFINE m == l \o E
<1>1. /\ \A i \in 1 .. Len(l) : i \in 1 .. Len(m) /\ m[i] = l[i]
      /\ \A i \in 1 .. Len(E) : Len(l) + i \in 1 .. Len(m) /\ m[Len(l) + i] = E[i]
      /\ \A k \in 1 .. Len(m) :
            k \in 1 .. Len(l) \/ \E i \in 1 .. Len(E) : k = Len(l) + i
  BY Continued
<1>. HIDE DEF m
<1>2. \A i \in 1 .. Len(l) : i \in OutsIn(m) <=> i \in OutsIn(l)
  BY <1>1 DEF OutsIn
<1>3. \A i \in 1 .. Len(E) : Len(l) + i \in OutsIn(m) <=> i \in Late
  BY <1>1 DEF OutsIn
<1>4. OutsIn(m) \subseteq 1 .. Len(m) /\ OutsIn(l) \subseteq 1 .. Len(l)
  BY DEF OutsIn
<1>. QED
  BY <1>1, <1>2, <1>3, <1>4 DEF m

\* pixel_event and check_player_position: a new pixel is on a field nobody had.
LEMMA TrailGrows ==
    ASSUME NEW l \in Seq(Event), NEW taken, TrailOf(l, taken),
           NEW E, NEW no \in Nat, NEW S \in SUBSET Session, NEW ps, NEW field, NEW who,
           Reports(E, no, S, ps, field, Eliminated(S, field, taken), who)
    PROVE  TrailOf(l \o E, taken \cup TakenBy(S, field, Eliminated(S, field, taken)))
<1>. DEFINE Out == Eliminated(S, field, taken)
            m == l \o E
            New == {i \in 1 .. Len(E) : who[i] \notin Out}
<1>1. /\ PixelsIn(m) = PixelsIn(l) \cup {Len(l) + i : i \in New}
      /\ \A i \in 1 .. Len(l) : m[i] = l[i]
      /\ \A i \in 1 .. Len(E) : m[Len(l) + i] = E[i]
  BY ReportsAppend
<1>2. ASSUME NEW i \in New PROVE who[i] \in S /\ E[i].field = field[who[i]]
  <2>1. i \in 1 .. Len(E) /\ who[i] \notin Out
    OBVIOUS
  <2>2. Reports(E, no, S, ps, field, Out, who)
    OBVIOUS
  <2>. HIDE DEF Out
  <2>3. /\ who[i] \in S
        /\ E[i] = MoveEvent(no + i - 1, ps[who[i]].number, field[who[i]], who[i] \in Out)
    BY <2>1, <2>2, Zenon DEF Reports
  <2>. QED
    BY <2>1, <2>3 DEF MoveEvent
<1>3. \A c \in S \ Out : \E i \in New : who[i] = c
  BY DEF Reports
<1>4. \A i, j \in New : i # j => who[i] # who[j]
  BY DEF Reports
<1>5. \A c \in S \ Out : field[c] \notin taken
  BY DEF Eliminated
<1>6. \A c, d \in S \ Out : c # d => field[c] # field[d]
  <2>. SUFFICES ASSUME NEW c \in S \ Out, NEW d \in S \ Out, c # d
                PROVE  field[c] # field[d]
    OBVIOUS
  <2>1. c < d \/ d < c
    BY ServerAssumption
  <2>. QED
    BY <2>1 DEF Eliminated
<1>. HIDE DEF Out, m
<1>7. PixelsIn(l) \subseteq 1 .. Len(l)
  BY DEF PixelsIn
<1>8. \A i \in PixelsIn(l) : m[i] = l[i] /\ l[i].field \in taken
  BY <1>1, <1>7 DEF TrailOf
<1>9. \A i \in New : /\ m[Len(l) + i].field = field[who[i]]
                     /\ who[i] \in S \ Out
  BY <1>1, <1>2
<1>. HIDE DEF New
<1>10. {m[i].field : i \in PixelsIn(m)} = taken \cup TakenBy(S, field, Out)
  <2>1. {m[i].field : i \in PixelsIn(l)} = taken
    BY <1>8 DEF TrailOf
  <2>2. {m[Len(l) + i].field : i \in New} = TakenBy(S, field, Out)
    BY <1>9, <1>3 DEF TakenBy
  <2>. QED
    BY <1>1, <2>1, <2>2
<1>11. ASSUME NEW i \in PixelsIn(m), NEW j \in PixelsIn(m), i # j
       PROVE  m[i].field # m[j].field
  <2>1. CASE i \in PixelsIn(l) /\ j \in PixelsIn(l)
    BY <2>1, <1>8, <1>11 DEF TrailOf
  <2>2. ASSUME NEW a \in PixelsIn(l), NEW b \in New
        PROVE  m[a].field # m[Len(l) + b].field
    BY <1>5, <1>8, <1>9
  <2>3. ASSUME NEW a \in New, NEW b \in New, a # b
        PROVE  m[Len(l) + a].field # m[Len(l) + b].field
    BY <2>3, <1>4, <1>6, <1>9
  <2>. QED
    BY <2>1, <2>2, <2>3, <1>1, <1>11
<1>. QED
  BY <1>10, <1>11 DEF TrailOf, Out, m

LEMMA GoneGrows ==
    ASSUME NEW l \in Seq(Event), NEW E, NEW no \in Nat, NEW S, NEW ps, NEW field,
           NEW Out, NEW who, Reports(E, no, S, ps, field, Out, who)
    PROVE  GoneFrom(l \o E) = GoneFrom(l) \cup {ps[c].number : c \in {c \in S : c \in Out}}
<1>. DEFINE m == l \o E
            New == {i \in 1 .. Len(E) : who[i] \in Out}
<1>1. /\ OutsIn(m) = OutsIn(l) \cup {Len(l) + i : i \in New}
      /\ \A i \in 1 .. Len(l) : m[i] = l[i]
      /\ \A i \in 1 .. Len(E) : m[Len(l) + i] = E[i]
  BY ReportsAppend
<1>2. \A i \in New : who[i] \in S /\ who[i] \in Out /\ E[i].number = ps[who[i]].number
  BY ReportedEvent
<1>3. \A c \in S : c \in Out => \E i \in New : who[i] = c
  BY DEF Reports
<1>4. \A i \in OutsIn(l) : m[i] = l[i]
  BY <1>1 DEF OutsIn
<1>5. \A i \in New : m[Len(l) + i].number = ps[who[i]].number
  BY <1>1, <1>2
<1>. HIDE DEF m, New
<1>6. {m[i].number : i \in OutsIn(l)} = GoneFrom(l)
  BY <1>4 DEF GoneFrom
<1>7. {m[Len(l) + i].number : i \in New} = {ps[c].number : c \in {c \in S : c \in Out}}
  BY <1>2, <1>3, <1>5
<1>8. GoneFrom(m) = {m[i].number : i \in OutsIn(l)} \cup {m[Len(l) + i].number : i \in New}
  BY <1>1 DEF GoneFrom
<1>. QED
  BY <1>6, <1>7, <1>8 DEF m

\* Nobody who moves has been eliminated before, and nobody moves twice in a turn.
LEMMA ForGoodGrows ==
    ASSUME NEW l \in Seq(Event), ForGood(l),
           NEW E, NEW no \in Nat, NEW S, NEW ps, NEW field, NEW Out, NEW who,
           Reports(E, no, S, ps, field, Out, who),
           \A c \in S : ps[c].number \notin GoneFrom(l),
           \A c, d \in S : ps[c].number = ps[d].number => c = d
    PROVE  ForGood(l \o E)
<1>. DEFINE m == l \o E
            New == {i \in 1 .. Len(E) : who[i] \in Out}
<1>1. /\ OutsIn(m) = OutsIn(l) \cup {Len(l) + i : i \in New}
      /\ \A i \in 1 .. Len(l) : m[i] = l[i]
      /\ \A i \in 1 .. Len(E) : m[Len(l) + i] = E[i]
      /\ \A k \in 1 .. Len(m) :
            k \in 1 .. Len(l) \/ \E i \in 1 .. Len(E) : k = Len(l) + i
  <2>1. Reports(E, no, S, ps, field, Out, who)
    OBVIOUS
  <2>2. OutsIn(m) = OutsIn(l) \cup {Len(l) + i : i \in New}
    <3>1. E \in Seq(Event) /\ New \in SUBSET (1 .. Len(E))
      BY <2>1 DEF Reports
    <3>2. \A i \in 1 .. Len(E) : E[i].type = "PLAYER_ELIMINATED" <=> i \in New
      BY <2>1, ReportedEvent, SMTT(60)
    <3>. HIDE DEF New
    <3>. QED
      BY <3>1, <3>2, OutsAppend
  <2>3. E \in Seq(Event)
    BY <2>1 DEF Reports
  <2>4. /\ \A i \in 1 .. Len(l) : m[i] = l[i]
        /\ \A i \in 1 .. Len(E) : m[Len(l) + i] = E[i]
        /\ \A k \in 1 .. Len(m) :
              k \in 1 .. Len(l) \/ \E i \in 1 .. Len(E) : k = Len(l) + i
    BY <2>3, Continued
  <2>. QED
    BY <2>2, <2>4
<1>2. \A i \in 1 .. Len(E) : who[i] \in S /\ E[i].number = ps[who[i]].number
  BY ReportedEvent, SMTT(60)
<1>3. \A i, j \in 1 .. Len(E) : who[i] = who[j] => i = j
  BY DEF Reports
<1>4. Len(l) \in Nat /\ Len(E) \in Nat
  BY DEF Reports
<1>. HIDE DEF m
<1>5. ASSUME NEW i \in OutsIn(m), NEW j \in i + 1 .. Len(m),
             m[j].type # "GAME_OVER", m[j].number = m[i].number
      PROVE  FALSE
  <2>1. OutsIn(l) \subseteq 1 .. Len(l)
    BY DEF OutsIn
  <2>2. i \in Nat \ {0} /\ j \in 1 .. Len(m)
    BY <1>1, <1>4, <2>1
  <2>3. CASE i \in OutsIn(l) /\ j \in 1 .. Len(l)
    <3>1. j \in i + 1 .. Len(l) /\ m[i] = l[i] /\ m[j] = l[j]
      BY <1>1, <2>1, <2>3
    <3>. QED
      BY <3>1, <2>3, <1>5 DEF ForGood
  <2>4. ASSUME i \in OutsIn(l), NEW b \in 1 .. Len(E), j = Len(l) + b PROVE FALSE
    <3>1. m[i].number \in GoneFrom(l)
      BY <1>1, <2>1, <2>4 DEF GoneFrom
    <3>2. m[j].number = ps[who[b]].number /\ who[b] \in S
      BY <1>1, <1>2, <2>4
    <3>. QED
      BY <3>1, <3>2, <1>5
  <2>5. ASSUME NEW a \in New, i = Len(l) + a, NEW b \in 1 .. Len(E), j = Len(l) + b
        PROVE  FALSE
    <3>1. a # b
      BY <2>5, <1>4
    <3>2. /\ m[i].number = ps[who[a]].number /\ who[a] \in S
          /\ m[j].number = ps[who[b]].number /\ who[b] \in S
      BY <1>1, <1>2, <2>5
    <3>. QED
      BY <3>1, <3>2, <1>3, <1>5
  <2>6. ASSUME NEW a \in New, i = Len(l) + a, j \in 1 .. Len(l) PROVE FALSE
    BY <2>6, <1>4
  <2>. QED
    BY <1>1, <2>2, <2>3, <2>4, <2>5, <2>6
<1>. QED
  BY <1>5 DEF ForGood, m

\* The numbers of events go on, and only moves are added.
LEMMA WellWrittenGrows ==
    ASSUME NEW l \in Seq(Event), WellWritten(l, Len(l)),
           NEW E, NEW S, NEW ps, NEW field, NEW Out, NEW who,
           Reports(E, Len(l), S, ps, field, Out, who)
    PROVE  WellWritten(l \o E, Len(l \o E))
<1>. DEFINE m == l \o E
<1>1. Len(l) \in Nat /\ Len(E) \in Nat /\ Len(m) = Len(l) + Len(E)
  BY DEF Reports
<1>2. /\ \A i \in 1 .. Len(l) : m[i] = l[i]
      /\ \A i \in 1 .. Len(E) : m[Len(l) + i] = E[i]
      /\ \A k \in 1 .. Len(m) :
            k \in 1 .. Len(l) \/ \E i \in 1 .. Len(E) : k = Len(l) + i
  BY <1>1, ReportsAppend
<1>3. \A i \in 1 .. Len(E) : /\ E[i].no = Len(l) + i - 1
                             /\ E[i].type \in {"PIXEL", "PLAYER_ELIMINATED"}
  BY <1>1, ReportedEvent
<1>. HIDE DEF m
<1>4. Len(m) > 0 /\ m[1].type = "NEW_GAME"
  BY <1>1, <1>2 DEF WellWritten
<1>5. ASSUME NEW i \in 1 .. Len(m)
      PROVE  /\ i > 1 => m[i].type \in {"PIXEL", "PLAYER_ELIMINATED"}
             /\ m[i].no = i - 1
  <2>1. CASE i \in 1 .. Len(l)
    <3>1. m[i] = l[i] /\ l[i].no = i - 1
      BY <2>1, <1>2 DEF WellWritten
    <3>2. i > 1 => i \in 2 .. Len(l)
      BY <2>1, <1>1
    <3>. QED
      BY <3>1, <3>2 DEF WellWritten
  <2>2. ASSUME NEW k \in 1 .. Len(E), i = Len(l) + k
        PROVE  m[i].no = i - 1 /\ m[i].type \in {"PIXEL", "PLAYER_ELIMINATED"}
    <3>1. m[i] = E[k]
      BY <2>2, <1>2
    <3>2. E[k].no = Len(l) + k - 1 /\ E[k].type \in {"PIXEL", "PLAYER_ELIMINATED"}
      BY <1>3
    <3>. QED
      BY <2>2, <3>1, <3>2, <1>1
  <2>. QED
    BY <2>1, <2>2, <1>2
<1>6. \A i \in 2 .. Len(m) : i \in 1 .. Len(m) /\ i > 1
  BY <1>1
<1>. QED
  BY <1>4, <1>5, <1>6 DEF WellWritten, m

\* GAME_OVER concerns no player.
LEMMA GameOverAdded ==
    ASSUME NEW l \in Seq(Event), NEW n \in Nat
    PROVE  LET m == l \o <<[no |-> n, type |-> "GAME_OVER"]>> IN
           /\ PixelsIn(m) = PixelsIn(l) /\ OutsIn(m) = OutsIn(l)
           /\ Len(m) = Len(l) + 1
           /\ \A i \in 1 .. Len(l) : m[i] = l[i]
           /\ m[Len(m)] = [no |-> n, type |-> "GAME_OVER"]
<1>. DEFINE m == l \o <<[no |-> n, type |-> "GAME_OVER"]>>
<1>1. /\ Len(m) = Len(l) + 1 /\ Len(l) \in Nat
      /\ \A i \in 1 .. Len(l) : m[i] = l[i]
      /\ m[Len(m)] = [no |-> n, type |-> "GAME_OVER"]
  OBVIOUS
<1>. HIDE DEF m
<1>2. \A i \in 1 .. Len(m) : i \in 1 .. Len(l) \/ m[i].type = "GAME_OVER"
  BY <1>1
<1>3. 1 .. Len(l) \subseteq 1 .. Len(m)
  BY <1>1
<1>4. PixelsIn(m) = PixelsIn(l)
  BY <1>1, <1>2, <1>3 DEF PixelsIn
<1>5. OutsIn(m) = OutsIn(l)
  BY <1>1, <1>2, <1>3 DEF OutsIn
<1>. QED
  BY <1>1, <1>4, <1>5 DEF m

-----------------------------------------------------------------------------
(* The steps. *)

LEMMA InitLInv == Init => LInv
<1>. SUFFICES ASSUME Init PROVE LInv
  OBVIOUS
<1>1. IInv
  BY InitIInv
<1>2. events = <<>> /\ taken_fields = {} /\ started = FALSE /\ players = <<>>
  BY DEF Init
<1>3. PixelsIn(events) = {} /\ OutsIn(events) = {}
  BY <1>2 DEF PixelsIn, OutsIn
<1>4. TrailOf(events, taken_fields) /\ ForGood(events)
  BY <1>2, <1>3 DEF TrailOf, ForGood
<1>5. NamesKept(players)
  BY <1>2 DEF NamesKept
<1>. QED
  BY <1>1, <1>2, <1>4, <1>5 DEF LInv

\* A handler that leaves the log alone and takes nobody into the game keeps what
\* the log says.
LEMMA SameLog ==
    ASSUME LInv, IInv', events' = events, taken_fields' = taken_fields,
           started' = started, NamesKept(players'),
           started => \A c \in Playing(players') :
                         /\ c \in Playing(players)
                         /\ players'[c].number = players[c].number
                         /\ players'[c].name = players[c].name
    PROVE  LInv'
<1>1. TrailOf(events, taken_fields)' /\ ForGood(events)'
  BY DEF LInv
<1>2. ASSUME started'
      PROVE  /\ WellWritten(events, Len(events))'
             /\ NumbersOf(Playing(players'), players', events')
  <2>1. WellWritten(events, Len(events)) /\ NumbersOf(Playing(players), players, events)
    BY <1>2 DEF LInv
  <2>2. NumbersOf(Playing(players'), players', events)
    BY <2>1, <1>2 DEF NumbersOf
  <2>. QED
    BY <2>1, <2>2
<1>. QED
  BY <1>1, <1>2 DEF LInv

LEMMA RefreshNames ==
    ASSUME TypeOK, NEW C, RefreshClients(C)
    PROVE  /\ DOMAIN players' \subseteq DOMAIN players
           /\ \A c \in DOMAIN players' :
                 /\ players'[c].name = players[c].name
                 /\ players'[c].number = players[c].number
                 /\ players'[c].plays = players[c].plays
<1>1. players' = PlayersWithout(C)
  BY DEF RefreshClients
<1>2. CASE started
  <2>1. players' = [c \in DOMAIN players |->
                      [players[c] EXCEPT !.disconnected = @ \/ c \in C]]
    BY <1>1, <1>2 DEF PlayersWithout
  <2>2. \A c \in DOMAIN players : players[c] \in Player
    BY DEF TypeOK
  <2>. QED
    BY <2>1, <2>2 DEF Player
<1>3. CASE ~started
  BY <1>1, <1>3 DEF PlayersWithout, Restrict
<1>. QED
  BY <1>2, <1>3 DEF TypeOK

LEMMA RefreshLInv ==
    ASSUME LInv, NEW C \in SUBSET client_times, RefreshClients(C)
    PROVE  LInv'
<1>1. IInv' /\ TypeOK
  BY RefreshIInv DEF LInv, IInv
<1>2. events' = events /\ taken_fields' = taken_fields /\ started' = started
  BY DEF RefreshClients
<1>3. NamesKept(players')
  BY <1>1, RefreshNames DEF NamesKept, LInv
<1>4. \A c \in Playing(players') : /\ c \in Playing(players)
                                  /\ players'[c].number = players[c].number
                                  /\ players'[c].name = players[c].name
  BY <1>1, RefreshNames DEF Playing
<1>. QED
  BY <1>1, <1>2, <1>3, <1>4, SameLog

\* After a datagram of c every player but c is what it was, and c is too or is new.
SameOrNew(ps, c) ==
    /\ DOMAIN ps = DOMAIN players \cup {c}
    /\ \A d \in DOMAIN ps :
          \/ /\ d \in DOMAIN players
             /\ ps[d].name = players[d].name
             /\ ps[d].number = players[d].number
             /\ ps[d].plays = players[d].plays
          \/ /\ d = c /\ ps[d].plays = FALSE
             /\ \/ Joins(c) /\ ps[d].name = NameOf[c]
                \/ c \notin DOMAIN players /\ ps[d].name = NoName
    /\ \A d \in DOMAIN players : d # c \/ ~Joins(c) =>
          /\ ps[d].name = players[d].name
          /\ ps[d].number = players[d].number
          /\ ps[d].plays = players[d].plays

LEMMA MessageNames ==
    ASSUME PlayersType(players), NEW c \in Session, NEW turn \in Turns
    PROVE  SameOrNew(SetTurn(PlayersWith(c), c, turn), c)
<1>. DEFINE qs == PlayersWith(c)
            p == IF c \in DOMAIN qs THEN qs[c] ELSE NewPlayer(NoName)
            q == [p EXCEPT !.turn_direction = turn,
                           !.ready = @ \/ (turn # 0 /\ p.name # NoName)]
            ps == SetTurn(qs, c, turn)
<1>1. /\ PlayersType(qs)
      /\ DOMAIN qs = DOMAIN players \cup (IF Joins(c) THEN {c} ELSE {})
      /\ \A d \in DOMAIN players : ~(Joins(c) /\ d = c) => qs[d] = players[d]
  BY PlayersWithType
<1>2. Joins(c) => qs[c] = NewPlayer(NameOf[c])
  BY DEF PlayersWith, Put
<1>. HIDE DEF qs
<1>3. p \in Player
  BY <1>1, NewPlayerType DEF PlayersType, NoName
<1>. HIDE DEF p
<1>4. q.name = p.name /\ q.number = p.number /\ q.plays = p.plays
  BY <1>3 DEF Player
<1>. HIDE DEF q
<1>5. ps = Put(qs, c, q)
  BY DEF SetTurn, p, q
<1>. HIDE DEF ps
<1>6. /\ DOMAIN ps = DOMAIN qs \cup {c} /\ ps[c] = q
      /\ \A d \in DOMAIN qs : d # c => ps[d] = qs[d]
  BY <1>5 DEF Put
<1>7. Joins(c) => p = NewPlayer(NameOf[c])
  BY <1>1, <1>2 DEF p
<1>8. ~Joins(c) /\ c \in DOMAIN players => p = players[c]
  BY <1>1 DEF p
<1>9. ~Joins(c) /\ c \notin DOMAIN players => p = NewPlayer(NoName)
  BY <1>1 DEF p
<1>10. \A n : NewPlayer(n).name = n /\ NewPlayer(n).plays = FALSE
  BY DEF NewPlayer
<1>. QED
  BY <1>1, <1>4, <1>6, <1>7, <1>8, <1>9, <1>10 DEF ps, qs, SameOrNew

LEMMA MessageNamesKept ==
    ASSUME PlayersType(players), NamesKept(players), NEW c \in Session, NEW turn \in Turns
    PROVE  NamesKept(SetTurn(PlayersWith(c), c, turn))
<1>. DEFINE ps == SetTurn(PlayersWith(c), c, turn)
<1>1. SameOrNew(ps, c)
  BY MessageNames
<1>. HIDE DEF ps
<1>2. NamesKept(ps)
  BY <1>1 DEF NamesKept, SameOrNew
<1>. QED
  BY <1>2 DEF ps

LEMMA MessageLInv ==
    ASSUME LInv, NEW c \in Session, NEW turn \in Turns, HandleMessage(c, turn)
    PROVE  LInv'
<1>. DEFINE ps == SetTurn(PlayersWith(c), c, turn)
<1>1. IInv' /\ PlayersType(players) /\ NamesKept(players)
  BY MessageIInv DEF LInv, IInv, TypeOK, PlayersType
<1>2. events' = events /\ taken_fields' = taken_fields /\ started' = started /\ players' = ps
  BY DEF HandleMessage
<1>3. NamesKept(players')
  BY <1>1, <1>2, MessageNamesKept
<1>4. SameOrNew(ps, c)
  BY <1>1, MessageNames
<1>. HIDE DEF ps
<1>5. \A d \in Playing(players') : /\ d \in Playing(players)
                                  /\ players'[d].number = players[d].number
                                  /\ players'[d].name = players[d].name
  BY <1>2, <1>4 DEF Playing, SameOrNew
<1>. QED
  BY <1>1, <1>2, <1>3, <1>5, SameLog

\* A turn, before game_over_event if it was the last: m is the log and ps are the
\* players after the moves.
Turn(m, ps) ==
    /\ m \in Seq(Event)
    /\ events' = IF started' THEN m ELSE m \o <<[no |-> Len(m), type |-> "GAME_OVER"]>>
    /\ players' = IF started' THEN ps ELSE AfterGame(ps)
    /\ Len(events) <= Len(m)
    /\ \A i \in 1 .. Len(events) : m[i] = events[i]
    /\ TrailOf(m, taken_fields') /\ ForGood(m) /\ WellWritten(m, Len(m))
    /\ PlayersType(ps) /\ DOMAIN ps = DOMAIN players
    /\ \A c \in DOMAIN ps : /\ ps[c].name = players[c].name
                            /\ ps[c].number = players[c].number
    /\ Playing(ps) \subseteq Playing(players)
    /\ GoneFrom(m) = GoneFrom(events)
          \cup {players[c].number : c \in Playing(players) \ Playing(ps)}
    /\ started' \in BOOLEAN
    /\ started' <=> ~TooFew(ps)

LEMMA TickTurn ==
    ASSUME LInv, started, NEW step \in [Playing(players) -> Steps], TickWith(step)
    PROVE  \E m, ps : Turn(m, ps)
<1>. DEFINE P == Playing(players)
            field == [c \in P |-> MovedTo(players[c].field, step[c])]
            moved == {c \in P : field[c] # players[c].field}
            Out == Eliminated(moved, field, taken_fields)
            ps == [c \in DOMAIN players |->
                     IF c \in P
                     THEN [players[c] EXCEPT !.field = field[c], !.plays = c \notin Out]
                     ELSE players[c]]
            over == TooFew(ps)
            no == last_event_no + Cardinality(moved)
            E == MoveEvents(last_event_no, moved, players, field, Out)
            m == events \o E
<1>1. /\ taken_fields' = taken_fields \cup TakenBy(moved, field, Out)
      /\ events' = m \o (IF over THEN <<[no |-> no, type |-> "GAME_OVER"]>> ELSE <<>>)
      /\ players' = IF over THEN AfterGame(ps) ELSE ps
      /\ started' = ~over
  BY DEF TickWith
<1>2. /\ PlayersType(players)
      /\ events \in Seq(Event) /\ Len(events) \in Nat /\ last_event_no = Len(events)
  BY DEF LInv, IInv, TypeOK, PlayersType
<1>3. /\ P \subseteq DOMAIN players /\ P \in SUBSET Session
      /\ moved \in SUBSET Session /\ moved \in SUBSET DOMAIN players /\ moved \subseteq P
      /\ Cardinality(moved) \in Nat
  BY <1>2, NamedAreSessions, SubsetsAreFinite
<1>4. \A c \in P : field[c] \in Int \X Int
  <2>. SUFFICES ASSUME NEW c \in P PROVE field[c] \in Int \X Int
    OBVIOUS
  <2>1. players[c].field \in Int \X Int
    BY <1>2, <1>3 DEF PlayersType, Player
  <2>2. step[c] \in Int \X Int
    BY ServerAssumption
  <2>. QED
    BY <2>1, <2>2 DEF MovedTo
<1>5. \A c \in moved : c \notin Out => field[c] \in Fields
  BY <1>4, NotEliminated
<1>6. Out \subseteq moved
  BY DEF Eliminated
<1>7. Len(E) = Cardinality(moved)
  <2>1. \A c \in moved : field[c] \in Int \X Int
    BY <1>3, <1>4
  <2>. HIDE DEF field, moved, Out
  <2>. QED
    BY <1>2, <1>3, <1>5, <2>1, MoveEventsType
<1>8. PICK who : Reports(E, Len(events), moved, players, field, Out, who)
  BY <1>2, <1>3, <1>4, <1>5, MovesReport
<1>9. TrailOf(m, taken_fields')
  <2>1. TrailOf(events, taken_fields)
    BY DEF LInv
  <2>2. Reports(E, Len(events), moved, players, field,
                Eliminated(moved, field, taken_fields), who)
    BY <1>8
  <2>. HIDE DEF E, field, moved
  <2>. QED
    BY <1>1, <1>2, <1>3, <2>1, <2>2, TrailGrows
<1>10. /\ WellWritten(events, Len(events))
       /\ NumbersOf(P, players, events)
  BY DEF LInv
<1>. HIDE DEF E, Out, field, moved, P
<1>11. ForGood(m)
  <2>1. \A c \in moved : players[c].number \notin GoneFrom(events)
    BY <1>3, <1>10 DEF NumbersOf
  <2>2. \A c, d \in moved : players[c].number = players[d].number => c = d
    BY <1>3, <1>10 DEF NumbersOf
  <2>3. ForGood(events)
    BY DEF LInv
  <2>. QED
    BY <1>2, <1>8, <2>1, <2>2, <2>3, ForGoodGrows
<1>12. WellWritten(m, Len(m))
  BY <1>2, <1>8, <1>10, WellWrittenGrows
<1>13. /\ m \in Seq(Event) /\ Len(m) = Len(events) + Len(E)
       /\ Len(E) \in Nat
       /\ \A i \in 1 .. Len(events) : m[i] = events[i]
  <2>1. E \in Seq(Event)
    BY <1>8 DEF Reports
  <2>. QED
    BY <1>2, <2>1
<1>14. /\ PlayersType(ps) /\ DOMAIN ps = DOMAIN players
       /\ \A c \in DOMAIN ps : /\ ps[c].name = players[c].name
                               /\ ps[c].number = players[c].number
                               /\ ps[c].plays = (c \in P /\ c \notin Out)
  <2>. SUFFICES ASSUME NEW c \in DOMAIN players
                PROVE  /\ ps[c] \in Player
                       /\ ps[c].name = players[c].name
                       /\ ps[c].number = players[c].number
                       /\ ps[c].plays = (c \in P /\ c \notin Out)
    BY <1>2 DEF PlayersType
  <2>1. players[c] \in Player
    BY <1>2 DEF PlayersType
  <2>2. (c \notin Out) \in BOOLEAN
    OBVIOUS
  <2>3. CASE c \in P
    BY <2>1, <2>2, <2>3, <1>4 DEF Player
  <2>4. CASE c \notin P
    <3>1. players[c].plays = FALSE
      BY <2>1, <2>4 DEF P, Playing, Player
    <3>. QED
      BY <3>1, <2>1, <2>4
  <2>. QED
    BY <2>3, <2>4
<1>. HIDE DEF ps
<1>15. Playing(ps) = P \ Out
  BY <1>3, <1>14 DEF Playing
<1>16. GoneFrom(m) = GoneFrom(events)
          \cup {players[c].number : c \in P \ Playing(ps)}
  <2>1. GoneFrom(m) = GoneFrom(events)
           \cup {players[c].number : c \in {c \in moved : c \in Out}}
    BY <1>2, <1>8, GoneGrows
  <2>2. {c \in moved : c \in Out} = P \ Playing(ps)
    BY <1>3, <1>6, <1>15
  <2>. QED
    BY <2>1, <2>2
<1>17. over \in BOOLEAN
  BY DEF TooFew
<1>. HIDE DEF over
<1>18. /\ events' = IF started' THEN m
                    ELSE m \o <<[no |-> Len(m), type |-> "GAME_OVER"]>>
       /\ started' \in BOOLEAN
  <2>1. no = Len(m)
    BY <1>2, <1>7, <1>13
  <2>2. m \o <<>> = m
    BY <1>13
  <2>. QED
    BY <1>1, <1>17, <2>1, <2>2
<1>19. Turn(m, ps)
  BY <1>1, <1>9, <1>11, <1>12, <1>13, <1>14, <1>15, <1>16, <1>17, <1>18
     DEF Turn, over, P
<1>. QED
  BY <1>19

LEMMA TickLInv ==
    ASSUME LInv, Tick
    PROVE  LInv'
<1>1. PICK step \in [Playing(players) -> Steps] : TickWith(step)
  BY DEF Tick
<1>2. IInv' /\ started
  BY TickIInv DEF LInv, Tick
<1>3. PICK m, ps : Turn(m, ps)
  BY <1>1, <1>2, TickTurn
<1>. USE DEF Turn
<1>4. PlayersType(players) /\ NamesKept(players) /\ NumbersOf(Playing(players), players, events)
      /\ WellWritten(events, Len(events)) /\ events \in Seq(Event)
  BY <1>2 DEF LInv, IInv, TypeOK, PlayersType
<1>5. \A c \in DOMAIN ps : ps[c].plays => players[c].plays
  BY <1>3 DEF Playing
<1>6. NamesKept(ps)
  BY <1>3, <1>4, <1>5 DEF NamesKept
<1>7. CASE started'
  <2>1. m[1] = events[1]
    BY <1>3, <1>4 DEF WellWritten
  <2>2. Playing(players) \subseteq DOMAIN players /\ Playing(ps) \subseteq DOMAIN ps
    BY DEF Playing
  <2>3. \A c \in Playing(ps) : players[c].number \notin GoneFrom(m)
    BY <1>3, <1>4, <2>2 DEF NumbersOf
  <2>4. NumbersOf(Playing(ps), ps, m)
    BY <1>3, <1>4, <2>1, <2>2, <2>3 DEF NumbersOf
  <2>. QED
    BY <1>2, <1>3, <1>6, <1>7, <2>4 DEF LInv
<1>8. CASE ~started'
  <2>1. events' = m \o <<[no |-> Len(m), type |-> "GAME_OVER"]>> /\ players' = AfterGame(ps)
    BY <1>3, <1>8
  <2>2. /\ PixelsIn(events') = PixelsIn(m) /\ OutsIn(events') = OutsIn(m)
        /\ Len(events') = Len(m) + 1 /\ Len(m) \in Nat
        /\ \A i \in 1 .. Len(m) : events'[i] = m[i]
        /\ events'[Len(events')].type = "GAME_OVER"
    BY <1>3, <2>1, GameOverAdded
  <2>3. /\ PixelsIn(m) \subseteq 1 .. Len(m) /\ OutsIn(m) \subseteq 1 .. Len(m)
    BY DEF PixelsIn, OutsIn
  <2>4. TrailOf(events', taken_fields')
    BY <1>3, <2>2, <2>3 DEF TrailOf
  <2>5. ForGood(events')
    <3>. SUFFICES ASSUME NEW i \in OutsIn(m), NEW j \in i + 1 .. Len(events'),
                         events'[j].type # "GAME_OVER"
                  PROVE  events'[j].number # events'[i].number
      BY <2>2 DEF ForGood
    <3>1. j # Len(events')
      BY <2>2
    <3>2. i \in 1 .. Len(m) /\ j \in i + 1 .. Len(m) /\ j \in 1 .. Len(m)
      BY <2>2, <2>3, <3>1
    <3>. QED
      BY <1>3, <2>2, <3>2 DEF ForGood
  <2>6. NamesKept(players')
    <3>1. \A c \in DOMAIN AfterGame(ps) :
             /\ c \in DOMAIN ps
             /\ AfterGame(ps)[c] = [ps[c] EXCEPT !.plays = FALSE, !.ready = FALSE,
                                                 !.turn_direction = 0]
      BY DEF AfterGame
    <3>2. \A c \in DOMAIN ps : ps[c] \in Player
      BY <1>3 DEF PlayersType
    <3>3. \A c \in DOMAIN AfterGame(ps) :
             AfterGame(ps)[c].name = ps[c].name /\ AfterGame(ps)[c].plays = FALSE
      BY <3>1, <3>2, ZenonT(60) DEF Player
    <3>. QED
      BY <2>1, <3>1, <3>3, <1>6 DEF NamesKept
  <2>. QED
    BY <1>2, <1>8, <2>4, <2>5, <2>6 DEF LInv
<1>. QED
  BY <1>7, <1>8

\* What game_start_event and start_game leave: everybody named has the number of
\* its place in the list of names, and plays unless its head fell on another's.
LEMMA GameStarts ==
    ASSUME NEW ps, PlayersType(ps), NamesKept(ps),
           NEW field \in [Named(ps) -> StartFields], StartGame(ps, field)
    PROVE  /\ TrailOf(events', taken_fields') /\ ForGood(events')
           /\ WellWritten(events', Len(events'))
           /\ NamesKept(players')
           /\ DOMAIN players' = DOMAIN ps
           /\ \A c \in DOMAIN ps : players'[c].name = ps[c].name
           /\ NumbersOf(Playing(players'), players', events')
           /\ (0 .. Len(events'[1].players) - 1) \ GoneFrom(events')
                  = {players'[c].number : c \in Playing(players')}
<1>. DEFINE S == Named(ps)
            Out == Eliminated(S, field, {})
            numbered == [c \in DOMAIN ps |->
                IF c \in S THEN [ps[c] EXCEPT !.number = NumberOf(ps, c)] ELSE ps[c]]
            new == [no |-> 0, type |-> "NEW_GAME", players |-> player_names(ps)]
            l == <<new>>
            E == MoveEvents(1, S, numbered, field, Out)
            m == l \o E
<1>1. /\ events' = m
      /\ taken_fields' = TakenBy(S, field, Out)
      /\ players' = [c \in DOMAIN ps |->
            IF c \in S THEN [numbered[c] EXCEPT !.plays = c \notin Out, !.field = field[c]]
            ELSE ps[c]]
  BY DEF StartGame
<1>2. S \subseteq DOMAIN ps /\ S \in SUBSET Session /\ Cardinality(S) \in Nat
  BY NamedAreSessions, SubsetsAreFinite
<1>3. \A c \in S : /\ field[c] \in Int \X Int
                   /\ Rank(S, c) \in 0 .. Cardinality(S) - 1
                   /\ NumberOf(ps, c) = Rank(S, c)
  <2>. SUFFICES ASSUME NEW c \in S
                PROVE  field[c] \in Int \X Int /\ Rank(S, c) \in 0 .. Cardinality(S) - 1
                       /\ NumberOf(ps, c) = Rank(S, c)
    OBVIOUS
  <2>1. field[c] \in StartFields
    OBVIOUS
  <2>2. Rank(S, c) \in 0 .. Cardinality(S) - 1
    BY <1>2, RankInRange
  <2>. QED
    BY <2>1, <2>2 DEF StartFields, NumberOf
<1>4. \A c \in S : c \notin Out => field[c] \in Fields
  BY <1>3, NotEliminated
<1>5. \A c, d \in S : Rank(S, c) = Rank(S, d) => c = d
  BY <1>2, RankInjective
<1>6. Out \subseteq S
  BY DEF Eliminated
<1>7. /\ new \in Event /\ l \in Seq(Event) /\ Len(l) = 1 /\ l[1] = new
  BY NamesType DEF Event
<1>8. /\ PixelsIn(l) = {} /\ OutsIn(l) = {}
  BY <1>7 DEF PixelsIn, OutsIn
<1>9. TrailOf(l, {}) /\ ForGood(l) /\ WellWritten(l, Len(l)) /\ GoneFrom(l) = {}
  BY <1>7, <1>8 DEF TrailOf, ForGood, WellWritten, GoneFrom
<1>10. /\ Len(player_names(ps)) = Cardinality(S)
       /\ \A c \in S : player_names(ps)[Rank(S, c) + 1] = ps[c].name
  <2>1. Len(player_names(ps)) = Cardinality(S)
    BY <1>2 DEF player_names
  <2>2. ASSUME NEW c \in S PROVE player_names(ps)[Rank(S, c) + 1] = ps[c].name
    <3>1. Nth(S, Rank(S, c)) \in S /\ Rank(S, Nth(S, Rank(S, c))) = Rank(S, c)
      BY <1>2, <1>3, NthIsMember
    <3>2. Nth(S, Rank(S, c)) = c
      BY <3>1, <1>5
    <3>3. PICK i \in 1 .. Cardinality(S) : i = Rank(S, c) + 1 /\ i - 1 = Rank(S, c)
      BY <1>2, <1>3
    <3>4. player_names(ps)[i] = ps[Nth(S, i - 1)].name
      BY DEF player_names
    <3>. QED
      BY <3>2, <3>3, <3>4
  <2>. QED
    BY <2>1, <2>2
<1>. HIDE DEF S, Out
<1>11. /\ PlayersType(numbered) /\ DOMAIN numbered = DOMAIN ps
       /\ \A c \in DOMAIN ps : /\ numbered[c].name = ps[c].name
                               /\ numbered[c].plays = ps[c].plays
       /\ \A c \in S : numbered[c].number = Rank(S, c)
  <2>. SUFFICES ASSUME NEW c \in DOMAIN ps
                PROVE  /\ numbered[c] \in Player
                       /\ numbered[c].name = ps[c].name
                       /\ numbered[c].plays = ps[c].plays
                       /\ c \in S => numbered[c].number = Rank(S, c)
    BY <1>2 DEF PlayersType
  <2>1. ps[c] \in Player
    BY DEF PlayersType
  <2>. QED
    BY <2>1, <1>2, <1>3 DEF Player
<1>12. S \in SUBSET DOMAIN numbered
  BY <1>2, <1>11
<1>. HIDE DEF numbered
<1>13. PICK who : Reports(E, 1, S, numbered, field, Out, who)
  BY <1>3, <1>4, <1>11, <1>12, MovesReport
<1>. HIDE DEF E, new, l
<1>14. TrailOf(m, taken_fields')
  <2>1. Reports(E, 1, S, numbered, field, Eliminated(S, field, {}), who)
    BY <1>13 DEF Out, S
  <2>2. TrailOf(m, {} \cup TakenBy(S, field, Eliminated(S, field, {})))
    BY <1>2, <1>7, <1>9, <2>1, TrailGrows
  <2>. QED
    BY <1>1, <2>2 DEF Out, S
<1>15. ForGood(m)
  <2>1. \A c \in S : numbered[c].number \notin GoneFrom(l)
    BY <1>9
  <2>2. \A c, d \in S : numbered[c].number = numbered[d].number => c = d
    BY <1>5, <1>11
  <2>. QED
    BY <1>7, <1>9, <1>13, <2>1, <2>2, ForGoodGrows
<1>16. WellWritten(m, Len(m))
  BY <1>7, <1>9, <1>13, WellWrittenGrows
<1>17. m[1] = new
  <2>1. E \in Seq(Event) /\ 1 \in 1 .. Len(l)
    BY <1>7, <1>13 DEF Reports
  <2>. QED
    BY <2>1, <1>7, Continued
<1>18. GoneFrom(m) = {Rank(S, c) : c \in Out}
  <2>1. GoneFrom(m) = GoneFrom(l) \cup {numbered[c].number : c \in {c \in S : c \in Out}}
    BY <1>7, <1>13, GoneGrows
  <2>2. {c \in S : c \in Out} = Out
    BY <1>6
  <2>. QED
    BY <2>1, <2>2, <1>6, <1>9, <1>11
<1>. HIDE DEF m
<1>19. /\ DOMAIN players' = DOMAIN ps
       /\ \A c \in DOMAIN ps :
             /\ players'[c].name = ps[c].name
             /\ players'[c].plays = IF c \in S THEN c \notin Out ELSE ps[c].plays
       /\ \A c \in S : players'[c].number = Rank(S, c)
  <2>. SUFFICES ASSUME NEW c \in DOMAIN ps
                PROVE  /\ players'[c].name = ps[c].name
                       /\ players'[c].plays = IF c \in S THEN c \notin Out ELSE ps[c].plays
                       /\ c \in S => players'[c].number = Rank(S, c)
    BY <1>1, <1>2
  <2>1. numbered[c] \in Player
    BY <1>11 DEF PlayersType
  <2>2. CASE c \in S
    <3>1. players'[c] = [numbered[c] EXCEPT !.plays = c \notin Out, !.field = field[c]]
      BY <1>1, <2>2
    <3>. QED
      BY <3>1, <2>1, <2>2, <1>11 DEF Player
  <2>3. CASE c \notin S
    BY <1>1, <2>3
  <2>. QED
    BY <2>2, <2>3
<1>20. Playing(players') = S \ Out
  <2>1. \A c \in DOMAIN ps : c \notin S => ~ps[c].plays
    <3>. SUFFICES ASSUME NEW c \in DOMAIN ps, c \notin S PROVE ~ps[c].plays
      OBVIOUS
    <3>1. ps[c].name = NoName
      BY DEF S, Named
    <3>. QED
      BY <3>1 DEF NamesKept
  <2>. QED
    BY <1>2, <1>19, <2>1 DEF Playing
<1>21. NamesKept(players')
  <2>. SUFFICES ASSUME NEW c \in DOMAIN ps
                PROVE  /\ players'[c].name \in {NoName, NameOf[c]}
                       /\ players'[c].plays => players'[c].name # NoName
    BY <1>19 DEF NamesKept
  <2>1. ps[c].name \in {NoName, NameOf[c]} /\ (ps[c].plays => ps[c].name # NoName)
    BY DEF NamesKept
  <2>2. c \in S => ps[c].name # NoName
    BY DEF S, Named
  <2>. QED
    BY <1>19, <2>1, <2>2
<1>22. m[1].players = player_names(ps)
  BY <1>17 DEF new
<1>23. NumbersOf(Playing(players'), players', m)
  <2>. SUFFICES ASSUME NEW c \in S \ Out
                PROVE  /\ players'[c].number < Len(m[1].players)
                       /\ m[1].players[players'[c].number + 1] = players'[c].name
                       /\ players'[c].number \notin GoneFrom(m)
                       /\ \A d \in S \ Out : players'[c].number = players'[d].number => c = d
    BY <1>20 DEF NumbersOf
  <2>1. players'[c].number < Len(m[1].players)
    BY <1>2, <1>3, <1>10, <1>19, <1>22
  <2>2. m[1].players[players'[c].number + 1] = players'[c].name
    BY <1>2, <1>10, <1>19, <1>22
  <2>3. players'[c].number \notin GoneFrom(m)
    BY <1>5, <1>6, <1>18, <1>19
  <2>. QED
    BY <2>1, <2>2, <2>3, <1>5, <1>19
<1>24. (0 .. Len(m[1].players) - 1) \ GoneFrom(m)
          = {players'[c].number : c \in Playing(players')}
  <2>1. 0 .. Cardinality(S) - 1 = {Rank(S, c) : c \in S}
    <3>. SUFFICES ASSUME NEW i \in 0 .. Cardinality(S) - 1
                  PROVE  \E c \in S : i = Rank(S, c)
      BY <1>3
    <3>. QED
      BY <1>2, NthIsMember
  <2>2. {Rank(S, c) : c \in S} \ {Rank(S, c) : c \in Out} = {Rank(S, c) : c \in S \ Out}
    BY <1>5, <1>6
  <2>3. {players'[c].number : c \in S \ Out} = {Rank(S, c) : c \in S \ Out}
    BY <1>19
  <2>. QED
    BY <2>1, <2>2, <2>3, <1>10, <1>18, <1>20, <1>22
<1>. QED
  BY <1>1, <1>14, <1>15, <1>16, <1>19, <1>21, <1>23, <1>24

LEMMA LastReadyStarts ==
    ASSUME LInv, NEW c \in Session, NEW turn \in Turns, HandleLastReady(c, turn)
    PROVE  \E ps : /\ PlayersType(ps) /\ NamesKept(ps)
                   /\ \E C : ps = Restrict(SetTurn(PlayersWith(c), c, turn),
                                           DOMAIN SetTurn(PlayersWith(c), c, turn) \ C)
                   /\ \E field \in [Named(ps) -> StartFields] : StartGame(ps, field)
<1>. DEFINE qs == SetTurn(PlayersWith(c), c, turn)
<1>1. PICK C : \E field \in [Named(Restrict(qs, DOMAIN qs \ C)) -> StartFields] :
                  StartGame(Restrict(qs, DOMAIN qs \ C), field)
  BY DEF HandleLastReady
<1>2. running
  BY DEF HandleLastReady
<1>3. PlayersType(players) /\ NamesKept(players) /\ IInv
  BY DEF LInv, IInv, TypeOK, PlayersType
<1>4. PlayersType(qs) /\ NamesKept(qs)
  BY <1>2, <1>3, JoinedPlayers, MessageNamesKept
<1>. HIDE DEF qs
<1>. DEFINE ps == Restrict(qs, DOMAIN qs \ C)
<1>5. DOMAIN ps = DOMAIN qs \ C /\ \A d \in DOMAIN ps : ps[d] = qs[d]
  BY DEF Restrict
<1>6. PICK field \in [Named(ps) -> StartFields] : StartGame(ps, field)
  BY <1>1
<1>7. ps = Restrict(qs, DOMAIN qs \ C)
  OBVIOUS
<1>. HIDE DEF ps
<1>8. PlayersType(ps) /\ NamesKept(ps)
  BY <1>4, <1>5 DEF PlayersType, NamesKept
<1>. QED
  BY <1>6, <1>7, <1>8 DEF qs

LEMMA LastReadyLInv ==
    ASSUME LInv, NEW c \in Session, NEW turn \in Turns, HandleLastReady(c, turn)
    PROVE  LInv'
<1>1. IInv'
  BY LastReadyIInv DEF LInv
<1>2. PICK ps : /\ PlayersType(ps) /\ NamesKept(ps)
                /\ \E field \in [Named(ps) -> StartFields] : StartGame(ps, field)
  BY LastReadyStarts
<1>3. PICK field \in [Named(ps) -> StartFields] : StartGame(ps, field)
  BY <1>2
<1>4. /\ TrailOf(events', taken_fields') /\ ForGood(events')
      /\ WellWritten(events', Len(events'))
      /\ NamesKept(players')
      /\ NumbersOf(Playing(players'), players', events')
  BY <1>2, <1>3, GameStarts
<1>. QED
  BY <1>1, <1>4 DEF LInv

LEMMA NextLInv == LInv /\ [Next]_vars => LInv'
<1>. SUFFICES ASSUME LInv, [Next]_vars PROVE LInv'
  OBVIOUS
<1>1. ASSUME NEW C \in SUBSET client_times, RefreshClients(C) PROVE LInv'
  BY <1>1, RefreshLInv
<1>2. ASSUME NEW c \in Session, NEW turn \in Turns, HandleMessage(c, turn) PROVE LInv'
  BY <1>2, MessageLInv
<1>3. ASSUME NEW c \in Session, NEW turn \in Turns, HandleLastReady(c, turn) PROVE LInv'
  BY <1>3, LastReadyLInv
<1>4. CASE Tick
  BY <1>4, TickLInv
<1>5. CASE UNCHANGED vars
  <2>1. IInv'
    BY <1>5, NextIInv DEF LInv
  <2>2. UNCHANGED <<events, taken_fields, players, started>>
    BY <1>5 DEF vars, game
  <2>. QED
    BY <2>1, <2>2 DEF LInv
<1>. QED
  BY <1>1, <1>2, <1>3, <1>4, <1>5 DEF Next

-----------------------------------------------------------------------------
(* The log and the players, when no two sessions share a socket. *)

LEMMA InitAInv == Init => AInv
<1>. SUFFICES ASSUME Init PROVE AInv
  OBVIOUS
<1>1. LInv
  BY InitLInv
<1>2. events = <<>> /\ started = FALSE /\ players = <<>>
  BY DEF Init
<1>3. NamesDiffer(players)
  BY <1>2 DEF NamesDiffer, Named
<1>4. Left = {} \ Gone
  BY <1>2 DEF Left, Roster
<1>5. LogTellsWhoPlays
  BY <1>2, <1>4, FS_EmptySet DEF LogTellsWhoPlays
<1>. QED
  BY <1>1, <1>3, <1>5 DEF AInv

\* What Left is of a log that is not empty.
LEMMA LeftIs ==
    ASSUME events # <<>>
    PROVE  Left = (0 .. Len(events[1].players) - 1) \ GoneFrom(events)
BY DEF Left, Roster, Gone, GoneFrom, EventsOf, OutsIn

LEMMA SamePlaying ==
    ASSUME AInv, LInv', events' = events, started' = started, NamesDiffer(players'),
           started => /\ Playing(players') = Playing(players)
                      /\ \A c \in Playing(players) : players'[c].number = players[c].number
    PROVE  AInv'
<1>1. Left' = Left
  BY DEF Left, Roster, Gone, EventsOf
<1>2. LogTellsWhoPlays'
  <2>1. CASE started
    <3>1. Left = {players[c].number : c \in Playing(players)}
      BY <2>1 DEF AInv, LogTellsWhoPlays
    <3>. QED
      BY <1>1, <2>1, <3>1 DEF LogTellsWhoPlays
  <2>2. CASE ~started
    BY <1>1, <2>2 DEF AInv, LogTellsWhoPlays
  <2>. QED
    BY <2>1, <2>2
<1>. QED
  BY <1>2 DEF AInv

LEMMA RefreshAInv ==
    ASSUME AInv, NEW C \in SUBSET client_times, RefreshClients(C)
    PROVE  AInv'
<1>1. LInv' /\ TypeOK
  BY RefreshLInv DEF AInv, LInv, IInv
<1>2. events' = events /\ started' = started /\ players' = PlayersWithout(C)
  BY DEF RefreshClients
<1>3. /\ DOMAIN players' \subseteq DOMAIN players
      /\ \A c \in DOMAIN players' : /\ players'[c].name = players[c].name
                                    /\ players'[c].number = players[c].number
                                    /\ players'[c].plays = players[c].plays
  BY <1>1, RefreshNames
<1>4. NamesDiffer(players')
  BY <1>3 DEF AInv, NamesDiffer, Named
<1>5. started => DOMAIN players' = DOMAIN players
  BY <1>2 DEF PlayersWithout
<1>6. started => /\ Playing(players') = Playing(players)
                 /\ \A c \in Playing(players) : players'[c].number = players[c].number
  BY <1>3, <1>5 DEF Playing
<1>. QED
  BY <1>1, <1>2, <1>4, <1>6, SamePlaying

\* A session that joins brings a name nobody has; so it is not one that plays.
LEMMA JoinsUnderNewName ==
    ASSUME OneSessionEach, TypeOK, NEW c \in Session, ~Ignored(c), Joins(c)
    PROVE  \A d \in Named(players) : players[d].name # NameOf[c]
<1>1. SameSocket(c) \subseteq {c}
  BY DEF SameSocket, OneSessionEach, TypeOK
<1>2. SameSocket(c) = {}
  <2>. SUFFICES ASSUME SameSocket(c) = {c} PROVE FALSE
    BY <1>1
  <2>1. FirstOf({c}) = c
    BY ServerAssumption DEF FirstOf
  <2>2. c > c
    BY <2>1 DEF Joins
  <2>. QED
    BY <2>2, ServerAssumption
<1>. QED
  BY <1>2 DEF Ignored, player_name_used

LEMMA MessageNamesDiffer ==
    ASSUME OneSessionEach, AInv, NEW c \in Session, NEW turn \in Turns, ~Ignored(c)
    PROVE  LET ps == SetTurn(PlayersWith(c), c, turn) IN
           /\ NamesDiffer(ps)
           /\ Playing(ps) = Playing(players)
           /\ \A d \in Playing(players) : ps[d].number = players[d].number
<1>. DEFINE ps == SetTurn(PlayersWith(c), c, turn)
<1>1. TypeOK /\ PlayersType(players) /\ NamesKept(players) /\ NamesDiffer(players)
  BY DEF AInv, LInv, IInv, TypeOK, PlayersType
<1>2. SameOrNew(ps, c)
  BY <1>1, MessageNames
<1>. HIDE DEF ps
<1>3. Joins(c) => \A d \in Named(players) : players[d].name # NameOf[c]
  BY <1>1, JoinsUnderNewName
<1>4. ASSUME NEW d \in Playing(players) PROVE d # c \/ ~Joins(c)
  <2>1. d \in DOMAIN players /\ players[d].name = NameOf[d] /\ d \in Named(players)
    BY <1>1 DEF Playing, NamesKept, Named
  <2>. QED
    BY <1>3, <2>1
<1>5. ASSUME NEW d \in Playing(players)
      PROVE  d \in Playing(ps) /\ ps[d].number = players[d].number
  BY <1>2, <1>4 DEF SameOrNew, Playing
<1>6. Playing(ps) \subseteq Playing(players)
  BY <1>2 DEF SameOrNew, Playing
<1>7. NamesDiffer(ps)
  <2>. SUFFICES ASSUME NEW d \in Named(ps), NEW e \in Named(ps), ps[d].name = ps[e].name,
                       d # e
                PROVE  FALSE
    BY DEF NamesDiffer
  <2>1. ASSUME NEW x \in Named(ps)
        PROVE  \/ x \in Named(players) /\ ps[x].name = players[x].name
               \/ x = c /\ Joins(c) /\ ps[x].name = NameOf[c]
    BY <1>2 DEF SameOrNew, Named
  <2>. QED
    BY <2>1, <1>1, <1>3 DEF NamesDiffer
<1>. QED
  BY <1>5, <1>6, <1>7 DEF ps

LEMMA MessageAInv ==
    ASSUME OneSessionEach, AInv, NEW c \in Session, NEW turn \in Turns,
           HandleMessage(c, turn)
    PROVE  AInv'
<1>1. LInv'
  BY MessageLInv DEF AInv
<1>2. /\ events' = events /\ started' = started /\ ~Ignored(c)
      /\ players' = SetTurn(PlayersWith(c), c, turn)
  BY DEF HandleMessage
<1>3. /\ NamesDiffer(players') /\ Playing(players') = Playing(players)
      /\ \A d \in Playing(players) : players'[d].number = players[d].number
  BY <1>2, MessageNamesDiffer
<1>. QED
  BY <1>1, <1>2, <1>3, SamePlaying

LEMMA LastReadyAInv ==
    ASSUME OneSessionEach, AInv, NEW c \in Session, NEW turn \in Turns,
           HandleLastReady(c, turn)
    PROVE  AInv'
<1>. DEFINE qs == SetTurn(PlayersWith(c), c, turn)
<1>1. LInv' /\ LInv
  BY LastReadyLInv DEF AInv
<1>2. NamesDiffer(qs)
  BY MessageNamesDiffer DEF HandleLastReady
<1>3. PICK ps : /\ PlayersType(ps) /\ NamesKept(ps)
                /\ \E C : ps = Restrict(qs, DOMAIN qs \ C)
                /\ \E field \in [Named(ps) -> StartFields] : StartGame(ps, field)
  BY <1>1, LastReadyStarts
<1>. HIDE DEF qs
<1>4. NamesDiffer(ps)
  BY <1>2, <1>3 DEF NamesDiffer, Named, Restrict
<1>5. PICK field \in [Named(ps) -> StartFields] : StartGame(ps, field)
  BY <1>3
<1>6. /\ WellWritten(events', Len(events'))
      /\ DOMAIN players' = DOMAIN ps
      /\ \A d \in DOMAIN ps : players'[d].name = ps[d].name
      /\ (0 .. Len(events'[1].players) - 1) \ GoneFrom(events')
             = {players'[d].number : d \in Playing(players')}
  BY <1>3, <1>5, GameStarts
<1>7. NamesDiffer(players')
  BY <1>4, <1>6 DEF NamesDiffer, Named
<1>8. started' = TRUE
  BY <1>5 DEF StartGame
<1>9. events' # <<>>
  BY <1>6 DEF WellWritten
<1>10. Left' = (0 .. Len(events'[1].players) - 1) \ GoneFrom(events')
  BY <1>9 DEF Left, Roster, Gone, GoneFrom, EventsOf, OutsIn
<1>11. LogTellsWhoPlays'
  BY <1>6, <1>8, <1>10 DEF LogTellsWhoPlays
<1>. QED
  BY <1>1, <1>7, <1>11 DEF AInv

LEMMA TickAInv ==
    ASSUME AInv, Tick
    PROVE  AInv'
<1>1. LInv' /\ LInv /\ started
  BY TickLInv DEF AInv, Tick
<1>2. PICK step \in [Playing(players) -> Steps] : TickWith(step)
  BY DEF Tick
<1>3. PICK m, ps : Turn(m, ps)
  BY <1>1, <1>2, TickTurn
<1>. USE DEF Turn
<1>4. /\ events \in Seq(Event) /\ PlayersType(players)
      /\ WellWritten(events, Len(events)) /\ NumbersOf(Playing(players), players, events)
      /\ NamesDiffer(players)
  BY <1>1 DEF AInv, LInv, IInv, TypeOK, PlayersType
<1>5. NamesDiffer(ps)
  BY <1>3, <1>4 DEF NamesDiffer, Named
<1>6. m # <<>> /\ m[1] = events[1] /\ events # <<>>
  BY <1>3, <1>4 DEF WellWritten
<1>7. Left = (0 .. Len(events[1].players) - 1) \ GoneFrom(events)
      /\ Left = {players[c].number : c \in Playing(players)}
  BY <1>1, <1>6, LeftIs DEF AInv, LogTellsWhoPlays
<1>8. (0 .. Len(m[1].players) - 1) \ GoneFrom(m) = {ps[c].number : c \in Playing(ps)}
  <2>. DEFINE P == Playing(players)
              Q == Playing(ps)
  <2>1. Q \subseteq P /\ Q \subseteq DOMAIN ps
    BY <1>3 DEF Playing
  <2>2. \A c, d \in P : players[c].number = players[d].number => c = d
    BY <1>4 DEF NumbersOf
  <2>3. GoneFrom(m) = GoneFrom(events) \cup {players[c].number : c \in P \ Q}
    BY <1>3
  <2>4. (0 .. Len(m[1].players) - 1) \ GoneFrom(m)
           = {players[c].number : c \in P} \ {players[c].number : c \in P \ Q}
    BY <2>3, <1>6, <1>7
  <2>. HIDE DEF P, Q
  <2>5. {players[c].number : c \in P} \ {players[c].number : c \in P \ Q}
           = {players[c].number : c \in Q}
    BY <2>1, <2>2
  <2>6. \A c \in Q : ps[c].number = players[c].number
    BY <1>3, <2>1
  <2>. QED
    BY <2>4, <2>5, <2>6 DEF Q
<1>9. CASE started'
  <2>1. events' = m /\ players' = ps
    BY <1>3, <1>9
  <2>2. Left' = (0 .. Len(m[1].players) - 1) \ GoneFrom(m)
    BY <1>6, <2>1 DEF Left, Roster, Gone, GoneFrom, EventsOf, OutsIn
  <2>3. LogTellsWhoPlays'
    BY <1>8, <1>9, <2>1, <2>2 DEF LogTellsWhoPlays
  <2>. QED
    BY <1>1, <1>5, <2>1, <2>3 DEF AInv
<1>10. CASE ~started'
  <2>1. events' = m \o <<[no |-> Len(m), type |-> "GAME_OVER"]>> /\ players' = AfterGame(ps)
    BY <1>3, <1>10
  <2>2. /\ OutsIn(events') = OutsIn(m)
        /\ Len(events') = Len(m) + 1 /\ Len(m) \in Nat
        /\ \A i \in 1 .. Len(m) : events'[i] = m[i]
    BY <1>3, <2>1, GameOverAdded
  <2>3. OutsIn(m) \subseteq 1 .. Len(m)
    BY DEF OutsIn
  <2>4. GoneFrom(events') = GoneFrom(m) /\ events'[1] = m[1] /\ events' # <<>>
    BY <1>3, <2>2, <2>3 DEF GoneFrom, WellWritten
  <2>5. Left' = (0 .. Len(m[1].players) - 1) \ GoneFrom(m)
    BY <2>4 DEF Left, Roster, Gone, GoneFrom, EventsOf, OutsIn
  <2>6. Cardinality(Left') <= 1
    <3>1. IsFiniteSet(Playing(ps)) /\ Cardinality(Playing(ps)) <= 1
          /\ Cardinality(Playing(ps)) \in Nat
      BY <1>3, <1>10, NamedAreSessions, SubsetsAreFinite DEF TooFew
    <3>2. Cardinality({ps[c].number : c \in Playing(ps)}) <= Cardinality(Playing(ps))
          /\ IsFiniteSet({ps[c].number : c \in Playing(ps)})
      <4>. DEFINE f == [c \in Playing(ps) |-> ps[c].number]
      <4>1. f \in Surjection(Playing(ps), {ps[c].number : c \in Playing(ps)})
        BY DEF Surjection
      <4>. QED
        BY <3>1, <4>1, FS_Surjection
    <3>3. Cardinality({ps[c].number : c \in Playing(ps)}) \in Nat
      BY <3>2, FS_CardinalityType
    <3>4. Left' = {ps[c].number : c \in Playing(ps)}
      BY <1>8, <2>5
    <3>. QED
      BY <3>1, <3>2, <3>3, <3>4
  <2>7. NamesDiffer(players')
    <3>1. \A c \in DOMAIN AfterGame(ps) :
             c \in DOMAIN ps /\ AfterGame(ps)[c].name = ps[c].name
      <4>1. \A c \in DOMAIN AfterGame(ps) :
               /\ c \in DOMAIN ps
               /\ AfterGame(ps)[c] = [ps[c] EXCEPT !.plays = FALSE, !.ready = FALSE,
                                                   !.turn_direction = 0]
        BY DEF AfterGame
      <4>2. \A c \in DOMAIN ps : ps[c] \in Player
        BY <1>3 DEF PlayersType
      <4>. QED
        BY <4>1, <4>2, ZenonT(60) DEF Player
    <3>. QED
      BY <2>1, <3>1, <1>5 DEF NamesDiffer, Named
  <2>8. LogTellsWhoPlays'
    BY <1>10, <2>6 DEF LogTellsWhoPlays
  <2>. QED
    BY <1>1, <2>7, <2>8 DEF AInv
<1>. QED
  BY <1>9, <1>10

LEMMA NextAInv ==
    ASSUME OneSessionEach, AInv, [Next]_vars
    PROVE  AInv'
<1>1. ASSUME NEW C \in SUBSET client_times, RefreshClients(C) PROVE AInv'
  BY <1>1, RefreshAInv
<1>2. ASSUME NEW c \in Session, NEW turn \in Turns, HandleMessage(c, turn) PROVE AInv'
  BY <1>2, MessageAInv
<1>3. ASSUME NEW c \in Session, NEW turn \in Turns, HandleLastReady(c, turn) PROVE AInv'
  BY <1>3, LastReadyAInv
<1>4. CASE Tick
  BY <1>4, TickAInv
<1>5. CASE UNCHANGED vars
  <2>1. LInv'
    BY <1>5, NextLInv DEF AInv
  <2>2. UNCHANGED <<events, players, started>>
    BY <1>5 DEF vars, game
  <2>. QED
    BY <2>1, <2>2, SamePlaying DEF AInv
<1>. QED
  BY <1>1, <1>2, <1>3, <1>4, <1>5 DEF Next

-----------------------------------------------------------------------------
(* The server's log is one EventLog promises. *)

\* What EventLog sees of a log.
Seen(l) == [i \in 1 .. Len(l) |-> [no |-> l[i].no, type |-> l[i].type]]

LEMMA SeenIs ==
    ASSUME NEW l \in Seq(Event)
    PROVE  /\ Len(Seen(l)) = Len(l)
           /\ \A i \in 1 .. Len(l) :
                 Seen(l)[i].no = l[i].no /\ Seen(l)[i].type = l[i].type
<1>1. Len(l) \in Nat
  OBVIOUS
<1>. QED
  BY <1>1 DEF Seen

LEMMA StartRefines ==
    ASSUME LInv, NEW c \in Session, NEW turn \in Turns, HandleLastReady(c, turn)
    PROVE  Log!StartGame
<1>1. PICK ps : /\ PlayersType(ps) /\ NamesKept(ps)
                /\ \E field \in [Named(ps) -> StartFields] : StartGame(ps, field)
  BY LastReadyStarts
<1>2. PICK field \in [Named(ps) -> StartFields] : StartGame(ps, field)
  BY <1>1
<1>3. started' = TRUE /\ game_id' = game_id + 1 /\ events' \in Seq(Event)
  BY <1>1, <1>2, StartGameType
<1>4. WellWritten(events', Len(events'))
  BY <1>1, <1>2, GameStarts
<1>5. ~started /\ game_id \in Nat
  BY DEF HandleLastReady, CanStart, LInv, IInv, TypeOK
<1>6. /\ Len(Seen(events')) = Len(events') /\ Len(events') \in Nat
      /\ \A i \in 1 .. Len(events') : /\ Seen(events')[i].no = events'[i].no
                                      /\ Seen(events')[i].type = events'[i].type
  BY <1>3, SeenIs
<1>7. Len(Seen(events')) > 0 /\ Seen(events')[1].type = "NEW_GAME"
  BY <1>4, <1>6 DEF WellWritten
<1>8. Log!OnlyMoves(Seen(events'), 2, Len(Seen(events')))
  BY <1>4, <1>6 DEF WellWritten, Log!OnlyMoves, Log!MoveTypes
<1>9. Log!Numbered(Seen(events'))
  BY <1>4, <1>6 DEF WellWritten, Log!Numbered
<1>. QED
  BY <1>3, <1>5, <1>7, <1>8, <1>9 DEF Log!StartGame, Seen

LEMMA TickRefines ==
    ASSUME LInv, Tick
    PROVE  Log!Advance \/ Log!Finish
<1>1. PICK step \in [Playing(players) -> Steps] : TickWith(step)
  BY DEF Tick
<1>2. started /\ game_id' = game_id
  BY DEF Tick
<1>3. PICK m, ps : Turn(m, ps)
  BY <1>1, <1>2, TickTurn
<1>8. /\ started' \in BOOLEAN
      /\ events' = IF started' THEN m ELSE m \o <<[no |-> Len(m), type |-> "GAME_OVER"]>>
  BY <1>3 DEF Turn
<1>9. /\ Len(events) <= Len(m) /\ \A i \in 1 .. Len(events) : m[i] = events[i]
      /\ WellWritten(m, Len(m))
  BY <1>3 DEF Turn
<1>4. events \in Seq(Event) /\ Len(events) \in Nat /\ Len(m) \in Nat /\ m \in Seq(Event)
      /\ WellWritten(events, Len(events))
  BY <1>2, <1>3 DEF LInv, IInv, TypeOK, Turn
<1>5. /\ Len(Seen(events)) = Len(events)
      /\ \A i \in 1 .. Len(events) : Seen(events)[i] = [no |-> events[i].no,
                                                       type |-> events[i].type]
  BY <1>4, SeenIs DEF Seen
<1>6. CASE started'
  <2>1. events' = m
    BY <1>8, <1>6
  <2>2. /\ Len(Seen(m)) = Len(m)
        /\ \A i \in 1 .. Len(m) : Seen(m)[i] = [no |-> m[i].no, type |-> m[i].type]
    BY <1>4, SeenIs DEF Seen
  <2>3. Log!Continues(Seen(events), Seen(m))
    <3>1. ASSUME NEW i \in 1 .. Len(events) PROVE Seen(m)[i] = Seen(events)[i]
      <4>1. i \in 1 .. Len(m) /\ m[i] = events[i]
        BY <1>4, <1>9
      <4>. QED
        BY <4>1 DEF Seen
    <3>. QED
      BY <1>9, <1>5, <2>2, <3>1 DEF Log!Continues
  <2>7. \A i \in 1 .. Len(m) : Seen(m)[i].no = m[i].no /\ Seen(m)[i].type = m[i].type
    BY <1>4, SeenIs
  <2>4. Log!OnlyMoves(Seen(m), Len(Seen(events)) + 1, Len(Seen(m)))
    <3>1. \A i \in Len(events) + 1 .. Len(m) : i \in 2 .. Len(m) /\ i \in 1 .. Len(m)
      BY <1>4 DEF WellWritten
    <3>. QED
      BY <1>9, <1>5, <2>2, <2>7, <3>1 DEF WellWritten, Log!OnlyMoves, Log!MoveTypes
  <2>5. Log!Numbered(Seen(m))
    BY <1>9, <2>2, <2>7 DEF WellWritten, Log!Numbered
  <2>6. started' = TRUE
    BY <1>8, <1>6
  <2>. QED
    BY <1>2, <2>1, <2>3, <2>4, <2>5, <2>6 DEF Log!Advance, Seen
<1>7. CASE ~started'
  <2>1. events' = m \o <<[no |-> Len(m), type |-> "GAME_OVER"]>>
    BY <1>8, <1>7
  <2>2. /\ Len(events') = Len(m) + 1
        /\ \A i \in 1 .. Len(m) : events'[i] = m[i]
        /\ events'[Len(events')] = [no |-> Len(m), type |-> "GAME_OVER"]
    BY <1>4, <2>1, GameOverAdded
  <2>3. /\ Len(Seen(events')) = Len(m) + 1
        /\ \A i \in 1 .. Len(m) + 1 : Seen(events')[i] = [no |-> events'[i].no,
                                                         type |-> events'[i].type]
    <3>1. Len(events') \in Nat /\ events' \in Seq(Event)
      BY TickIInv DEF LInv, IInv, TypeOK
    <3>. QED
      BY <2>2, <3>1, SeenIs DEF Seen
  <2>4. Log!Continues(Seen(events), Seen(events'))
    BY <1>9, <1>4, <1>5, <2>2, <2>3, SMTT(60) DEF Log!Continues
  <2>5. Log!OnlyMoves(Seen(events'), Len(Seen(events)) + 1, Len(Seen(events')) - 1)
    <3>1. \A i \in Len(events) + 1 .. Len(m) :
             i \in 2 .. Len(m) /\ i \in 1 .. Len(m) /\ i \in 1 .. Len(m) + 1
      BY <1>4 DEF WellWritten
    <3>2. Len(m) + 1 - 1 = Len(m)
      BY <1>4
    <3>. QED
      BY <1>9, <1>5, <2>2, <2>3, <3>1, <3>2 DEF WellWritten, Log!OnlyMoves, Log!MoveTypes
  <2>6. Log!Numbered(Seen(events'))
    <3>1. \A i \in 1 .. Len(m) + 1 : i \in 1 .. Len(m) \/ i = Len(m) + 1
      BY <1>4
    <3>2. \A i \in 1 .. Len(m) + 1 : events'[i].no = i - 1
      BY <1>9, <1>4, <2>2, <3>1 DEF WellWritten
    <3>. QED
      BY <2>3, <3>2 DEF Log!Numbered
  <2>7. Len(Seen(events')) > Len(Seen(events))
        /\ Seen(events')[Len(Seen(events'))].type = "GAME_OVER"
    BY <1>9, <1>4, <1>5, <2>2, <2>3
  <2>8. started' = FALSE
    BY <1>8, <1>7
  <2>. QED
    BY <1>2, <2>4, <2>5, <2>6, <2>7, <2>8 DEF Log!Finish, Seen
<1>. QED
  BY <1>6, <1>7

LEMMA StepRefines ==
    ASSUME LInv, [Next]_vars
    PROVE  [Log!Next]_(Log!vars)
<1>1. ASSUME NEW C \in SUBSET client_times, RefreshClients(C)
      PROVE  UNCHANGED <<game_id, started, events>>
  BY <1>1 DEF RefreshClients
<1>2. ASSUME NEW c \in Session, NEW turn \in Turns, HandleMessage(c, turn)
      PROVE  UNCHANGED <<game_id, started, events>>
  BY <1>2 DEF HandleMessage
<1>3. ASSUME NEW c \in Session, NEW turn \in Turns, HandleLastReady(c, turn)
      PROVE  Log!StartGame
  BY <1>3, StartRefines
<1>4. CASE Tick
  BY <1>4, TickRefines DEF Log!Next
<1>5. CASE UNCHANGED vars
  BY <1>5 DEF vars, game, Log!vars
<1>6. UNCHANGED <<game_id, started, events>> => UNCHANGED Log!vars
  BY DEF Log!vars
<1>. QED
  BY <1>1, <1>2, <1>3, <1>4, <1>5, <1>6 DEF Next, Log!Next

-----------------------------------------------------------------------------
(* The theorems. *)

\* What the log and the players' numbers always say, without any assumption on
\* sockets.
THEOREM LogInvariant == Spec => []LInv
BY InitLInv, NextLInv, PTL DEF Spec

\* taken_fields, which eliminates, is exactly the set of fields of the PIXEL events
\* clients have been sent, and no field is given twice (pixel_event,
\* check_player_position).
THEOREM TrailIsAlwaysPublic == Spec => []TrailIsPublic
<1>. LInv => TrailIsPublic
  BY DEF LInv, TrailOf, PixelsIn, TrailIsPublic, EventsOf
<1>. QED
  BY LogInvariant, PTL

\* After PLAYER_ELIMINATED no event of that game carries the player's number again
\* (GameState::tick skips those who do not play).
THEOREM NobodyReturns == Spec => []EliminatedForGood
<1>. LInv => EliminatedForGood
  BY DEF LInv, ForGood, OutsIn, EliminatedForGood, EventsOf
<1>. QED
  BY LogInvariant, PTL

\* Server::events, over games and restarts of games, is the append-only, gaplessly
\* numbered log with NEW_GAME first and GAME_OVER last that EventLog promises.
THEOREM LogKeepsPromise == Spec => LogSpec
<1>1. Init => Log!Init
  BY DEF Init, Log!Init
<1>2. LInv /\ [Next]_vars => [Log!Next]_(Log!vars)
  BY StepRefines
<1>. QED
  BY <1>1, <1>2, LogInvariant, PTL DEF Spec, LogSpec, Log!Spec

\* With one session to a socket, the inductive invariant also has the log and the
\* players of the server agree.  The code lets a second session of a socket join
\* over the first, under a name that is taken (Server_new_session), and rejoin over
\* itself; then the two conclusions below fail.
THEOREM PlayersInvariant ==
    ASSUME OneSessionEach
    PROVE  Spec => []AInv
BY InitAInv, NextAInv, PTL DEF Spec

\* The number in an event is the place of exactly the right name in NEW_GAME.
THEOREM NumbersAlwaysNameThePlayers ==
    ASSUME OneSessionEach
    PROVE  Spec => []NumbersNameThePlayers
<1>1. ASSUME AInv PROVE NumbersNameThePlayers
  <2>1. \A c, d \in Named(players) : players[c].name = players[d].name => c = d
    BY <1>1 DEF AInv, NamesDiffer
  <2>2. ASSUME started PROVE Roster = events[1].players
    BY <1>1, <2>2 DEF AInv, LInv, WellWritten, Roster
  <2>3. started => NumbersOf(Playing(players), players, events)
    BY <1>1 DEF AInv, LInv
  <2>. QED
    BY <2>1, <2>2, <2>3 DEF NumbersOf, NumbersNameThePlayers
<1>. QED
  BY <1>1, PlayersInvariant, PTL

\* A reader of the log knows who still plays: nobody whose snake moves has left the
\* log, and nobody the log keeps has stopped.
THEOREM LogAlwaysTellsWhoPlays ==
    ASSUME OneSessionEach
    PROVE  Spec => []LogTellsWhoPlays
<1>. AInv => LogTellsWhoPlays
  BY DEF AInv
<1>. QED
  BY PlayersInvariant, PTL
=============================================================================
