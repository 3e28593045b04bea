------------------------ MODULE EventDelivery_proofs ------------------------
(***************************************************************************)
(* What TLAPS proves of EventDelivery, for any number of games, events and *)
(* datagrams: the client implements GuiFeed over any network.              *)
(***************************************************************************)
EXTENDS EventDelivery, FiniteSetTheorems, TLAPS

-----------------------------------------------------------------------------
(* The inductive invariant. *)

\* Games that have not begun have no events, a game in progress has begun and is not
\* over, and GAME_OVER is the last event of its game and never the first.
LogShape ==
    /\ \A g \in Games : g > s_game => log[g] = <<>>
    /\ \A g \in Games : g <= s_game => Len(log[g]) > 0 /\ log[g][1] = "NEW_GAME"
    /\ \A g \in Games : \A k \in 1 .. Len(log[g]) :
          log[g][k] = "GAME_OVER" => k = Len(log[g]) /\ (g = s_game => ~s_started)
    /\ \A g \in Games : Len(log[g]) <= MaxEvents
    /\ s_started => s_game \in Games

\* Datagrams in flight hold events that have been generated.
DatagramsGenuine == \A d \in datagrams : d.last < Len(log[d.game])

IInv ==
    /\ TypeOK
    /\ LogShape
    /\ DatagramsGenuine
    /\ AsksForFirstGap
    /\ OnlyGenuineEvents
    /\ QueueIsUnshown
    /\ NamesBeforeMoves

LEMMA InitIInv == Init => IInv
<1>. SUFFICES ASSUME Init PROVE IInv
  OBVIOUS
<1>1. TypeOK
  <2>1. log \in [Games -> Seq(Types)]
    BY DEF Init, Types
  <2>2. screen \in [game : Games \cup {NoGame}, no : EventNos]
    BY DeliveryAssumption DEF Init, EventNos, NoGame
  <2>3. s_game \in 0 .. MaxGames /\ last_event \in 0 .. MaxEvents
    BY DeliveryAssumption DEF Init, NoGame
  <2>. QED
    BY <2>1, <2>2, <2>3 DEF Init, TypeOK, States
<1>2. LogShape
  <2>1. s_game = 0 /\ ~s_started /\ \A g \in Games : log[g] = <<>> /\ Len(log[g]) = 0
    BY DEF Init, NoGame
  <2>2. \A g \in Games : g \in Nat /\ g > 0
    BY DeliveryAssumption DEF Games
  <2>. QED
    BY <2>1, <2>2, DeliveryAssumption DEF LogShape
<1>3. DatagramsGenuine /\ AsksForFirstGap /\ OnlyGenuineEvents
  BY DEF Init, DatagramsGenuine, AsksForFirstGap, IsFirstGap, OnlyGenuineEvents
<1>4. QueueIsUnshown
  BY DEF Init, QueueIsUnshown, Showable
<1>5. NamesBeforeMoves
  BY DEF Init, NamesBeforeMoves
<1>. QED
  BY <1>1, <1>2, <1>3, <1>4, <1>5 DEF IInv

-----------------------------------------------------------------------------
(* The server: the log grows, and what was in it stays. *)

LogGrows ==
    \A g \in Games : \A n \in Nat :
        n < Len(log[g]) => n < Len(log'[g]) /\ log'[g][n + 1] = log[g][n + 1]

LEMMA ConcatTypes ==
    ASSUME NEW l \in Seq(Types), NEW m \in Seq(Types)
    PROVE  /\ l \o m \in Seq(Types)
           /\ Len(l \o m) = Len(l) + Len(m)
           /\ \A k \in 1 .. Len(l) : (l \o m)[k] = l[k]
           /\ \A k \in Len(l) + 1 .. Len(l) + Len(m) : (l \o m)[k] = m[k - Len(l)]
OBVIOUS

LEMMA MovesType ==
    ASSUME NEW n \in Nat
    PROVE  /\ Moves(n) \in Seq(Types) /\ Len(Moves(n)) = n
           /\ \A k \in 1 .. n : Moves(n)[k] = MoveType
<1>1. MoveType \in Types
  BY DEF Types
<1>. QED
  BY <1>1 DEF Moves

LEMMA TurnType ==
    ASSUME NEW n \in Nat, NEW over \in BOOLEAN
    PROVE  /\ TurnEvents(n, over) \in Seq(Types)
           /\ Len(TurnEvents(n, over)) = IF over THEN n + 1 ELSE n
           /\ \A k \in 1 .. n : TurnEvents(n, over)[k] = MoveType
<1>. DEFINE final == IF over THEN <<"GAME_OVER">> ELSE <<>>
<1>1. final \in Seq(Types) /\ Len(final) = IF over THEN 1 ELSE 0
  <2>1. "GAME_OVER" \in Types
    BY DEF Types
  <2>2. CASE over
    BY <2>1, <2>2
  <2>3. CASE ~over
    BY <2>3
  <2>. QED
    BY <2>2, <2>3
<1>2. TurnEvents(n, over) = Moves(n) \o final
  BY DEF TurnEvents
<1>. HIDE DEF final
<1>3. /\ Moves(n) \in Seq(Types) /\ Len(Moves(n)) = n
      /\ \A k \in 1 .. n : Moves(n)[k] = MoveType
  BY MovesType
<1>4. /\ Moves(n) \o final \in Seq(Types)
      /\ Len(Moves(n) \o final) = n + Len(final)
      /\ \A k \in 1 .. n : (Moves(n) \o final)[k] = Moves(n)[k]
  BY <1>1, <1>3, ConcatTypes, ZenonT(60)
<1>. QED
  BY <1>1, <1>2, <1>3, <1>4

\* Whatever the server adds to its log is no news to the client's invariants.
LEMMA ClientUntouched ==
    ASSUME IInv, LogGrows, UNCHANGED <<client, screen>>
    PROVE  AsksForFirstGap' /\ OnlyGenuineEvents' /\ QueueIsUnshown' /\ NamesBeforeMoves'
<1>. USE DEF IInv
<1>1. /\ game_id' = game_id /\ last_event' = last_event /\ events_no' = events_no
      /\ game_events' = game_events /\ names_known' = names_known
      /\ exited' = exited /\ screen' = screen
  BY DEF client
<1>2. AsksForFirstGap' /\ NamesBeforeMoves'
  BY <1>1 DEF AsksForFirstGap, IsFirstGap, NamesBeforeMoves
<1>3. /\ events_no \subseteq Nat
      /\ screen.no \in Nat /\ screen.game \in Games \cup {NoGame}
  BY DeliveryAssumption DEF TypeOK, EventNos
<1>4. OnlyGenuineEvents'
  BY <1>1, <1>3 DEF OnlyGenuineEvents, LogGrows, TypeOf
<1>5. Showable' = Showable
  BY <1>1, <1>3 DEF OnlyGenuineEvents, LogGrows, TypeOf, Showable
<1>6. QueueIsUnshown'
  BY <1>1, <1>5 DEF QueueIsUnshown
<1>. QED
  BY <1>2, <1>4, <1>6

LEMMA DatagramsKept ==
    ASSUME IInv, LogGrows, NEW d \in datagrams
    PROVE  d.last < Len(log'[d.game])
<1>1. d \in Datagram /\ d.last < Len(log[d.game])
  BY DEF IInv, TypeOK, DatagramsGenuine
<1>2. d.game \in Games /\ d.last \in Nat
  BY <1>1, DeliveryAssumption DEF Datagram, EventNos
<1>. QED
  BY <1>1, <1>2 DEF LogGrows

\* What Broadcast puts on the network has been generated.
LEMMA BroadcastGenuine ==
    ASSUME IInv, LogGrows, NEW g \in Games, NEW first \in Nat, NEW last \in Nat,
           Broadcast(g, first, last), last < MaxEvents,
           Len(log'[g]) \in Nat, last < Len(log'[g])
    PROVE  datagrams' \subseteq Datagram /\ DatagramsGenuine'
<1>1. PICK sent \in SUBSET {[game |-> g, first |-> n, last |-> n] : n \in first .. last} :
         datagrams' = datagrams \cup sent
  BY DEF Broadcast
<1>2. ASSUME NEW d \in sent
      PROVE  d \in Datagram /\ d.last < Len(log'[d.game])
  <2>1. PICK n \in first .. last : d = [game |-> g, first |-> n, last |-> n]
    BY <1>1
  <2>2. n \in Nat /\ n \in EventNos /\ n <= last
    BY DeliveryAssumption DEF EventNos
  <2>. QED
    BY <2>1, <2>2 DEF Datagram
<1>3. datagrams \subseteq Datagram
  BY DEF IInv, TypeOK
<1>. QED
  BY <1>1, <1>2, <1>3, DatagramsKept DEF DatagramsGenuine

LEMMA StartGameIInv == ASSUME IInv, StartGame PROVE IInv'
<1>. USE DEF IInv
<1>1. PICK n \in 1 .. MaxBatch :
         /\ n + 1 < MaxEvents
         /\ log' = [log EXCEPT ![s_game + 1] = <<"NEW_GAME">> \o Moves(n)]
         /\ Broadcast(s_game + 1, 0, n)
  BY DEF StartGame
<1>2. /\ ~s_started /\ s_game < MaxGames /\ s_game' = s_game + 1 /\ s_started'
      /\ UNCHANGED door /\ requests' = requests /\ st' = st
      /\ UNCHANGED <<client, screen>>
  BY DEF StartGame
<1>. DEFINE g == s_game + 1
            new == <<"NEW_GAME">> \o Moves(n)
<1>3. /\ n \in Nat /\ n > 0 /\ s_game \in Nat /\ g \in Games /\ MaxEvents \in Nat
      /\ Games \subseteq Nat
  BY <1>2, DeliveryAssumption DEF TypeOK, Games
<1>4. /\ new \in Seq(Types) /\ Len(new) = n + 1 /\ new[1] = "NEW_GAME"
      /\ \A k \in 1 .. n + 1 : new[k] # "GAME_OVER"
  <2>1. <<"NEW_GAME">> \in Seq(Types) /\ Len(<<"NEW_GAME">>) = 1
    BY DEF Types
  <2>2. /\ Moves(n) \in Seq(Types) /\ Len(Moves(n)) = n
        /\ \A k \in 1 .. n : Moves(n)[k] = MoveType
    BY <1>3, MovesType
  <2>3. /\ new \in Seq(Types) /\ Len(new) = 1 + n
        /\ \A k \in 1 .. 1 : new[k] = <<"NEW_GAME">>[k]
        /\ \A k \in 1 + 1 .. 1 + n : new[k] = Moves(n)[k - 1]
    BY <2>1, <2>2, ConcatTypes
  <2>4. new[1] = "NEW_GAME"
    BY <2>3
  <2>5. ASSUME NEW k \in 1 .. n + 1 PROVE new[k] # "GAME_OVER"
    <3>1. CASE k = 1
      BY <3>1, <2>4
    <3>2. CASE k # 1
      <4>1. k - 1 \in 1 .. n /\ k \in 1 + 1 .. 1 + n
        BY <3>2, <1>3
      <4>2. new[k] = MoveType
        BY <4>1, <2>2, <2>3
      <4>. QED
        BY <4>2 DEF MoveType
    <3>. QED
      BY <3>1, <3>2
  <2>. QED
    BY <2>3, <2>4, <2>5, <1>3
<1>. HIDE DEF new
<1>5. /\ log \in [Games -> Seq(Types)] /\ log[g] = <<>>
      /\ log' \in [Games -> Seq(Types)] /\ log'[g] = new
      /\ \A h \in Games : h # g => log'[h] = log[h]
  <2>1. log \in [Games -> Seq(Types)]
    BY DEF TypeOK
  <2>2. log[g] = <<>>
    BY <1>3 DEF LogShape
  <2>3. log' = [log EXCEPT ![g] = new]
    BY <1>1 DEF new
  <2>. QED
    BY <2>1, <2>2, <2>3, <1>3, <1>4
<1>6. LogGrows
  <2>. SUFFICES ASSUME NEW h \in Games, NEW m \in Nat, m < Len(log[h])
                PROVE  m < Len(log'[h]) /\ log'[h][m + 1] = log[h][m + 1]
    BY DEF LogGrows
  <2>1. h # g
    BY <1>5
  <2>. QED
    BY <2>1, <1>5
<1>7. LogShape'
  <2>1. \A h \in Games : h > s_game' => log'[h] = <<>>
    BY <1>2, <1>3, <1>5 DEF LogShape
  <2>2. \A h \in Games : h <= s_game' => Len(log'[h]) > 0 /\ log'[h][1] = "NEW_GAME"
    BY <1>2, <1>3, <1>4, <1>5 DEF LogShape
  <2>3. ASSUME NEW h \in Games, NEW k \in 1 .. Len(log'[h]), log'[h][k] = "GAME_OVER"
        PROVE  k = Len(log'[h]) /\ (h = s_game' => ~s_started')
    <3>1. h # g
      BY <2>3, <1>4, <1>5
    <3>. QED
      BY <2>3, <3>1, <1>2, <1>5 DEF LogShape
  <2>4. \A h \in Games : Len(log'[h]) <= MaxEvents
    BY <1>1, <1>3, <1>4, <1>5 DEF LogShape
  <2>. QED
    BY <2>1, <2>2, <2>3, <2>4, <1>2, <1>3 DEF LogShape
<1>8. datagrams' \subseteq Datagram /\ DatagramsGenuine'
  <2>1. Broadcast(g, 0, n) /\ Len(log'[g]) \in Nat /\ n < Len(log'[g])
    BY <1>1, <1>3, <1>4, <1>5
  <2>. QED
    BY <2>1, <1>1, <1>3, <1>6, BroadcastGenuine
<1>9. TypeOK'
  <2>1. s_game' \in 0 .. MaxGames
    BY <1>2, <1>3, DeliveryAssumption
  <2>. QED
    BY <2>1, <1>2, <1>5, <1>8 DEF TypeOK, client, door
<1>. QED
  BY <1>2, <1>6, <1>7, <1>8, <1>9, ClientUntouched

LEMMA TickIInv == ASSUME IInv, Tick PROVE IInv'
<1>. USE DEF IInv
<1>1. PICK n \in 0 .. MaxBatch, over \in BOOLEAN :
         LET new == TurnEvents(n, over)
             len == Len(log[s_game])
         IN  /\ len + Len(new) <= Room(over)
             /\ new # <<>>
             /\ log' = [log EXCEPT ![s_game] = @ \o new]
             /\ s_started' = ~over
             /\ named' = (named /\ ~Forgotten(over))
             /\ Broadcast(s_game, len, len + Len(new) - 1)
  BY DEF Tick
<1>2. /\ s_started /\ s_game' = s_game
      /\ connected' = connected /\ crowded' = crowded /\ requests' = requests /\ st' = st
      /\ UNCHANGED <<client, screen>>
  BY DEF Tick
<1>. DEFINE g == s_game
            old == log[g]
            new == TurnEvents(n, over)
<1>3. /\ n \in Nat /\ g \in Games /\ g \in Nat /\ MaxEvents \in Nat
  BY <1>2, DeliveryAssumption DEF LogShape, Games
<1>4. /\ new \in Seq(Types) /\ Len(new) = IF over THEN n + 1 ELSE n
      /\ \A k \in 1 .. n : new[k] = MoveType
  BY <1>3, TurnType
<1>5. /\ log \in [Games -> Seq(Types)] /\ old \in Seq(Types) /\ Len(old) \in Nat
      /\ Len(new) \in Nat
  BY <1>3, <1>4 DEF TypeOK
<1>51. Len(old) + Len(new) <= MaxEvents
  BY <1>1, <1>3, <1>5 DEF Room
<1>6. Len(new) > 0
  BY <1>1, <1>4, <1>5
<1>7. /\ Len(old) > 0 /\ old[1] = "NEW_GAME"
      /\ \A k \in 1 .. Len(old) : old[k] # "GAME_OVER"
  BY <1>2, <1>3 DEF LogShape
<1>. HIDE DEF new
<1>8. /\ old \o new \in Seq(Types) /\ Len(old \o new) = Len(old) + Len(new)
      /\ \A k \in 1 .. Len(old) : (old \o new)[k] = old[k]
      /\ \A k \in Len(old) + 1 .. Len(old) + Len(new) :
            (old \o new)[k] = new[k - Len(old)]
  BY <1>4, <1>5, ConcatTypes
<1>9. /\ log' \in [Games -> Seq(Types)] /\ log'[g] = old \o new
      /\ \A h \in Games : h # g => log'[h] = log[h]
  <2>1. log' = [log EXCEPT ![g] = old \o new]
    BY <1>1 DEF new
  <2>. QED
    BY <2>1, <1>3, <1>5, <1>8
<1>10. LogGrows
  <2>. SUFFICES ASSUME NEW h \in Games, NEW m \in Nat, m < Len(log[h])
                PROVE  m < Len(log'[h]) /\ log'[h][m + 1] = log[h][m + 1]
    BY DEF LogGrows
  <2>1. CASE h = g
    <3>1. m + 1 \in 1 .. Len(old)
      BY <2>1, <1>5
    <3>. QED
      BY <3>1, <2>1, <1>5, <1>8, <1>9
  <2>2. CASE h # g
    BY <2>2, <1>9
  <2>. QED
    BY <2>1, <2>2
<1>11. LogShape'
  <2>1. \A h \in Games : h > s_game' => log'[h] = <<>>
    BY <1>2, <1>3, <1>9 DEF LogShape
  <2>2. ASSUME NEW h \in Games, h <= s_game'
        PROVE  Len(log'[h]) > 0 /\ log'[h][1] = "NEW_GAME"
    <3>1. CASE h = g
      <4>1. 1 \in 1 .. Len(old)
        BY <1>5, <1>7
      <4>. QED
        BY <4>1, <3>1, <1>5, <1>7, <1>8, <1>9
    <3>2. CASE h # g
      BY <2>2, <3>2, <1>2, <1>9 DEF LogShape
    <3>. QED
      BY <3>1, <3>2
  <2>3. ASSUME NEW h \in Games, NEW k \in 1 .. Len(log'[h]), log'[h][k] = "GAME_OVER"
        PROVE  k = Len(log'[h]) /\ (h = s_game' => ~s_started')
    <3>1. CASE h = g
      <4>1. k \in Nat /\ k >= 1 /\ k <= Len(old) + Len(new)
        BY <2>3, <3>1, <1>5, <1>8, <1>9
      <4>2. k > Len(old)
        BY <2>3, <3>1, <4>1, <1>5, <1>7, <1>8, <1>9
      <4>3. /\ k \in Len(old) + 1 .. Len(old) + Len(new)
            /\ k - Len(old) \in 1 .. Len(new)
        BY <4>1, <4>2, <1>5
      <4>4. new[k - Len(old)] = "GAME_OVER"
        BY <2>3, <3>1, <4>3, <1>8, <1>9
      <4>5. k - Len(old) \notin 1 .. n
        BY <4>4, <1>4 DEF MoveType
      <4>6. over /\ k - Len(old) = Len(new)
        <5>. DEFINE j == k - Len(old)
        <5>1. j \in Nat /\ j >= 1 /\ j <= Len(new) /\ j > n
          BY <4>3, <4>5, <1>3, <1>5
        <5>. HIDE DEF j
        <5>2. CASE over
          <6>1. Len(new) = n + 1
            BY <1>4, <5>2
          <6>2. j = Len(new)
            BY <5>1, <6>1, <1>3
          <6>. QED
            BY <5>2, <6>2 DEF j
        <5>3. CASE ~over
          <6>1. Len(new) = n
            BY <1>4, <5>3
          <6>. QED
            BY <5>1, <6>1, <1>3
        <5>. QED
          BY <5>2, <5>3
      <4>7. k = Len(log'[h])
        BY <4>1, <4>6, <3>1, <1>5, <1>8, <1>9
      <4>8. ~s_started'
        BY <4>6, <1>1
      <4>. QED
        BY <4>7, <4>8
    <3>2. CASE h # g
      BY <2>3, <3>2, <1>2, <1>9 DEF LogShape
    <3>. QED
      BY <3>1, <3>2
  <2>4. \A h \in Games : Len(log'[h]) <= MaxEvents
    BY <1>51, <1>8, <1>9 DEF LogShape
  <2>. QED
    BY <2>1, <2>2, <2>3, <2>4, <1>2, <1>3 DEF LogShape
<1>12. datagrams' \subseteq Datagram /\ DatagramsGenuine'
  <2>. DEFINE last == Len(old) + Len(new) - 1
  <2>1. Broadcast(g, Len(old), last) /\ last < MaxEvents /\ last \in Nat
    BY <1>1, <1>3, <1>5, <1>51, <1>6 DEF new
  <2>2. Len(log'[g]) \in Nat /\ last < Len(log'[g])
    BY <1>5, <1>8, <1>9
  <2>. QED
    BY <2>1, <2>2, <1>3, <1>5, <1>10, BroadcastGenuine
<1>13. TypeOK'
  BY <1>1, <1>2, <1>9, <1>12 DEF TypeOK, client
<1>. QED
  BY <1>2, <1>10, <1>11, <1>12, <1>13, ClientUntouched

-----------------------------------------------------------------------------
(* The network. *)

\* Without a step of the server the log is the same.
LEMMA SameLog ==
    ASSUME IInv, UNCHANGED server
    PROVE  LogGrows /\ LogShape'
BY DEF server, LogGrows, LogShape, IInv

\* A reply is made of events that have been generated.
LEMMA ReplyGenuine ==
    ASSUME IInv, NEW n \in Nat, NEW d \in Reply(n)
    PROVE  d \in Datagram /\ d.last < Len(log[d.game])
<1>. DEFINE len == Len(log[s_game])
            last(f) == IF f + PerDatagram <= len THEN f + PerDatagram - 1 ELSE len - 1
<1>1. s_game # NoGame /\ s_game \in Games
  BY DeliveryAssumption DEF Reply, IInv, TypeOK, NoGame, Games
<1>2. len \in Nat
  BY <1>1 DEF IInv, TypeOK
<1>3. PICK f \in n .. len - 1 : d = [game |-> s_game, first |-> f, last |-> last(f)]
  BY <1>1 DEF Reply
<1>4. f \in Nat /\ f < len /\ PerDatagram \in Nat \ {0}
  BY <1>2, DeliveryAssumption
<1>5. last(f) \in Nat /\ f <= last(f) /\ last(f) < len
  BY <1>2, <1>4
<1>6. len <= MaxEvents /\ MaxEvents \in Nat
  BY <1>1, DeliveryAssumption DEF IInv, LogShape
<1>. HIDE DEF len, last
<1>7. f \in EventNos /\ last(f) \in EventNos
  BY <1>2, <1>4, <1>5, <1>6 DEF EventNos
<1>. QED
  BY <1>1, <1>3, <1>5, <1>7 DEF Datagram, len

LEMMA HandleRequestIInv ==
    ASSUME IInv, NEW n \in requests, NEW again \in BOOLEAN, NEW lost \in SUBSET Reply(n),
           HandleRequest(n, again, lost)
    PROVE  IInv'
<1>. USE DEF IInv
<1>1. /\ requests' \subseteq requests
      /\ datagrams' \subseteq datagrams \cup Reply(n)
      /\ connected' = TRUE /\ named' = (named \/ HasName) /\ crowded' = crowded
      /\ UNCHANGED server /\ st' = st /\ UNCHANGED <<client, screen>>
  BY DEF HandleRequest, Sent
<1>2. n \in Nat
  BY DeliveryAssumption DEF TypeOK
<1>3. LogGrows /\ LogShape' /\ log' = log
  BY <1>1, SameLog DEF server
<1>4. datagrams' \subseteq Datagram /\ DatagramsGenuine'
  BY <1>1, <1>2, <1>3, ReplyGenuine DEF TypeOK, DatagramsGenuine
<1>5. TypeOK'
  BY <1>1, <1>4, DeliveryAssumption DEF TypeOK, server, client
<1>. QED
  BY <1>1, <1>3, <1>4, <1>5, ClientUntouched

\* The steps that change neither the log nor what the client holds nor the screen.
LEMMA IdleIInv ==
    ASSUME IInv, UNCHANGED <<server, client, screen>>, datagrams' \subseteq datagrams,
           connected' \in BOOLEAN, named' \in BOOLEAN, crowded' \in BOOLEAN,
           requests' \subseteq 0 .. MaxEvents, st' \in States
    PROVE  IInv'
<1>. USE DEF IInv
<1>1. LogGrows /\ LogShape' /\ log' = log
  BY SameLog DEF server
<1>2. DatagramsGenuine'
  BY <1>1 DEF DatagramsGenuine
<1>3. TypeOK'
  BY DEF TypeOK, server, client
<1>. QED
  BY <1>1, <1>2, <1>3, ClientUntouched

-----------------------------------------------------------------------------
(* The client. *)

\* A set of naturals up to n has a least member: otherwise each of its members had
\* another number of smaller ones, from 1 on.
LEMMA LeastMember ==
    ASSUME NEW n \in Nat, NEW S \in SUBSET (0 .. n), S # {}
    PROVE  \E m \in S : \A k \in S : m <= k
<1>. SUFFICES ASSUME \A m \in S : \E k \in S : k < m
              PROVE  FALSE
  OBVIOUS
<1>. DEFINE B(m) == {k \in S : k < m}
            c == Cardinality(S)
            R == 1 .. c - 1
            r == [m \in S |-> Cardinality(B(m))]
<1>1. IsFiniteSet(S) /\ c \in Nat
  <2>1. 0 \in Int /\ n \in Int
    OBVIOUS
  <2>. QED
    BY <2>1, FS_Interval, FS_Subset, FS_CardinalityType
<1>2. ASSUME NEW m \in S
      PROVE  IsFiniteSet(B(m)) /\ Cardinality(B(m)) \in R
  <2>1. B(m) \in SUBSET S /\ B(m) # S /\ B(m) # {}
    OBVIOUS
  <2>2. IsFiniteSet(B(m)) /\ Cardinality(B(m)) \in Nat /\ Cardinality(B(m)) # 0
    BY <1>1, <2>1, FS_Subset, FS_CardinalityType, FS_EmptySet
  <2>3. Cardinality(B(m)) <= c /\ Cardinality(B(m)) # c
    BY <1>1, <2>1, FS_Subset
  <2>. QED
    BY <1>1, <2>2, <2>3
<1>3. ASSUME NEW l \in S, NEW m \in S, l < m
      PROVE  Cardinality(B(l)) # Cardinality(B(m))
  <2>0. S \subseteq Nat
    OBVIOUS
  <2>1. B(l) \in SUBSET B(m) /\ l \in B(m) /\ l \notin B(l)
    <3>1. \A k \in S : k < l => k < m
      BY <1>3, <2>0
    <3>2. ~(l < l)
      BY <2>0
    <3>. QED
      BY <1>3, <3>1, <3>2
  <2>. QED
    BY <1>2, <2>1, FS_Subset
<1>4. r \in [S -> R]
  BY <1>2
<1>5. IsFiniteSet(R) /\ Cardinality(R) < c
  <2>1. 1 \in Int /\ c - 1 \in Int /\ c # 0
    BY <1>1, FS_EmptySet
  <2>. HIDE DEF c
  <2>2. IsFiniteSet(R) /\ Cardinality(R) = IF 1 > c - 1 THEN 0 ELSE (c - 1) - 1 + 1
    BY <2>1, FS_Interval
  <2>. QED
    BY <1>1, <2>1, <2>2 DEF c
<1>. HIDE DEF r, R
<1>6. PICK l \in S, m \in S : l # m /\ r[l] = r[m]
  BY <1>1, <1>4, <1>5, FS_PigeonHole
<1>61. Cardinality(B(l)) = Cardinality(B(m))
  BY <1>6 DEF r
<1>7. l < m \/ m < l
  BY <1>6
<1>. QED
  BY <1>3, <1>61, <1>7

\* The same from above.
LEMMA GreatestMember ==
    ASSUME NEW n \in Nat, NEW S \in SUBSET (0 .. n), S # {}
    PROVE  \E m \in S : \A k \in S : k <= m
<1>. DEFINE R == {n - m : m \in S}
<1>1. R \in SUBSET (0 .. n) /\ R # {}
  OBVIOUS
<1>2. PICK r \in R : \A k \in R : r <= k
  BY <1>1, LeastMember
<1>3. PICK m \in S : r = n - m
  BY <1>2
<1>4. ASSUME NEW k \in S PROVE k <= m
  <2>1. r <= n - k
    BY <1>2
  <2>2. k \in 0 .. n /\ m \in 0 .. n
    OBVIOUS
  <2>. QED
    BY <1>3, <2>1, <2>2
<1>. QED
  BY <1>4

\* The rule of the while loop over last_event.
Steps(f, S) == f = [m \in 0 .. MaxEvents |-> IF m \in S THEN f[m + 1] ELSE m]

\* The loop ends, at the first number from `last` on that is not in S.  That its
\* function exists is shown with the one that names these numbers; that every
\* function of that rule is this one, by looking at the highest place where it is
\* not.
LEMMA LoopEnds ==
    ASSUME NEW S \in SUBSET EventNos, NEW last \in 0 .. MaxEvents
    PROVE  /\ Advance(S, last) \in last .. MaxEvents
           /\ Advance(S, last) \notin S
           /\ \A k \in last .. Advance(S, last) - 1 : k \in S
<1>. DEFINE D == 0 .. MaxEvents
            Ends(m, r) == r \in m .. MaxEvents /\ r \notin S /\ \A k \in m .. r - 1 : k \in S
            g == [m \in D |-> CHOOSE r \in D : Ends(m, r)]
            f == CHOOSE f : Steps(f, S)
<1>1. MaxEvents \in Nat /\ MaxEvents \notin S /\ S \subseteq Nat /\ D \subseteq Nat
  BY DeliveryAssumption DEF EventNos
<1>2. ASSUME NEW m \in D PROVE \E r \in D : Ends(m, r)
  <2>. DEFINE G == {r \in D : r >= m /\ r \notin S}
  <2>1. G \in SUBSET D /\ MaxEvents \in G
    BY <1>1
  <2>2. PICK r \in G : \A k \in G : r <= k
    BY <1>1, <2>1, LeastMember
  <2>3. \A k \in m .. r - 1 : k \in D /\ k >= m /\ ~(r <= k)
    BY <1>1
  <2>. QED
    BY <1>1, <2>2, <2>3
<1>3. ASSUME NEW m \in D PROVE g[m] \in D /\ Ends(m, g[m])
  BY <1>2
<1>4. ASSUME NEW m \in D, NEW r \in D, NEW s \in D, Ends(m, r), Ends(m, s) PROVE r = s
  BY <1>1, <1>4
<1>. HIDE DEF g
<1>5. Steps(g, S)
  <2>1. ASSUME NEW m \in D PROVE g[m] = IF m \in S THEN g[m + 1] ELSE m
    <3>1. CASE m \in S
      <4>1. m + 1 \in D
        BY <1>1, <3>1 DEF EventNos
      <4>2. Ends(m + 1, g[m + 1]) /\ g[m + 1] \in D
        BY <1>3, <4>1
      <4>3. Ends(m, g[m + 1])
        BY <1>1, <3>1, <4>2
      <4>. QED
        BY <1>3, <1>4, <3>1, <4>2, <4>3
    <3>2. CASE m \notin S
      <4>1. Ends(m, m)
        BY <1>1, <3>2
      <4>. QED
        BY <1>3, <1>4, <3>2, <4>1
    <3>. QED
      BY <3>1, <3>2
  <2>2. g = [m \in D |-> g[m]]
    BY DEF g
  <2>. QED
    BY <2>1, <2>2 DEF Steps
<1>6. Steps(f, S)
  BY <1>5
<1>7. Advance(S, last) = f[last]
  BY DEF Advance, Steps
<1>. HIDE DEF f
<1>8. \A m \in D : f[m] = IF m \in S THEN f[m + 1] ELSE m
  BY <1>6 DEF Steps
<1>9. \A m \in D : Ends(m, f[m])
  <2>. DEFINE B == {m \in D : ~Ends(m, f[m])}
  <2>. SUFFICES ASSUME B # {} PROVE FALSE
    OBVIOUS
  <2>1. PICK m \in B : \A k \in B : k <= m
    <3>. B \in SUBSET D
      OBVIOUS
    <3>. HIDE DEF B
    <3>. QED
      BY <1>1, GreatestMember
  <2>2. m \in D /\ ~Ends(m, f[m])
    BY <2>1
  <2>3. CASE m \in S
    <3>1. m + 1 \in D
      BY <1>1, <2>3 DEF EventNos
    <3>2. m + 1 \notin B
      BY <1>1, <2>1, <3>1
    <3>3. Ends(m + 1, f[m + 1])
      BY <3>1, <3>2
    <3>4. f[m] = f[m + 1]
      BY <1>8, <2>2, <2>3
    <3>. QED
      BY <1>1, <2>2, <2>3, <3>3, <3>4
  <2>4. CASE m \notin S
    BY <1>1, <1>8, <2>2, <2>4
  <2>. QED
    BY <2>3, <2>4
<1>. QED
  BY <1>7, <1>9

LEMMA TopIsLowest ==
    ASSUME TypeOK, game_events # {}
    PROVE  Top \in game_events /\ \A m \in game_events : Top <= m
<1>1. MaxEvents - 1 \in Nat /\ game_events \in SUBSET (0 .. MaxEvents - 1)
  BY DeliveryAssumption DEF TypeOK, EventNos
<1>2. \E n \in game_events : \A m \in game_events : n <= m
  BY <1>1, LeastMember
<1>. QED
  BY <1>2 DEF Top

\* What gui_communicate finds on top of the queue is the command the picture needs
\* next: the first one of a game, or the one after the last command sent.
LEMMA TopIsNext ==
    ASSUME IInv, is_gui_data
    PROVE  /\ Top \in game_events /\ Top < last_event /\ game_id \in Games
           /\ \A m \in game_events : Top <= m
           /\ \/ Top = 0 /\ game_events = Showable
              \/ /\ 0 \in events_no /\ 0 \notin game_events
                 /\ screen.game = game_id /\ Top = screen.no + 1
                 /\ game_events = {n \in Showable : n > screen.no}
<1>. USE DEF IInv
<1>1. /\ Top \in game_events /\ Top < last_event
      /\ \A m \in game_events : Top <= m
  BY TopIsLowest DEF is_gui_data
<1>2. /\ events_no \subseteq Nat /\ game_events \subseteq Nat /\ last_event \in Nat
      /\ screen.no \in Nat
  BY DeliveryAssumption DEF TypeOK, EventNos
<1>3. \A n \in 0 .. last_event - 1 : n \in events_no
  BY DEF AsksForFirstGap, IsFirstGap
<1>4. 0 \in events_no
  BY <1>1, <1>2, <1>3
<1>5. game_id \in Games /\ \A n \in events_no : n < Len(log[game_id])
  BY <1>4 DEF OnlyGenuineEvents
<1>6. CASE 0 \in game_events
  <2>1. Top = 0
    BY <1>1, <1>2, <1>6
  <2>. QED
    BY <1>1, <1>5, <1>6, <2>1 DEF QueueIsUnshown
<1>7. CASE 0 \notin game_events
  <2>1. screen.game = game_id /\ game_events = {n \in Showable : n > screen.no}
    BY <1>4, <1>7 DEF QueueIsUnshown
  <2>2. Top > screen.no /\ Top \in events_no
    BY <1>1, <2>1 DEF Showable
  <2>3. ASSUME screen.no + 1 < Top PROVE FALSE
    <3>. DEFINE s == screen.no + 1
    <3>1. s \in events_no /\ s \in Nat /\ s > screen.no
      BY <1>1, <1>2, <1>3, <2>3
    <3>2. s \notin game_events
      BY <1>1, <1>2, <2>3
    <3>3. TypeOf(game_id, s) = "GAME_OVER"
      BY <2>1, <3>1, <3>2 DEF Showable
    <3>4. Len(log[game_id]) \in Nat
      BY <1>5 DEF TypeOK
    <3>5. s + 1 \in 1 .. Len(log[game_id])
      BY <1>5, <3>1, <3>4
    <3>6. s + 1 = Len(log[game_id])
      BY <1>5, <3>3, <3>5 DEF LogShape, TypeOf
    <3>7. Top < Len(log[game_id])
      BY <1>5, <2>2
    <3>. QED
      BY <1>1, <1>2, <2>3, <3>1, <3>4, <3>6, <3>7
  <2>4. Top = screen.no + 1
    BY <1>1, <1>2, <2>2, <2>3
  <2>. QED
    BY <1>1, <1>4, <1>5, <1>7, <2>1, <2>4
<1>. QED
  BY <1>6, <1>7

LEMMA GuiIInv == ASSUME IInv, GuiCommunicate PROVE IInv'
<1>. USE DEF IInv
<1>1. /\ is_gui_data
      /\ screen' = [game |-> game_id, no |-> Top]
      /\ game_events' = game_events \ {Top}
      /\ UNCHANGED server /\ datagrams' = datagrams /\ requests' = requests
      /\ UNCHANGED door /\ st' = st
      /\ game_id' = game_id /\ last_event' = last_event /\ events_no' = events_no
      /\ names_known' = names_known /\ exited' = exited
  BY DEF GuiCommunicate, network
<1>2. LogShape' /\ log' = log
  BY <1>1, SameLog DEF server
<1>3. DatagramsGenuine' /\ AsksForFirstGap'
  BY <1>1, <1>2 DEF DatagramsGenuine, AsksForFirstGap, IsFirstGap
<1>4. /\ Top \in game_events /\ Top < last_event /\ game_id \in Games
      /\ \A m \in game_events : Top <= m
      /\ \/ Top = 0 /\ game_events = Showable
         \/ /\ 0 \in events_no /\ 0 \notin game_events
            /\ screen.game = game_id /\ Top = screen.no + 1
            /\ game_events = {n \in Showable : n > screen.no}
  BY <1>1, TopIsNext
<1>5. /\ game_events \subseteq EventNos /\ game_events \subseteq Nat
      /\ screen.no \in Nat
      /\ Top \in EventNos /\ Top \in Showable /\ Top \in events_no
      /\ Showable \subseteq Nat
      /\ 0 \notin Games
  <2>1. EventNos \subseteq Nat /\ 0 \notin Games
    BY DeliveryAssumption DEF EventNos, Games
  <2>2. game_events \subseteq EventNos /\ events_no \subseteq EventNos
    BY DEF TypeOK
  <2>3. screen.no \in Nat
    BY <2>1 DEF TypeOK
  <2>4. Top \in Showable
    BY <1>4
  <2>5. Top \in events_no /\ Showable \subseteq events_no
    BY <2>4 DEF Showable
  <2>. QED
    BY <1>4, <2>1, <2>2, <2>3, <2>4, <2>5
<1>6. TypeOK'
  BY <1>1, <1>4, <1>5 DEF TypeOK, server, door
<1>7. OnlyGenuineEvents'
  BY <1>1, <1>2, <1>4, <1>5 DEF OnlyGenuineEvents, Showable, TypeOf
<1>8. Showable' = Showable
  BY <1>1, <1>2 DEF Showable, TypeOf
<1>9. QueueIsUnshown'
  <2>1. 0 \in events_no /\ 0 \notin game_events'
    BY <1>1, <1>4, <1>5
  <2>2. game_events' = {n \in Showable : n > Top}
    <3>1. CASE Top = 0 /\ game_events = Showable
      <4>1. \A m \in Nat : m # 0 <=> m > 0
        OBVIOUS
      <4>2. game_events' = {n \in Showable : n # 0}
        BY <1>1, <3>1
      <4>. QED
        BY <1>5, <3>1, <4>1, <4>2
    <3>2. CASE Top = screen.no + 1 /\ game_events = {n \in Showable : n > screen.no}
      <4>. DEFINE s == screen.no
      <4>1. \A m \in game_events : m # Top <=> m > s + 1
        BY <1>4, <1>5, <3>2
      <4>2. \A m \in Nat : m > s + 1 => m > s
        BY <1>5
      <4>. QED
        BY <1>1, <3>2, <4>1, <4>2, <1>5
    <3>. QED
      BY <1>4, <3>1, <3>2
  <2>. QED
    BY <1>1, <1>4, <1>8, <2>1, <2>2 DEF QueueIsUnshown
<1>10. NamesBeforeMoves'
  <2>1. names_known
    BY <1>4, <1>5 DEF NamesBeforeMoves
  <2>. QED
    BY <1>1, <2>1 DEF NamesBeforeMoves
<1>. QED
  BY <1>2, <1>3, <1>6, <1>7, <1>9, <1>10

\* Taking a datagram: what is new in it has not been shown yet.
LEMMA StoreIInv ==
    ASSUME IInv, NEW d \in datagrams, Accepted(d), Store(d), ~exited,
           datagrams' \subseteq datagrams, UNCHANGED <<server, door, requests, st, screen>>
    PROVE  IInv'
<1>. USE DEF IInv
<1>. DEFINE had == Kept(d, events_no)
            fresh == {n \in Carried(d) \ had : TypeOf(d.game, n) # "GAME_OVER"}
<1>1. /\ game_id' = d.game
      /\ events_no' = had \cup Carried(d)
      /\ game_events' = Kept(d, game_events) \cup fresh
      /\ last_event' = IF Carried(d) \subseteq had THEN LastStart(d)
                       ELSE Advance(events_no', LastStart(d))
      /\ names_known' = (names_known \/ d.first = 0)
      /\ exited' = exited /\ screen' = screen
  <2>1. had \cup (Carried(d) \ had) = had \cup Carried(d)
    OBVIOUS
  <2>2. Carried(d) \ had = {} <=> Carried(d) \subseteq had
    OBVIOUS
  <2>. QED
    BY <2>1, <2>2 DEF Store, NotIn
<1>2. LogShape' /\ log' = log
  BY SameLog DEF server
<1>3. /\ d.game \in Games /\ d.first \in EventNos /\ d.last \in EventNos
      /\ d.last < Len(log[d.game]) /\ Len(log[d.game]) \in Nat
  <2>1. d \in Datagram
    BY DEF TypeOK
  <2>. QED
    BY <2>1 DEF TypeOK, Datagram, DatagramsGenuine
<1>4. /\ EventNos \subseteq Nat /\ events_no \subseteq EventNos
      /\ game_events \subseteq EventNos /\ last_event \in Nat /\ screen.no \in Nat
  BY DeliveryAssumption DEF TypeOK, EventNos
<1>5. /\ Carried(d) \subseteq EventNos
      /\ \A n \in Carried(d) : n < Len(log[d.game])
      /\ d.first # 0 => 0 \notin Carried(d)
  BY <1>3, DeliveryAssumption DEF Carried, EventNos
<1>6. 0 \in Carried(d) => TypeOf(d.game, 0) # "GAME_OVER"
  <2>1. Len(log[d.game]) > 0
    <3>1. d.last \in Nat
      BY <1>3, <1>4
    <3>. QED
      BY <1>3, <3>1
  <2>2. d.game <= s_game
    <3>1. d.game \in Nat /\ s_game \in Nat
      BY <1>3, DeliveryAssumption DEF Games, TypeOK
    <3>2. d.game > s_game => log[d.game] = <<>>
      BY <1>3 DEF LogShape
    <3>. QED
      BY <2>1, <3>1, <3>2
  <2>. QED
    BY <1>3, <2>2 DEF LogShape, TypeOf
<1>7. \/ Switches(d) /\ had = {} /\ Kept(d, game_events) = {}
      \/ /\ ~Switches(d) /\ game_id = d.game
         /\ had = events_no /\ Kept(d, game_events) = game_events
  BY DEF Accepted, Kept
<1>. HIDE DEF had
<1>71. last_event' \in 0 .. MaxEvents /\ IsFirstGap(last_event', events_no')
  <2>1. events_no' \in SUBSET EventNos
    BY <1>1, <1>4, <1>5, <1>7
  <2>2. /\ LastStart(d) \in 0 .. MaxEvents
        /\ \A n \in 0 .. LastStart(d) - 1 : n \in events_no'
    <3>1. CASE Switches(d)
      BY <3>1, DeliveryAssumption DEF LastStart
    <3>2. CASE ~Switches(d)
      BY <1>1, <1>7, <3>2 DEF LastStart, TypeOK, AsksForFirstGap, IsFirstGap
    <3>. QED
      BY <3>1, <3>2
  <2>3. CASE Carried(d) \subseteq had
    <3>1. d.first \in Carried(d)
      <4>1. d \in Datagram
        BY DEF TypeOK
      <4>2. d.first <= d.last
        BY <4>1 DEF Datagram
      <4>3. d.first \in Int /\ d.last \in Int
        BY <1>3, DeliveryAssumption DEF EventNos
      <4>. QED
        BY <4>2, <4>3 DEF Carried
    <3>2. ~Switches(d) /\ had = events_no
      BY <1>7, <2>3, <3>1
    <3>3. last_event' = last_event /\ events_no' = events_no
      BY <1>1, <2>3, <3>2 DEF LastStart
    <3>. QED
      BY <3>3 DEF TypeOK, AsksForFirstGap, IsFirstGap
  <2>4. CASE ~(Carried(d) \subseteq had)
    <3>. DEFINE s == LastStart(d)
                r == Advance(events_no', s)
    <3>1. last_event' = r
      BY <1>1, <2>4
    <3>2. r \in s .. MaxEvents /\ r \notin events_no' /\ \A k \in s .. r - 1 : k \in events_no'
      BY <2>1, <2>2, LoopEnds
    <3>3. s \in Nat /\ MaxEvents \in Nat
      BY <2>2, DeliveryAssumption
    <3>. HIDE DEF s, r
    <3>4. \A k \in 0 .. r - 1 : k \in 0 .. s - 1 \/ k \in s .. r - 1
      BY <3>2, <3>3
    <3>5. \A k \in 0 .. s - 1 : k \in events_no'
      BY <2>2 DEF s
    <3>6. r \in 0 .. MaxEvents
      BY <3>2, <3>3
    <3>. QED
      BY <3>1, <3>2, <3>4, <3>5, <3>6 DEF IsFirstGap
  <2>. QED
    BY <2>3, <2>4
<1>8. DatagramsGenuine' /\ AsksForFirstGap'
  BY <1>1, <1>2, <1>71 DEF DatagramsGenuine, AsksForFirstGap
<1>9. TypeOK'
  <2>1. had \subseteq EventNos /\ Kept(d, game_events) \subseteq EventNos
    BY <1>4, <1>7
  <2>2. events_no' \subseteq EventNos /\ game_events' \subseteq EventNos
    BY <1>1, <1>5, <2>1
  <2>3. game_id' \in JunkIds \cup Games /\ names_known' \in BOOLEAN
    BY <1>1, <1>3 DEF TypeOK
  <2>. QED
    BY <1>1, <1>71, <2>2, <2>3 DEF TypeOK, server, door
<1>10. OnlyGenuineEvents'
  <2>1. \A n \in had : n < Len(log[d.game])
    BY <1>7 DEF OnlyGenuineEvents
  <2>2. \A n \in events_no' : n < Len(log[d.game])
    BY <1>1, <1>5, <2>1
  <2>. QED
    BY <1>1, <1>2, <1>3, <2>2 DEF OnlyGenuineEvents, TypeOf
<1>11. Showable' = {n \in had : TypeOf(d.game, n) # "GAME_OVER"}
                      \cup {n \in Carried(d) : TypeOf(d.game, n) # "GAME_OVER"}
  BY <1>1, <1>2 DEF Showable, TypeOf
<1>12. QueueIsUnshown'
  <2>1. CASE Switches(d)
    <3>1. game_events' = Showable'
      BY <1>1, <1>7, <1>11, <2>1
    <3>2. 0 \in events_no' => 0 \in game_events'
      BY <1>1, <1>6, <1>7, <2>1
    <3>. QED
      BY <3>1, <3>2 DEF QueueIsUnshown
  <2>2. CASE ~Switches(d)
    <3>1. /\ game_id = d.game /\ had = events_no
          /\ game_events' = game_events \cup fresh
          /\ events_no' = events_no \cup Carried(d)
      BY <1>1, <1>7, <2>2
    <3>2. Showable' = Showable \cup fresh
      BY <1>11, <3>1 DEF Showable
    <3>3. CASE 0 \in events_no /\ 0 \notin game_events
      <4>1. /\ screen.game = game_id /\ screen.no < last_event
            /\ game_events = {n \in Showable : n > screen.no}
        BY <3>3 DEF QueueIsUnshown
      <4>2. \A n \in Nat : n \notin events_no => last_event <= n
        BY <1>4 DEF AsksForFirstGap, IsFirstGap
      <4>3. last_event' \in Nat /\ last_event' \notin events_no
        BY <1>1, <1>71, <3>1, DeliveryAssumption DEF IsFirstGap
      <4>4. screen.no < last_event'
        BY <1>4, <4>1, <4>2, <4>3
      <4>5. \A n \in fresh : n \in Nat /\ n \notin events_no
        BY <1>4, <1>5, <3>1
      <4>6. \A n \in fresh : n > screen.no
        BY <1>4, <4>1, <4>2, <4>5
      <4>7. game_events' = {n \in Showable' : n > screen.no}
        BY <3>1, <3>2, <4>1, <4>6
      <4>8. 0 \in events_no' /\ 0 \notin game_events'
        BY <3>1, <3>3
      <4>. QED
        BY <1>1, <3>1, <4>1, <4>4, <4>7, <4>8 DEF QueueIsUnshown
    <3>4. CASE ~(0 \in events_no /\ 0 \notin game_events)
      <4>1. game_events = Showable
        BY <3>4 DEF QueueIsUnshown
      <4>2. game_events' = Showable'
        BY <3>1, <3>2, <4>1
      <4>3. 0 \in events_no' => 0 \in game_events'
        BY <1>6, <3>1, <3>4
      <4>. QED
        BY <4>2, <4>3 DEF QueueIsUnshown
    <3>. QED
      BY <3>3, <3>4
  <2>. QED
    BY <2>1, <2>2
<1>13. NamesBeforeMoves'
  <2>. SUFFICES ASSUME ~names_known'
                PROVE  game_id' \in JunkIds /\ last_event' = 0 /\ screen'.game = NoGame
    BY <1>1 DEF NamesBeforeMoves
  <2>1. ~names_known /\ d.first # 0
    BY <1>1
  <2>2. game_id = d.game /\ events_no' = events_no \cup Carried(d)
    BY <1>1, <1>7, <2>1 DEF Switches
  <2>3. game_id \in JunkIds /\ last_event = 0 /\ screen.game = NoGame
    BY <2>1 DEF NamesBeforeMoves
  <2>4. 0 \notin events_no'
    BY <1>5, <2>1, <2>2, <2>3 DEF AsksForFirstGap, IsFirstGap
  <2>5. last_event' = 0
    <3>1. last_event' \in Nat
      BY <1>71, DeliveryAssumption
    <3>2. \A n \in 0 .. last_event' - 1 : n \in events_no'
      BY <1>71 DEF IsFirstGap
    <3>3. \A m \in Nat : m # 0 => 0 \in 0 .. m - 1
      OBVIOUS
    <3>. QED
      BY <2>4, <3>1, <3>2, <3>3
  <2>. QED
    BY <1>1, <2>2, <2>3, <2>5
<1>. QED
  BY <1>2, <1>8, <1>9, <1>10, <1>12, <1>13

LEMMA ReceiveIInv ==
    ASSUME IInv, NEW d \in datagrams, NEW again \in BOOLEAN, Receive(d, again)
    PROVE  IInv'
<1>. USE DEF IInv
<1>1. /\ ~exited /\ datagrams' \subseteq datagrams
      /\ UNCHANGED <<server, door>> /\ requests' = requests
      /\ st' = st /\ screen' = screen
  BY DEF Receive
<1>2. CASE Accepted(d) /\ ~Nameless(d) /\ Store(d)
  BY <1>1, <1>2, StoreIInv
<1>3. CASE /\ Accepted(d) /\ Nameless(d)
           /\ exited' = TRUE
           /\ UNCHANGED <<game_id, last_event, events_no, game_events, names_known>>
  <2>1. LogShape' /\ log' = log
    BY <1>1, SameLog DEF server
  <2>2. TypeOK' /\ DatagramsGenuine'
    BY <1>1, <1>3, <2>1 DEF TypeOK, DatagramsGenuine, server, door
  <2>3. AsksForFirstGap' /\ OnlyGenuineEvents' /\ QueueIsUnshown'
    BY <1>1, <1>3, <2>1
       DEF AsksForFirstGap, IsFirstGap, OnlyGenuineEvents, QueueIsUnshown, Showable, TypeOf
  <2>4. ~names_known /\ game_id \in Games
    BY <1>3 DEF Nameless, Accepted, TypeOK, Datagram
  <2>5. NamesBeforeMoves'
    BY <1>1, <1>3, <2>4 DEF NamesBeforeMoves
  <2>. QED
    BY <2>1, <2>2, <2>3, <2>5
<1>4. CASE ~Accepted(d) /\ UNCHANGED client
  BY <1>1, <1>4, IdleIInv DEF TypeOK, door
<1>. QED
  BY <1>2, <1>3, <1>4 DEF Receive

-----------------------------------------------------------------------------
(* Every step. *)

LEMMA NextIInv == ASSUME IInv, [Next]_vars PROVE IInv'
<1>1. CASE StartGame
  BY <1>1, StartGameIInv
<1>2. CASE Tick
  BY <1>2, TickIInv
<1>3. CASE Disconnect
  BY <1>3, IdleIInv DEF Disconnect, IInv, TypeOK, network
<1>4. CASE \E n \in requests : \E again \in BOOLEAN, lost \in SUBSET Reply(n) :
              HandleRequest(n, again, lost)
  BY <1>4, HandleRequestIInv
<1>5. CASE \E lost \in BOOLEAN : SendRequest(lost)
  <2>1. /\ UNCHANGED <<server, client, screen>> /\ datagrams' = datagrams
        /\ UNCHANGED door /\ st' = "SEND_TO_GUI"
        /\ requests' \subseteq requests \cup {last_event}
    BY <1>5 DEF SendRequest, next_expected
  <2>2. /\ requests' \subseteq 0 .. MaxEvents /\ st' \in States
        /\ connected' \in BOOLEAN /\ named' \in BOOLEAN /\ crowded' \in BOOLEAN
    BY <2>1 DEF IInv, TypeOK, States, door
  <2>. QED
    BY <2>1, <2>2, IdleIInv
<1>6. CASE GuiCommunicate
  BY <1>6, GuiIInv
<1>7. CASE LeaveGui
  BY <1>7, IdleIInv DEF LeaveGui, IInv, TypeOK, network, States, door
<1>8. CASE Timeout
  BY <1>8, IdleIInv DEF Timeout, IInv, TypeOK, network, States, door
<1>9. CASE \E d \in datagrams : \E again \in BOOLEAN : Receive(d, again)
  BY <1>9, ReceiveIInv
<1>10. CASE UNCHANGED vars
  BY <1>10, IdleIInv DEF vars, network, IInv, TypeOK, door
<1>11. CASE \E n \in requests, again \in BOOLEAN : RefuseRequest(n, again)
  BY <1>11, IdleIInv DEF RefuseRequest, IInv, TypeOK, network, door
<1>12. CASE OthersChange
  BY <1>12, IdleIInv DEF OthersChange, IInv, TypeOK, network
<1>. QED
  BY <1>1, <1>2, <1>3, <1>4, <1>5, <1>6, <1>7, <1>8, <1>9, <1>10, <1>11, <1>12 DEF Next

\* The conjunction the delivery protocol maintains.
THEOREM DeliveryInvariant == Spec => []IInv
  BY InitIInv, NextIInv, PTL DEF Spec

\* Types, the range of every number among them (EventDelivery!TypeOK).
THEOREM DeliveryTypes == Spec => []TypeOK
<1>1. IInv => TypeOK
  BY DEF IInv
<1>. QED
  BY <1>1, DeliveryInvariant, PTL

\* The client asks for exactly the first event it misses (siktacka-client.cc
\* handle_incoming_data_server, send_request).
THEOREM AskedForFirstGap == Spec => []AsksForFirstGap
<1>1. IInv => AsksForFirstGap
  BY DEF IInv
<1>. QED
  BY <1>1, DeliveryInvariant, PTL

\* The client never mixes the events of two games, whatever the network holds back
\* and delivers late.
THEOREM NeverMixed == Spec => []OnlyGenuineEvents
<1>1. IInv => OnlyGenuineEvents
  BY DEF IInv
<1>. QED
  BY <1>1, DeliveryInvariant, PTL

\* The priority queue of the client is what it has and has not shown.
THEOREM QueueHoldsUnshown == Spec => []QueueIsUnshown
<1>1. IInv => QueueIsUnshown
  BY DEF IInv
<1>. QED
  BY <1>1, DeliveryInvariant, PTL

\* Moves without names end a client only if its uninitialised game_id was the id of
\* a game.
THEOREM NamedBeforeMoves == Spec => []NamesBeforeMoves
<1>1. IInv => NamesBeforeMoves
  BY DEF IInv
<1>. QED
  BY <1>1, DeliveryInvariant, PTL

-----------------------------------------------------------------------------
(* The client implements GuiFeed. *)

LEMMA StepFeeds == ASSUME IInv, [Next]_vars PROVE [Feed!Next]_screen
<1>1. CASE GuiCommunicate
  <2>1. is_gui_data /\ screen' = [game |-> game_id, no |-> Top]
    BY <1>1 DEF GuiCommunicate
  <2>2. screen = [game |-> screen.game, no |-> screen.no]
    BY DEF IInv, TypeOK
  <2>3. game_id \in Games /\ NoGame \notin Games
    BY <2>1, TopIsNext, DeliveryAssumption DEF Games, NoGame
  <2>4. CASE Top = 0
    BY <2>1, <2>3, <2>4 DEF Feed!Next, Feed!ShowNewGame
  <2>5. CASE screen.game = game_id /\ Top = screen.no + 1
    <3>1. screen' = [screen EXCEPT !.no = @ + 1]
      BY <2>1, <2>2, <2>5
    <3>. QED
      BY <2>3, <2>5, <3>1 DEF Feed!Next, Feed!ShowNext
  <2>. QED
    BY <2>1, <2>4, <2>5, TopIsNext
<1>2. CASE ~GuiCommunicate
  BY <1>2 DEF Next, vars, StartGame, Tick, Disconnect, HandleRequest, RefuseRequest,
              OthersChange, SendRequest,
              LeaveGui, Timeout, Receive
<1>. QED
  BY <1>1, <1>2

\* Over a network that loses, delays, reorders and duplicates datagrams the GUI gets
\* the commands of a game in order, without gaps and without duplicates.
THEOREM ClientFeedsGui == Spec => FeedSpec
<1>1. Init => Feed!Init
  BY DEF Init, Feed!Init
<1>. QED
  BY <1>1, StepFeeds, DeliveryInvariant, PTL DEF Spec, FeedSpec, Feed!Spec
=============================================================================
