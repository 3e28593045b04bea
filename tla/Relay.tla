-------------------------------- MODULE Relay --------------------------------
(***************************************************************************)
(* The UDP relay of SIK task 1: every valid datagram is queued with the    *)
(* clients heard in the last MaxSilence seconds and sent to them, one      *)
(* client per poll that finds the socket empty.                            *)
(***************************************************************************)
EXTENDS Integers

CONSTANTS
    Client,         \* addresses, in the order of operator<
    Capacity,       \* buffer_size
    MaxSilence,     \* of refresh_clients
    MaxTime,        \* bound: std::time
    MaxAccepted,    \* bound: datagrams queued
    Never           \* no entry in former_clients; no element in the buffer

INSTANCE RingBuffer WITH Destroyed <- Never

RelayConstants == Client \subseteq Int /\ Capacity \in Nat \ {0, 1} /\ MaxSilence \in Nat

VARIABLES
    now,            \* std::time
    former_clients, \* when every client was heard last
    buffer,         \* requests, each with its stack of clients
    alive,          \* the process has not crashed
    accepted,       \* how many datagrams were queued
    sent            \* the datagrams sent

relayVars == <<now, former_clients, buffer, alive, accepted, sent>>

Known(heard) == {c \in Client : heard[c] # Never}
Stale(heard) == {c \in Known(heard) : now - heard[c] > MaxSilence}

Init ==
    /\ now = 0
    /\ former_clients = [c \in Client |-> Never]
    /\ buffer = EmptyBuffer(Capacity)
    /\ alive = TRUE /\ accepted = 0 /\ sent = <<>>

Tick == now < MaxTime /\ now' = now + 1 /\ UNCHANGED <<former_clients, buffer, alive, accepted, sent>>

\* refresh_clients pushes what the loop visits and is fresh.  The loop goes on from an
\* iterator it has erased: from there on any entries may be skipped.
Visits(heard) ==
    LET stale == Stale(heard)
        before == {c \in Known(heard) : \A s \in stale : c < s}
        first == {s \in stale : \A t \in stale : s <= t}
    IN IF stale = {} THEN {Known(heard)}
       ELSE {before \cup first \cup S : S \in SUBSET Known(heard)}

\* handle_data for a valid datagram of client c.
HandleData(c) ==
    LET heard == [former_clients EXCEPT ![c] = now]
    IN /\ alive /\ accepted < MaxAccepted
       /\ accepted' = accepted + 1
       /\ \E visited \in Visits(heard) :
             /\ former_clients' =
                   [d \in Client |-> IF d \in visited \cap Stale(heard) THEN Never ELSE heard[d]]
             /\ buffer' = PushBack(buffer, [id |-> accepted', stack |-> visited \ Stale(heard)])
       /\ UNCHANGED <<now, alive, sent>>

\* The erased iterator may also bring the server down.
CrashInRefresh(c) ==
    /\ alive
    /\ Stale([former_clients EXCEPT ![c] = now]) # {}
    /\ alive' = FALSE
    /\ UNCHANGED <<now, former_clients, buffer, accepted, sent>>

\* handle_data for BadDatagram: the client counts as heard.
HandleBadDatagram(c) ==
    /\ alive
    /\ former_clients' = [former_clients EXCEPT ![c] = now]
    /\ UNCHANGED <<now, buffer, alive, accepted, sent>>

\* poll found nothing to read: the client on top of the first stack is served, or the
\* request whose stack is empty removed.
SendReply ==
    LET request == Front(buffer)
    IN /\ alive /\ ~IsEmpty(buffer)
       /\ \/ \E top \in request.stack :
                /\ \A c \in request.stack : c <= top
                /\ sent' = Append(sent, [id |-> request.id, to |-> top])
                /\ buffer' = ReplaceFront(buffer, [request EXCEPT !.stack = @ \ {top}])
          \/ /\ request.stack = {}
             /\ buffer' = PopFront(buffer) /\ UNCHANGED sent
       /\ UNCHANGED <<now, former_clients, alive, accepted>>

Next ==
    \/ Tick \/ SendReply
    \/ \E c \in Client : HandleData(c) \/ CrashInRefresh(c) \/ HandleBadDatagram(c)

Spec == Init /\ [][Next]_relayVars
-----------------------------------------------------------------------------
TypeOK ==
    /\ now \in 0 .. MaxTime /\ accepted \in 0 .. MaxAccepted
    /\ former_clients \in [Client -> (0 .. MaxTime) \cup {Never}]
    /\ buffer.contents_size \in 0 .. Capacity
    /\ \A i \in 1 .. buffer.contents_size : Items(buffer)[i].stack \subseteq Client

Queue == [i \in 1 .. buffer.contents_size |->
             [id |-> Items(buffer)[i].id, owed |-> Items(buffer)[i].stack]]

Promise == INSTANCE Fanout WITH fresh <- Known(former_clients) \ Stale(former_clients),
                                silent <- Stale(former_clients), queue <- Queue

\* The relay implements Fanout, its ring of slots a queue that only ever loses its
\* oldest request and that one only when full: nobody gets a message twice, out of
\* order, or when silent for MaxSilence seconds before it was queued; nobody on a stack is
\* passed over, and everybody heard lately is on it (the sender included, whom
\* zadanie_1.txt:13 leaves out), unless the loop of refresh_clients erased an entry.
RelayPromise == Promise!Spec
=============================================================================
