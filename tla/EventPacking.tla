---------------------------- MODULE EventPacking ----------------------------
(***************************************************************************)
(* How the server cuts its log into datagrams: the loop of                 *)
(* ServerToClientMessage::send_message (communicate.cc), started by        *)
(* send_reply for the events from `first_event` on.                        *)
(*                                                                         *)
(* An event is represented by the length of its data (EventData::calc_len),*)
(* the buffer by the number of bytes in it and the events they hold.       *)
(***************************************************************************)
EXTENDS Naturals, Sequences, TLAPS

CONSTANTS
    MAX_MSG_SIZE,   \* 512 in the code
    DataLengths,    \* lengths of event data: 0 GAME_OVER, 1 PLAYER_ELIMINATED,
                    \* 9 PIXEL, NEW_GAME 8 and the names with their ends
    MaxEvents       \* bound: events in the log

PackingConstants ==
    /\ MAX_MSG_SIZE \in Nat /\ MAX_MSG_SIZE > 4
    /\ DataLengths \subseteq Nat
    /\ MaxEvents \in Nat

VARIABLES
    events,        \* the data lengths of *events_server
    first_event,   \* the argument last_event_no of send_message
    it,            \* index of the next event to put into the buffer, from 0
    size,          \* bytes in the buffer
    start,         \* index of the first event in the buffer
    sent,          \* what went to sendto: a sequence of [first, last, bytes]
    state          \* "packing", "done", "too large" or "blocked"

packVars == <<events, first_event, it, size, start, sent, state>>

Header == 4                               \* the game_id

\* Event::serialize: len, event_no, type, data and crc32.
Serialized(n) == 4 + (5 + n) + 4

\* mutant: only what follows the crc32 and len fields is counted
AbsoluteSizeOfBody(n) == 5 + n

\* Event::absolute_size, by which ensure_game_event_size decides.
AbsoluteSize(n) == 12 + (5 + n)

\* mutant: the room the header takes is forgotten
BiggerThanDatagram(n) == Serialized(n) > MAX_MSG_SIZE

TooLarge(n) == Serialized(n) > MAX_MSG_SIZE - 4

PackInit ==
    /\ events \in UNION {[1 .. k -> DataLengths] : k \in 0 .. MaxEvents}
    /\ first_event \in 0 .. MaxEvents
    /\ it = first_event
    /\ size = Header
    /\ start = first_event
    /\ sent = <<>>
    /\ state = IF first_event >= Len(events) THEN "done" ELSE "packing"

new_s == size + Serialized(events[it + 1])

\* The event fits behind those in the buffer.
Put ==
    /\ state = "packing"
    /\ it < Len(events)
    /\ ~TooLarge(events[it + 1])
    /\ new_s <= MAX_MSG_SIZE
    /\ size' = new_s
    /\ it' = it + 1
    /\ UNCHANGED <<events, first_event, start, sent, state>>

\* mutant: the event that did not fit is counted as sent
ItInstead(i) == i

LastIn(i) == i - 1

InBuffer == [first |-> start, last |-> LastIn(it), bytes |-> size]

\* It does not: the buffer is sent and the event tried again behind a header.
Flush ==
    /\ state = "packing"
    /\ it < Len(events)
    /\ ~TooLarge(events[it + 1])
    /\ new_s > MAX_MSG_SIZE
    /\ sent' = Append(sent, InBuffer)
    /\ size' = Header
    /\ start' = it
    /\ UNCHANGED <<events, first_event, it, state>>

\* mutant: the error is logged and the loop goes on with the same event
GiveUpNever ==
    /\ state = "packing"
    /\ it < Len(events)
    /\ TooLarge(events[it + 1])
    /\ UNCHANGED packVars

\* An event no datagram has room for: MessageTooLarge, with events in the buffer.
GiveUp ==
    /\ state = "packing"
    /\ it < Len(events)
    /\ TooLarge(events[it + 1])
    /\ state' = "too large"
    /\ UNCHANGED <<events, first_event, it, size, start, sent>>

\* After the last event.
SendLast ==
    /\ state = "packing"
    /\ it = Len(events)
    /\ sent' = Append(sent, InBuffer)
    /\ state' = "done"
    /\ UNCHANGED <<events, first_event, it, size, start>>

\* sendto fails in Flush or SendLast: WouldBlock or NetworkUnreachable.
Blocked ==
    /\ state = "packing"
    /\ \/ it = Len(events)
       \/ it < Len(events) /\ ~TooLarge(events[it + 1]) /\ new_s > MAX_MSG_SIZE
    /\ state' = "blocked"
    /\ UNCHANGED <<events, first_event, it, size, start, sent>>

PackNext == Put \/ Flush \/ GiveUp \/ SendLast \/ Blocked

PackSpec == PackInit /\ [][PackNext]_packVars

-----------------------------------------------------------------------------
(* Properties. *)

PackTypeOK ==
    /\ events \in Seq(DataLengths)
    /\ first_event \in Nat
    /\ it \in Nat
    /\ size \in Nat
    /\ start \in Nat
    /\ sent \in Seq([first : Nat, last : Nat, bytes : Nat])
    /\ state \in {"packing", "done", "too large", "blocked"}

\* No datagram is longer than clients accept, and none is without an event: a
\* client never loses the reply to InvalidLoad, nor is an empty one sent on and on.
DatagramsWellSized ==
    \A i \in 1 .. Len(sent) :
        /\ sent[i].bytes <= MAX_MSG_SIZE
        /\ sent[i].first <= sent[i].last
        /\ sent[i].last < Len(events)

\* The datagrams of a reply follow one another without a gap or an overlap, the
\* events in the buffer follow the last of them, and when send_message returns
\* they end with the last event of the log, also after a flush.
NothingSkipped ==
    /\ Len(sent) > 0 => sent[1].first = first_event
    /\ \A i \in 1 .. Len(sent) - 1 : sent[i + 1].first = sent[i].last + 1
    /\ state = "packing" => start = IF sent = <<>> THEN first_event
                                    ELSE sent[Len(sent)].last + 1
    /\ state = "done" /\ first_event < Len(events) =>
          sent # <<>> /\ sent[Len(sent)].last = Len(events) - 1

\* What ensure_game_event_size lets into a log never makes send_message throw:
\* the two size computations are different ones.
EnsuredSizeFits ==
    (\A i \in 1 .. Len(events) : AbsoluteSize(events[i]) <= MAX_MSG_SIZE)
        => state # "too large"

\* Both: sizes are right on the way in and on the way out.
SizesFit == DatagramsWellSized /\ EnsuredSizeFits

\* send_message ends; in particular an event that does not fit is not tried again
\* and again.
Ends == <>(state # "packing")
-----------------------------------------------------------------------------
(* Proofs, for any size of datagrams, any lengths of events and any log. *)

Room == MAX_MSG_SIZE - Header

\* The buffer: it never exceeds a datagram, and it is just a header exactly when no
\* event was put into it, so that an event that overflows it is never alone in it.
BufferOK ==
    state = "packing" =>
        /\ first_event <= start
        /\ start <= it
        /\ it <= Len(events)
        /\ start < Len(events)
        /\ Header <= size
        /\ size <= MAX_MSG_SIZE
        /\ it = start => size = Header

PackInv == PackTypeOK /\ BufferOK /\ DatagramsWellSized /\ NothingSkipped /\ EnsuredSizeFits

\* The two computations agree: what ensure_game_event_size accepts fits behind a
\* header.
LEMMA SizesAgree ==
    ASSUME PackingConstants, NEW n \in Nat
    PROVE  AbsoluteSize(n) <= MAX_MSG_SIZE <=> ~TooLarge(n)
BY DEF PackingConstants, AbsoluteSize, TooLarge, Serialized

\* The next event to be packed is one of the log.
LEMMA NextEvent ==
    ASSUME PackingConstants, PackTypeOK, it < Len(events)
    PROVE  it + 1 \in 1 .. Len(events) /\ events[it + 1] \in Nat
<1>1. it \in Nat /\ events \in Seq(DataLengths)
  BY DEF PackTypeOK
<1>2. Len(events) \in Nat
  BY <1>1
<1>3. it + 1 \in 1 .. Len(events)
  BY <1>1, <1>2
<1>4. events[it + 1] \in DataLengths
  BY <1>1, <1>3
<1>. QED
  BY <1>3, <1>4 DEF PackingConstants

\* The logs the model starts with are sequences of data lengths.
LEMMA LogsAreSequences ==
    ASSUME PackingConstants, NEW l \in UNION {[1 .. k -> DataLengths] : k \in 0 .. MaxEvents}
    PROVE  l \in Seq(DataLengths)
<1>1. PICK k \in 0 .. MaxEvents : l \in [1 .. k -> DataLengths]
  OBVIOUS
<1>. QED
  BY <1>1 DEF PackingConstants

LEMMA InitPackInv == ASSUME PackingConstants, PackInit PROVE PackInv
<1>1. events \in Seq(DataLengths)
  BY LogsAreSequences DEF PackInit
<1>2. first_event \in Nat
  BY DEF PackingConstants, PackInit
<1>3. Len(events) \in Nat
  BY <1>1
<1>4. PackTypeOK
  BY <1>1, <1>2 DEF PackInit, PackTypeOK, Header
<1>5. BufferOK
  BY <1>2, <1>3 DEF PackingConstants, PackInit, BufferOK, Header
<1>6. DatagramsWellSized
  BY DEF PackInit, DatagramsWellSized
<1>7. NothingSkipped
  BY <1>2, <1>3 DEF PackInit, NothingSkipped
<1>8. EnsuredSizeFits
  BY DEF PackInit, EnsuredSizeFits
<1>. QED
  BY <1>4, <1>5, <1>6, <1>7, <1>8 DEF PackInv

\* Putting an event into the buffer.
LEMMA PutPackInv == ASSUME PackingConstants, PackInv, Put PROVE PackInv'
<1>. USE DEF PackInv
<1>1. events[it + 1] \in Nat
  BY NextEvent DEF Put
<1>2. PackTypeOK'
  BY <1>1 DEF PackTypeOK, Put, new_s, Serialized
<1>3. BufferOK'
  BY <1>1, SMTT(60) DEF BufferOK, PackTypeOK, Put, new_s, Serialized, Header
<1>4. DatagramsWellSized'
  BY DEF DatagramsWellSized, Put
<1>5. NothingSkipped'
  BY DEF NothingSkipped, Put
<1>6. EnsuredSizeFits'
  BY DEF EnsuredSizeFits, Put
<1>. QED
  BY <1>2, <1>3, <1>4, <1>5, <1>6

\* Sending a buffer that holds an event, whatever becomes of the rest.
LEMMA SendKeepsOrder ==
    ASSUME PackInv, state = "packing", start < it, it <= Len(events),
           sent' = Append(sent, InBuffer), UNCHANGED <<events, first_event>>
    PROVE  /\ sent' \in Seq([first : Nat, last : Nat, bytes : Nat])
           /\ sent' # <<>>
           /\ sent'[Len(sent')].last = it - 1
           /\ DatagramsWellSized'
           /\ sent'[1].first = first_event
           /\ \A i \in 1 .. Len(sent') - 1 : sent'[i + 1].first = sent'[i].last + 1
<1>. USE DEF PackInv
<1>1. /\ sent \in Seq([first : Nat, last : Nat, bytes : Nat])
      /\ start \in Nat /\ it \in Nat /\ size \in Nat /\ Len(events) \in Nat
      /\ Len(sent) \in Nat
  BY DEF PackTypeOK
<1>2. /\ InBuffer.first = start
      /\ InBuffer.last = it - 1
      /\ InBuffer.bytes = size
      /\ InBuffer \in [first : Nat, last : Nat, bytes : Nat]
  BY <1>1 DEF InBuffer, LastIn
<1>3. /\ Len(sent') = Len(sent) + 1
      /\ \A i \in 1 .. Len(sent) : sent'[i] = sent[i]
      /\ sent'[Len(sent) + 1] = InBuffer
      /\ sent' \in Seq([first : Nat, last : Nat, bytes : Nat])
  BY <1>1, <1>2
<1>4. DatagramsWellSized'
  <2>. SUFFICES ASSUME NEW i \in 1 .. Len(sent')
                PROVE  /\ sent'[i].bytes <= MAX_MSG_SIZE
                       /\ sent'[i].first <= sent'[i].last
                       /\ sent'[i].last < Len(events)
    BY DEF DatagramsWellSized
  <2>0. i \in 1 .. Len(sent) \/ i = Len(sent) + 1
    BY <1>1, <1>3
  <2>1. CASE i \in 1 .. Len(sent)
    BY <2>1, <1>3 DEF DatagramsWellSized
  <2>2. CASE i = Len(sent) + 1
    BY <2>2, <1>1, <1>2, <1>3 DEF BufferOK
  <2>. QED
    BY <2>0, <2>1, <2>2
<1>5. sent'[1].first = first_event
  <2>1. CASE sent = <<>>
    BY <2>1, <1>2, <1>3 DEF NothingSkipped
  <2>2. CASE sent # <<>>
    <3>1. Len(sent) > 0 /\ 1 \in 1 .. Len(sent)
      BY <2>2, <1>1
    <3>. QED
      BY <3>1, <1>3 DEF NothingSkipped
  <2>. QED
    BY <2>1, <2>2
<1>6. ASSUME NEW i \in 1 .. Len(sent') - 1
      PROVE  sent'[i + 1].first = sent'[i].last + 1
  <2>0. i \in Nat /\ 1 <= i /\ i <= Len(sent)
    <3>1. Len(sent') - 1 = Len(sent)
      BY <1>1, <1>3
    <3>. QED
      BY <3>1, <1>1
  <2>1. CASE i < Len(sent)
    <3>1. i \in 1 .. Len(sent) /\ i + 1 \in 1 .. Len(sent) /\ i \in 1 .. Len(sent) - 1
      BY <2>0, <2>1, <1>1
    <3>2. sent'[i + 1] = sent[i + 1] /\ sent'[i] = sent[i]
      BY <3>1, <1>3
    <3>3. sent[i + 1].first = sent[i].last + 1
      BY <3>1 DEF NothingSkipped
    <3>. QED
      BY <3>2, <3>3
  <2>2. CASE i = Len(sent)
    <3>1. Len(sent) > 0 /\ sent # <<>>
      BY <2>0, <2>2, <1>1
    <3>2. start = sent[Len(sent)].last + 1
      BY <3>1 DEF NothingSkipped
    <3>3. sent'[i + 1] = InBuffer /\ sent'[i] = sent[Len(sent)]
      BY <2>0, <2>2, <1>1, <1>3
    <3>. QED
      BY <3>2, <3>3, <1>2
  <2>. QED
    BY <2>0, <2>1, <2>2, <1>1, SMTT(60)
<1>7. sent' # <<>>
  BY <1>1, <1>3
<1>8. sent'[Len(sent')].last = it - 1
  BY <1>1, <1>2, <1>3
<1>. QED
  BY <1>3, <1>4, <1>5, <1>6, <1>7, <1>8

\* A buffer that overflows holds an event, because the event alone would fit.
LEMMA FlushPackInv == ASSUME PackingConstants, PackInv, Flush PROVE PackInv'
<1>. USE DEF PackInv
<1>0. /\ state = "packing" /\ it < Len(events) /\ new_s > MAX_MSG_SIZE
      /\ ~TooLarge(events[it + 1])
      /\ size' = Header /\ start' = it /\ it' = it /\ state' = state
      /\ events' = events /\ first_event' = first_event
  BY DEF Flush
<1>1. /\ events[it + 1] \in Nat
      /\ first_event \in Nat /\ start \in Nat /\ it \in Nat /\ size \in Nat
      /\ Len(events) \in Nat
  BY <1>0, NextEvent DEF PackTypeOK
<1>2. start < it
  BY <1>0, <1>1 DEF PackingConstants, BufferOK, TooLarge, new_s, Serialized, Header
<1>3. /\ sent' \in Seq([first : Nat, last : Nat, bytes : Nat])
      /\ sent' # <<>>
      /\ sent'[Len(sent')].last = it - 1
      /\ DatagramsWellSized'
      /\ sent'[1].first = first_event
      /\ \A i \in 1 .. Len(sent') - 1 : sent'[i + 1].first = sent'[i].last + 1
  <2>1. sent' = Append(sent, InBuffer) /\ UNCHANGED <<events, first_event>>
    BY DEF Flush
  <2>2. start < it /\ it <= Len(events) /\ state = "packing"
    BY <1>0, <1>1, <1>2
  <2>. QED
    BY <2>1, <2>2, SendKeepsOrder
<1>4. PackTypeOK'
  BY <1>0, <1>1, <1>3 DEF PackTypeOK, Header
<1>5. BufferOK'
  BY <1>0, <1>1, <1>2 DEF PackingConstants, BufferOK, Header
<1>6. NothingSkipped'
  BY <1>0, <1>1, <1>3 DEF NothingSkipped
<1>7. EnsuredSizeFits'
  BY <1>0 DEF EnsuredSizeFits
<1>. QED
  BY <1>3, <1>4, <1>5, <1>6, <1>7

LEMMA SendLastPackInv == ASSUME PackInv, SendLast PROVE PackInv'
<1>. USE DEF PackInv
<1>0. /\ state = "packing" /\ it = Len(events) /\ state' = "done"
      /\ size' = size /\ start' = start /\ it' = it
      /\ events' = events /\ first_event' = first_event
  BY DEF SendLast
<1>1. /\ start \in Nat /\ it \in Nat /\ Len(events) \in Nat
      /\ start < it /\ it = Len(events)
  BY <1>0 DEF PackTypeOK, BufferOK
<1>2. /\ sent' \in Seq([first : Nat, last : Nat, bytes : Nat])
      /\ sent' # <<>>
      /\ sent'[Len(sent')].last = it - 1
      /\ DatagramsWellSized'
      /\ sent'[1].first = first_event
      /\ \A i \in 1 .. Len(sent') - 1 : sent'[i + 1].first = sent'[i].last + 1
  <2>1. sent' = Append(sent, InBuffer) /\ UNCHANGED <<events, first_event>>
    BY DEF SendLast
  <2>2. start < it /\ it <= Len(events) /\ state = "packing"
    BY <1>0, <1>1
  <2>. QED
    BY <2>1, <2>2, SendKeepsOrder
<1>3. PackTypeOK'
  BY <1>0, <1>1, <1>2 DEF PackTypeOK
<1>4. BufferOK'
  BY <1>0 DEF BufferOK
<1>5. NothingSkipped'
  BY <1>0, <1>1, <1>2 DEF NothingSkipped
<1>6. EnsuredSizeFits'
  BY <1>0 DEF EnsuredSizeFits
<1>. QED
  BY <1>2, <1>3, <1>4, <1>5, <1>6

\* The two ways to stop without sending the buffer.
LEMMA StopPackInv == ASSUME PackingConstants, PackInv, GiveUp \/ Blocked PROVE PackInv'
<1>. USE DEF PackInv
<1>1. PackTypeOK' /\ BufferOK' /\ DatagramsWellSized' /\ NothingSkipped'
  BY DEF GiveUp, Blocked, PackTypeOK, BufferOK, DatagramsWellSized, NothingSkipped
<1>2. CASE GiveUp
  <2>1. it + 1 \in 1 .. Len(events) /\ events[it + 1] \in Nat
    BY <1>2, NextEvent DEF GiveUp
  <2>2. ~(AbsoluteSize(events[it + 1]) <= MAX_MSG_SIZE)
    BY <1>2, <2>1, SizesAgree DEF GiveUp
  <2>3. EnsuredSizeFits'
    BY <1>2, <2>1, <2>2 DEF GiveUp, EnsuredSizeFits
  <2>. QED
    BY <1>1, <2>3
<1>3. CASE Blocked
  BY <1>1, <1>3 DEF Blocked, EnsuredSizeFits
<1>. QED
  BY <1>2, <1>3

LEMMA NextPackInv == ASSUME PackingConstants, PackInv, [PackNext]_packVars PROVE PackInv'
<1>1. CASE Put
  BY <1>1, PutPackInv
<1>2. CASE Flush
  BY <1>2, FlushPackInv
<1>3. CASE SendLast
  BY <1>3, SendLastPackInv
<1>4. CASE GiveUp \/ Blocked
  BY <1>4, StopPackInv
<1>5. CASE UNCHANGED packVars
  BY <1>5 DEF packVars, PackInv, PackTypeOK, BufferOK, DatagramsWellSized, NothingSkipped,
              EnsuredSizeFits
<1>. QED
  BY <1>1, <1>2, <1>3, <1>4, <1>5 DEF PackNext

\* The strengthened invariant holds in every state of the loop.
THEOREM PackingInvariant == ASSUME PackingConstants PROVE PackSpec => []PackInv
BY InitPackInv, NextPackInv, PTL DEF PackSpec

\* The variables keep their types (the locals of send_message).
THEOREM PackingTypes == ASSUME PackingConstants PROVE PackSpec => []PackTypeOK
<1>. PackInv => PackTypeOK
  BY DEF PackInv
<1>. QED
  BY PackingInvariant, PTL

\* The datagrams of a reply hold each event from first_event on exactly once, in
\* order, and all of them when send_message returns.
THEOREM Skipless == ASSUME PackingConstants PROVE PackSpec => []NothingSkipped
<1>. PackInv => NothingSkipped
  BY DEF PackInv
<1>. QED
  BY PackingInvariant, PTL

\* No datagram of a reply exceeds MAX_MSG_SIZE or is without an event, and
\* ensure_game_event_size keeps MessageTooLarge from ever being thrown.
THEOREM SizesAlwaysFit == ASSUME PackingConstants PROVE PackSpec => []SizesFit
<1>. PackInv => SizesFit
  BY DEF PackInv, SizesFit
<1>. QED
  BY PackingInvariant, PTL
=============================================================================
