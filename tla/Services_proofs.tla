---------------------------- MODULE Services_proofs ----------------------------
(***************************************************************************)
(* Proofs about five of the smaller programs: the commissions of BitJobs,  *)
(* the stock alerts of JNP II, the keys of the snake game on their way to  *)
(* the client, the orders of the hotel, and the undo of the forum editor.  *)
(***************************************************************************)
EXTENDS Services, Integers, Sequences, FiniteSetTheorems, SequenceTheorems, TLAPS

CONSTANTS CommandLength, MaxWire, MaxRefusals

VARIABLES held, wire, cut, pressed, turn_direction, buf, missed, refusals, lost

Keys == INSTANCE KeyFeed

-----------------------------------------------------------------------------
(* Commissions *)

Row == [status : Commissions!Status, contractor : Bidder \cup {Nobody},
        bid : Bidder \cup {Nobody}]

\* A contractor is the bidder of the chosen bid.
Chosen(row) == row.contractor # Nobody => row.contractor = row.bid

\* A finished commission has a contractor with money.
Settled(row, money) ==
    row.status = "F" => row.contractor # Nobody /\ money[row.contractor] > 0

\* The copies of the row matter as much as the row: a worker that is about to pay holds a
\* finished copy nobody was paid for, one that is about to save holds one that may be saved.
CommissionInv ==
    /\ commission \in Row /\ Chosen(commission) /\ Settled(commission, wallet)
    /\ bids \subseteq Bidder
    /\ wallet \in [Bidder \cup {"master", "orderer"} -> Nat]
    /\ requests \in [Request -> [pc : {"idle", "save", "pay"}, row : Row]]
    /\ \A r \in Request : /\ Chosen(requests[r].row)
                          /\ requests[r].pc # "pay" => Settled(requests[r].row, wallet)

\* The bidders have as much money as before, or more.
NobodyPoorer ==
    /\ wallet' \in [Bidder \cup {"master", "orderer"} -> Nat]
    /\ \A b \in Bidder : wallet'[b] >= wallet[b]

LEMMA TransferPays ==
    ASSUME Commissions!CommissionConstants, CommissionInv,
           NEW from \in {"master", "orderer"}, NEW to \in Bidder \cup {"master"},
           Commissions!Transfer(from, to)
    PROVE  NobodyPoorer /\ (to \in Bidder => wallet'[to] > 0)
<1>1. /\ wallet \in [Bidder \cup {"master", "orderer"} -> Nat] /\ wallet[from] > 0
      /\ wallet' = [w \in Bidder \cup {"master", "orderer"} |->
            wallet[w] + (IF w = to THEN 1 ELSE 0) - (IF w = from THEN 1 ELSE 0)]
  BY DEF Commissions!Transfer, CommissionInv
<1>2. from \notin Bidder
  BY DEF Commissions!CommissionConstants
<1>3. ASSUME NEW w \in Bidder \cup {"master", "orderer"}
      PROVE  /\ wallet'[w] \in Nat
             /\ w \in Bidder => wallet'[w] >= wallet[w]
             /\ w \in Bidder /\ w = to => wallet'[w] > 0
  <2>1. wallet[w] \in Nat /\ (w = from => wallet[w] > 0)
    BY <1>1
  <2>2. wallet'[w] = wallet[w] + (IF w = to THEN 1 ELSE 0) - (IF w = from THEN 1 ELSE 0)
    BY <1>1
  <2> QED BY <1>2, <2>1, <2>2
<1> QED BY <1>1, <1>3 DEF NobodyPoorer

\* So settled rows stay settled.
LEMMA SettledStays ==
    ASSUME CommissionInv, NobodyPoorer, NEW row \in Row, Settled(row, wallet)
    PROVE  Settled(row, wallet')
<1> SUFFICES ASSUME row.status = "F"
             PROVE  row.contractor # Nobody /\ wallet'[row.contractor] > 0
  BY DEF Settled
<1>1. row.contractor \in Bidder /\ wallet[row.contractor] > 0
  BY DEF Settled, Row
<1>2. /\ wallet'[row.contractor] \in Nat /\ wallet[row.contractor] \in Nat
      /\ wallet'[row.contractor] >= wallet[row.contractor]
  BY <1>1 DEF NobodyPoorer, CommissionInv
<1> QED BY <1>1, <1>2 DEF Settled

\* A request gets a sound copy of the row, the row staying as it is.
LEMMA CopyTaken ==
    ASSUME CommissionInv, NobodyPoorer, NEW r \in Request,
           NEW pc \in {"idle", "save", "pay"}, NEW row \in Row,
           Chosen(row), pc # "pay" => Settled(row, wallet'),
           requests' = [requests EXCEPT ![r] = [pc |-> pc, row |-> row]],
           UNCHANGED <<commission, bids>>
    PROVE  CommissionInv'
<1>1. requests' \in [Request -> [pc : {"idle", "save", "pay"}, row : Row]]
  <2>1. [pc |-> pc, row |-> row] \in [pc : {"idle", "save", "pay"}, row : Row]
    OBVIOUS
  <2> HIDE DEF Row
  <2> QED BY <2>1 DEF CommissionInv
<1>2. /\ requests'[r].pc = pc /\ requests'[r].row = row
      /\ \A q \in Request : q # r => requests'[q] = requests[q]
  BY DEF CommissionInv
<1>3. \A q \in Request : requests[q].row \in Row
  BY DEF CommissionInv
<1>4. ASSUME NEW q \in Request
      PROVE  /\ Chosen(requests'[q].row)
             /\ requests'[q].pc # "pay" => Settled(requests'[q].row, wallet')
  <2>1. CASE q = r
    BY <1>2, <2>1, Zenon
  <2>2. CASE q # r
    <3>1. /\ Chosen(requests[q].row)
          /\ requests[q].pc # "pay" => Settled(requests[q].row, wallet)
      BY Zenon DEF CommissionInv
    <3> QED BY <1>2, <1>3, <2>2, <3>1, SettledStays, Zenon
  <2> QED BY <2>1, <2>2
<1>5. /\ commission' = commission /\ commission \in Row /\ Chosen(commission)
      /\ Settled(commission, wallet') /\ bids' = bids /\ bids \subseteq Bidder
  BY SettledStays DEF CommissionInv
<1> QED BY <1>1, <1>4, <1>5, Zenon DEF CommissionInv, Chosen, Settled, NobodyPoorer

\* commission.save().
LEMMA CopySaved ==
    ASSUME CommissionInv, NEW r \in Request, Commissions!Save(r)
    PROVE  CommissionInv'
<1>1. /\ commission' = requests[r].row /\ requests[r].pc = "save"
      /\ bids' = bids /\ wallet' = wallet
      /\ requests' = [requests EXCEPT ![r] = Commissions!Idle]
  BY DEF Commissions!Save
<1>2. /\ requests[r] \in [pc : {"idle", "save", "pay"}, row : Row]
      /\ Chosen(requests[r].row) /\ Settled(requests[r].row, wallet)
  BY <1>1 DEF CommissionInv
<1>3. commission' \in Row /\ Chosen(commission') /\ Settled(commission', wallet')
  BY <1>1, <1>2
<1>4. /\ Commissions!Idle.pc = "idle" /\ Commissions!Idle.row \in Row
      /\ Commissions!Idle \in [pc : {"idle", "save", "pay"}, row : Row]
      /\ Chosen(Commissions!Idle.row) /\ Settled(Commissions!Idle.row, wallet)
  BY DEF Commissions!Idle, Commissions!Absent, Commissions!Status, Row, Chosen, Settled
<1>5. requests' \in [Request -> [pc : {"idle", "save", "pay"}, row : Row]]
  <2> HIDE DEF Row
  <2> QED BY <1>1, <1>4 DEF CommissionInv
<1>6. \A q \in Request : requests'[q] = IF q = r THEN Commissions!Idle ELSE requests[q]
  BY <1>1 DEF CommissionInv
<1>7. ASSUME NEW q \in Request
      PROVE  /\ Chosen(requests'[q].row)
             /\ requests'[q].pc # "pay" => Settled(requests'[q].row, wallet')
  <2>1. CASE q = r
    BY <1>1, <1>4, <1>6, <2>1, Zenon
  <2>2. CASE q # r
    BY <1>1, <1>6, <2>2, Zenon DEF CommissionInv
  <2> QED BY <2>1, <2>2
<1>8. bids' \subseteq Bidder /\ wallet' \in [Bidder \cup {"master", "orderer"} -> Nat]
  BY <1>1 DEF CommissionInv
<1> QED BY <1>3, <1>5, <1>7, <1>8, Zenon DEF CommissionInv, Chosen, Settled

LEMMA CommissionStep ==
    ASSUME Commissions!CommissionConstants, CommissionInv,
           [Commissions!Next]_Commissions!commissionVars
    PROVE  CommissionInv'
<1>1. /\ commission \in Row /\ Chosen(commission) /\ Settled(commission, wallet)
      /\ bids \subseteq Bidder
      /\ wallet' = wallet => NobodyPoorer
  BY DEF CommissionInv, NobodyPoorer
<1>2. commission = [status |-> commission.status, contractor |-> commission.contractor,
                    bid |-> commission.bid]
  BY <1>1 DEF Row
<1>3. ASSUME NEW r \in Request, NEW pc \in {"save", "pay"}, NEW row \in Row,
             Commissions!Read(r, pc, row), Chosen(row), pc # "pay" => Settled(row, wallet)
      PROVE  CommissionInv'
  <2>1. wallet' = wallet
    BY <1>3 DEF Commissions!Read
  <2> QED BY <1>1, <1>3, <2>1, CopyTaken, Zenon DEF Commissions!Read
<1>4. ASSUME NEW r \in Request, Commissions!Add(r)
      PROVE  CommissionInv'
  <2> DEFINE row == [Commissions!Absent EXCEPT !.status = "O"]
  <2>1. row \in Row /\ row.status = "O" /\ row.contractor = Nobody
    BY DEF Row, Commissions!Absent, Commissions!Status
  <2> HIDE DEF row
  <2>2. requests' = [requests EXCEPT ![r] = [pc |-> "save", row |-> row]]
    BY <1>4, Zenon DEF Commissions!Add, row
  <2>3. NobodyPoorer /\ UNCHANGED <<commission, bids>>
    BY <1>4, TransferPays DEF Commissions!Add
  <2>4. Chosen(row) /\ Settled(row, wallet')
    BY <2>1 DEF Chosen, Settled
  <2> QED BY <2>1, <2>2, <2>3, <2>4, CopyTaken
<1>5. ASSUME NEW r \in Request, Commissions!Choose(r)
      PROVE  CommissionInv'
  <2>1. PICK u \in bids :
          Commissions!Read(r, "save", [status |-> "A", contractor |-> u, bid |-> u])
    BY <1>5 DEF Commissions!Choose
  <2> DEFINE row == [status |-> "A", contractor |-> u, bid |-> u]
  <2>2. row \in Row /\ Chosen(row) /\ Settled(row, wallet)
    BY <1>1 DEF Row, Chosen, Settled, Commissions!Status
  <2> HIDE DEF row
  <2>3. Commissions!Read(r, "save", row)
    BY <2>1, Zenon DEF row
  <2> QED BY <1>3, <2>2, <2>3
<1>6. ASSUME NEW r \in Request, Commissions!Done(r)
      PROVE  CommissionInv'
  <2> DEFINE row == [commission EXCEPT !.status = "D"]
  <2>1. row = [status |-> "D", contractor |-> commission.contractor, bid |-> commission.bid]
    BY <1>2
  <2> HIDE DEF row
  <2>2. row \in Row /\ Chosen(row) /\ Settled(row, wallet)
    BY <1>1, <2>1 DEF Row, Chosen, Settled, Commissions!Status
  <2>3. Commissions!Read(r, "save", row)
    BY <1>6, Zenon DEF Commissions!Done, row
  <2> QED BY <1>3, <2>2, <2>3
<1>7. ASSUME NEW r \in Request, Commissions!Deny(r)
      PROVE  CommissionInv'
  <2> DEFINE row == [commission EXCEPT !.status = "B", !.contractor = Nobody]
  <2>1. row \in Row /\ row.status = "B" /\ row.contractor = Nobody
    BY <1>1 DEF Row, Commissions!Status
  <2> HIDE DEF row
  <2>2. Chosen(row) /\ Settled(row, wallet)
    BY <2>1 DEF Chosen, Settled
  <2>3. Commissions!Read(r, "save", row)
    BY <1>7, Zenon DEF Commissions!Deny, row
  <2> QED BY <1>3, <2>1, <2>2, <2>3
<1>8. ASSUME NEW r \in Request, Commissions!AcceptWork(r)
      PROVE  CommissionInv'
  <2> DEFINE row == [commission EXCEPT !.status = "F"]
  <2>1. row = [status |-> "F", contractor |-> commission.contractor, bid |-> commission.bid]
    BY <1>2
  <2> HIDE DEF row
  <2>2. row \in Row /\ Chosen(row)
    BY <1>1, <2>1 DEF Row, Chosen, Commissions!Status
  <2>3. Commissions!Read(r, "pay", row)
    BY <1>8, Zenon DEF Commissions!AcceptWork, row
  <2> QED BY <1>3, <2>2, <2>3
<1>9. ASSUME NEW r \in Request, Commissions!Pay(r)
      PROVE  CommissionInv'
  <2> DEFINE row == requests[r].row
  <2>1. requests[r] \in [pc : {"idle", "save", "pay"}, row : Row] /\ Chosen(row)
    BY DEF CommissionInv
  <2>2. row \in Row /\ requests[r] = [pc |-> requests[r].pc, row |-> row]
    BY <2>1
  <2>3. row.contractor \in Bidder /\ row.contractor # Nobody
    BY <1>9, <2>2 DEF Commissions!Pay, Row
  <2>4. NobodyPoorer /\ wallet'[row.contractor] > 0 /\ UNCHANGED <<commission, bids>>
    BY <1>9, <2>3, TransferPays DEF Commissions!Pay
  <2>5. requests' = [requests EXCEPT ![r].pc = "save"]
    BY <1>9 DEF Commissions!Pay
  <2>6. [requests[r] EXCEPT !.pc = "save"] = [pc |-> "save", row |-> row]
    <3> HIDE DEF Row
    <3> QED BY <2>1
  <2> HIDE DEF row
  <2>7. requests' = [requests EXCEPT ![r] = [pc |-> "save", row |-> row]]
    BY <2>5, <2>6, Zenon
  <2>8. Settled(row, wallet')
    BY <2>3, <2>4 DEF Settled
  <2> QED BY <2>1, <2>2, <2>4, <2>7, <2>8, CopyTaken
<1>10. ASSUME NEW r \in Request, Commissions!Fail(r)
       PROVE  CommissionInv'
  <2> DEFINE row == Commissions!Absent
  <2>1. row \in Row /\ Chosen(row) /\ Settled(row, wallet')
    BY DEF Commissions!Absent, Commissions!Status, Row, Chosen, Settled
  <2> HIDE DEF row
  <2>2. requests' = [requests EXCEPT ![r] = [pc |-> "idle", row |-> row]]
    BY <1>10, Zenon DEF Commissions!Fail, Commissions!Idle, row
  <2>3. NobodyPoorer /\ UNCHANGED <<commission, bids>>
    BY <1>1, <1>10 DEF Commissions!Fail
  <2> QED BY <2>1, <2>2, <2>3, CopyTaken
<1>11. ASSUME NEW u \in Bidder, Commissions!Bid(u)
       PROVE  CommissionInv'
  <2>1. bids' \subseteq Bidder /\ UNCHANGED <<commission, wallet, requests>>
    BY <1>1, <1>11 DEF Commissions!Bid
  <2> QED BY <2>1, Zenon DEF CommissionInv, Chosen, Settled
<1>12. CASE UNCHANGED Commissions!commissionVars
  BY <1>12, Zenon DEF Commissions!commissionVars, CommissionInv, Chosen, Settled
<1> QED BY <1>4, <1>5, <1>6, <1>7, <1>8, <1>9, <1>10, <1>11, <1>12, CopySaved, Zenon
        DEF Commissions!Next

LEMMA CommissionInit ==
    ASSUME Commissions!CommissionConstants, Commissions!Init
    PROVE  CommissionInv
<1> DEFINE row == Commissions!Absent
<1>1. row \in Row /\ Chosen(row) /\ Settled(row, wallet)
  BY DEF Commissions!Absent, Commissions!Status, Row, Chosen, Settled
<1>2. wallet \in [Bidder \cup {"master", "orderer"} -> Nat]
  BY DEF Commissions!Init, Commissions!CommissionConstants
<1> HIDE DEF row
<1>3. /\ commission = row /\ bids = {}
      /\ requests = [r \in Request |-> [pc |-> "idle", row |-> row]]
  BY Zenon DEF Commissions!Init, Commissions!Idle, row
<1>4. [pc |-> "idle", row |-> row] \in [pc : {"idle", "save", "pay"}, row : Row]
  <2> HIDE DEF Row
  <2> QED BY <1>1
<1>5. /\ requests \in [Request -> [pc : {"idle", "save", "pay"}, row : Row]]
      /\ \A r \in Request : requests[r].row = row
  BY <1>3, <1>4
<1> QED BY <1>1, <1>2, <1>3, <1>5 DEF CommissionInv

\* BitJobs: whatever requests run at the same time and wherever they fail, a contractor is
\* the bidder of the chosen bid, and a finished commission has a contractor who was paid.
THEOREM FinishedIsPaid ==
    ASSUME Commissions!CommissionConstants
    PROVE  Commissions!Spec => []Commissions!FinishedMeansPaid
<1>1. Commissions!Init => CommissionInv
  BY CommissionInit
<1>2. CommissionInv /\ [Commissions!Next]_Commissions!commissionVars => CommissionInv'
  BY CommissionStep
<1>3. CommissionInv => Commissions!FinishedMeansPaid
  BY Zenon DEF CommissionInv, Chosen, Settled, Commissions!FinishedMeansPaid
<1> QED BY <1>1, <1>2, <1>3, PTL DEF Commissions!Spec

-----------------------------------------------------------------------------
(* Stock alerts *)

Todo == [pc : {"save", "notify", "record"}, todo : Seq(AlertId)]
Consumer == {Alerts!Waiting, Alerts!Dead} \cup [pc : {"detect"}, data : Price] \cup Todo

AlertTypes ==
    /\ clock \in Nat /\ crashes \in Nat /\ price \in Price
    /\ consumer \in Consumer
    /\ notificationQueue \in Seq(AlertId)
    /\ published \in [AlertId -> Nat] /\ mails \in [AlertId -> Nat]
    /\ notifications \in [AlertId -> SUBSET Nat]
    /\ alerts \subseteq AlertId

\* Occurrences keep their alerts, and the loop of perform_notify is about occurrences.
Occurrences ==
    /\ occurred \subseteq alerts
    /\ \A a \in AlertId : published[a] > 0 => a \in occurred
    /\ consumer.pc \in {"notify", "record"} =>
          \A i \in 1 .. Len(consumer.todo) : consumer.todo[i] \in occurred
    /\ consumer.pc = "record" => consumer.todo # << >>

\* The alert whose notification is published and not recorded yet.
Unrecorded(a) == consumer.pc = "record" /\ a = consumer.todo[1]

\* The records of an alert are finitely many, the last one of them not later than now.
Dated(times, t) ==
    /\ IsFiniteSet(times)
    /\ \A s \in times : s <= t
    /\ times # {} => \E last \in times : \A s \in times : s <= last
    /\ \A r, s \in times : r < s => s - r > alert_interval

\* The records keep their distance, to now as well while one more is due.
Spaced ==
    /\ \A a \in AlertId : Dated(notifications[a], clock)
    /\ consumer.pc = "record" =>
          \A t \in notifications[consumer.todo[1]] : clock - t > alert_interval

\* A crash costs one record at most.
Recorded ==
    \A a \in AlertId :
        published[a] <= Cardinality(notifications[a]) + crashes
                        + (IF Unrecorded(a) \/ consumer.pc = "dead" THEN 1 ELSE 0)

\* Mails and the messages that wait for the notifier.
Queued(queue, a) == {i \in 1 .. Len(queue) : queue[i] = a}
Mailed == \A a \in AlertId :
              mails[a] + Cardinality(Queued(notificationQueue, a)) <= published[a]

AlertInv == AlertTypes /\ Occurrences /\ Spaced /\ Recorded /\ Mailed

-----------------------------------------------------------------------------
\* The instance's finite sets are those of FiniteSets.
LEMMA SameFiniteSets ==
    \A S : /\ Alerts!IsFiniteSet(S) <=> IsFiniteSet(S)
          /\ Alerts!Cardinality(S) = Cardinality(S)
<1>1. \A S : Alerts!IsFiniteSet(S) <=> IsFiniteSet(S)
  BY Zenon DEF Alerts!IsFiniteSet, IsFiniteSet
<1>2. \A S : Alerts!Cardinality(S) = Cardinality(S)
  BY Zenon DEF Alerts!Cardinality, Cardinality
<1> QED BY <1>1, <1>2

\* A message that waits is taken from the front and put at the back.
LEMMA QueuedAppend ==
    ASSUME NEW queue \in Seq(AlertId), NEW a \in AlertId, NEW b \in AlertId
    PROVE  /\ IsFiniteSet(Queued(queue, a)) /\ Cardinality(Queued(queue, a)) \in Nat
           /\ Cardinality(Queued(Append(queue, b), a)) =
                Cardinality(Queued(queue, a)) + (IF a = b THEN 1 ELSE 0)
<1>1. Len(queue) \in Nat
  OBVIOUS
<1>2. IsFiniteSet(Queued(queue, a)) /\ Cardinality(Queued(queue, a)) \in Nat
  <2>1. IsFiniteSet(1 .. Len(queue))
    BY <1>1, FS_Interval
  <2>2. Queued(queue, a) \in SUBSET (1 .. Len(queue))
    BY DEF Queued
  <2>3. IsFiniteSet(Queued(queue, a))
    BY <2>1, <2>2, FS_Subset
  <2> QED BY <2>3, FS_CardinalityType
<1>3. /\ Len(Append(queue, b)) = Len(queue) + 1 /\ Append(queue, b)[Len(queue) + 1] = b
      /\ \A i \in 1 .. Len(queue) : Append(queue, b)[i] = queue[i]
  OBVIOUS
<1>4. \A i : i \in 1 .. Len(queue) + 1 <=> i \in 1 .. Len(queue) \/ i = Len(queue) + 1
  BY <1>1
<1>5. Len(queue) + 1 \notin 1 .. Len(queue)
  BY <1>1
<1>6. CASE a = b
  <2>1. Queued(Append(queue, b), a) = Queued(queue, a) \cup {Len(queue) + 1}
    BY <1>3, <1>4, <1>5, <1>6, Zenon DEF Queued
  <2>2. Len(queue) + 1 \notin Queued(queue, a)
    BY <1>5 DEF Queued
  <2> QED BY <1>2, <1>6, <2>1, <2>2, FS_AddElement
<1>7. CASE a # b
  <2>1. Queued(Append(queue, b), a) = Queued(queue, a)
    BY <1>3, <1>4, <1>5, <1>7, Zenon DEF Queued
  <2> QED BY <1>2, <1>7, <2>1
<1> QED BY <1>2, <1>6, <1>7

LEMMA QueuedTail ==
    ASSUME NEW queue \in Seq(AlertId), queue # << >>, NEW a \in AlertId
    PROVE  /\ Cardinality(Queued(Tail(queue), a)) \in Nat
           /\ Cardinality(Queued(Tail(queue), a)) + (IF a = Head(queue) THEN 1 ELSE 0)
                <= Cardinality(Queued(queue, a))
<1>1. /\ Len(queue) \in Nat \ {0} /\ Tail(queue) \in Seq(AlertId)
      /\ Len(Tail(queue)) = Len(queue) - 1 /\ Head(queue) = queue[1]
      /\ \A i \in 1 .. Len(queue) - 1 : Tail(queue)[i] = queue[i + 1]
  OBVIOUS
<1>2. /\ IsFiniteSet(Queued(queue, a)) /\ Cardinality(Queued(queue, a)) \in Nat
      /\ IsFiniteSet(Queued(Tail(queue), a)) /\ Cardinality(Queued(Tail(queue), a)) \in Nat
  BY <1>1, QueuedAppend
<1> DEFINE later == Queued(queue, a) \ {1}
           f == [i \in later |-> i - 1]
<1>3. /\ IsFiniteSet(later)
      /\ Cardinality(later) + (IF a = Head(queue) THEN 1 ELSE 0) <= Cardinality(Queued(queue, a))
  <2>1. 1 \in Queued(queue, a) <=> a = Head(queue)
    BY <1>1 DEF Queued
  <2>2. /\ IsFiniteSet(later)
        /\ Cardinality(later) = IF 1 \in Queued(queue, a) THEN Cardinality(Queued(queue, a)) - 1
                                ELSE Cardinality(Queued(queue, a))
    BY <1>2, FS_RemoveElement
  <2> HIDE DEF later
  <2> QED BY <1>2, <2>1, <2>2
<1>4. f \in Surjection(later, Queued(Tail(queue), a))
  <2>1. \A i \in later : i - 1 \in Queued(Tail(queue), a)
    BY <1>1 DEF Queued
  <2>2. \A j \in Queued(Tail(queue), a) : j + 1 \in later /\ (j + 1) - 1 = j
    BY <1>1 DEF Queued
  <2> HIDE DEF later
  <2>3. \A j \in Queued(Tail(queue), a) : \E i \in later : f[i] = j
    <3> SUFFICES ASSUME NEW j \in Queued(Tail(queue), a)
                 PROVE  \E i \in later : f[i] = j
      OBVIOUS
    <3>1. j + 1 \in later /\ f[j + 1] = j
      BY <2>2
    <3> QED BY <3>1
  <2> QED BY <2>1, <2>3 DEF Surjection
<1>5. Cardinality(Queued(Tail(queue), a)) <= Cardinality(later)
  <2> HIDE DEF f, later
  <2> QED BY <1>3, <1>4, FS_Surjection
<1>6. Cardinality(later) \in Nat
  BY <1>3, FS_CardinalityType
<1> HIDE DEF later
<1> QED BY <1>2, <1>3, <1>5, <1>6

\* What is recorded now is later than everything recorded by an interval.
LEMMA RecordNow ==
    ASSUME Alerts!AlertConstants, NEW times \in SUBSET Nat, NEW t \in Nat, Dated(times, t),
           \A s \in times : t - s > alert_interval
    PROVE  /\ Dated(times \cup {t}, t)
           /\ Cardinality(times \cup {t}) = Cardinality(times) + 1
<1>1. alert_interval \in Nat
  BY DEF Alerts!AlertConstants
<1>2. t \notin times
  BY <1>1
<1>3. /\ IsFiniteSet(times) /\ IsFiniteSet(times \cup {t})
      /\ Cardinality(times \cup {t}) = Cardinality(times) + 1
  BY <1>2, FS_AddElement DEF Dated
<1>4. \A s \in times \cup {t} : s <= t
  BY DEF Dated
<1>5. \A r, s \in times \cup {t} : r < s => s - r > alert_interval
  <2> SUFFICES ASSUME NEW r \in times \cup {t}, NEW s \in times \cup {t}, r < s
               PROVE  s - r > alert_interval
    OBVIOUS
  <2>1. r \in times
    BY <1>4
  <2> QED BY <2>1 DEF Dated
<1> QED BY <1>3, <1>4, <1>5 DEF Dated

\* Where the consumer is, and what it has with it there.
LEMMA ConsumerShape ==
    ASSUME NEW c \in Consumer
    PROVE  /\ c.pc \in {"wait", "dead", "detect", "save", "notify", "record"}
           /\ c.pc \in {"save", "notify", "record"} =>
                 c.todo \in Seq(AlertId) /\ c = [pc |-> c.pc, todo |-> c.todo]
           /\ c.pc \in {"wait", "dead"} <=> c \in {Alerts!Waiting, Alerts!Dead}
           /\ c.pc = "dead" <=> c = Alerts!Dead
<1>1. CASE c = Alerts!Waiting
  <2>1. c.pc = "wait"
    BY <1>1 DEF Alerts!Waiting
  <2> QED BY <1>1, <2>1 DEF Alerts!Dead
<1>2. CASE c = Alerts!Dead
  <2>1. c.pc = "dead"
    BY <1>2 DEF Alerts!Dead
  <2> QED BY <1>2, <2>1
<1>3. CASE c \in [pc : {"detect"}, data : Price]
  <2>1. c.pc = "detect"
    BY <1>3
  <2> QED BY <2>1 DEF Alerts!Waiting, Alerts!Dead
<1>4. CASE c \in Todo
  <2>1. c.pc \in {"save", "notify", "record"} /\ c.todo \in Seq(AlertId)
        /\ c = [pc |-> c.pc, todo |-> c.todo]
    BY <1>4 DEF Todo
  <2> QED BY <2>1 DEF Alerts!Waiting, Alerts!Dead
<1> QED BY <1>1, <1>2, <1>3, <1>4 DEF Consumer

LEMMA TodoIsConsumer ==
    ASSUME NEW pc \in {"save", "notify", "record"}, NEW todo \in Seq(AlertId)
    PROVE  /\ [pc |-> pc, todo |-> todo] \in Consumer
           /\ [pc |-> pc, todo |-> todo].pc = pc
           /\ [pc |-> pc, todo |-> todo].todo = todo
<1>1. [pc |-> pc, todo |-> todo] \in Todo
  BY DEF Todo
<1> QED BY <1>1 DEF Consumer

\* The tables and the queue of the notifier, as the consumer and the notifier write them.
Written == <<occurred, notifications, notificationQueue, published, mails>>

\* Time goes on, prices and alerts come and go.
LEMMA OthersMove ==
    ASSUME Alerts!AlertConstants, AlertInv, UNCHANGED <<Written, consumer, crashes>>, clock' \in Nat, clock' >= clock,
           price' \in Price, occurred \subseteq alerts', alerts' \subseteq AlertId
    PROVE  AlertInv'
<1>1. AlertTypes'
  BY DEF AlertInv, AlertTypes, Written
<1>2. Occurrences'
  BY Zenon DEF AlertInv, Occurrences, Written
<1>3. Spaced'
  <2>1. ASSUME NEW times \in SUBSET Nat, Dated(times, clock)
        PROVE  Dated(times, clock')
    BY <2>1 DEF Dated, AlertInv, AlertTypes
  <2>2. /\ \A a \in AlertId : notifications[a] \in SUBSET Nat /\ Dated(notifications[a], clock)
        /\ notifications' = notifications /\ consumer' = consumer /\ clock \in Nat
    BY DEF AlertInv, AlertTypes, Spaced, Written
  <2>3. ASSUME consumer.pc = "record"
        PROVE  \A t \in notifications[consumer.todo[1]] : clock' - t > alert_interval
    <3>1. consumer.todo[1] \in AlertId
      <4>1. consumer.todo \in Seq(AlertId) /\ consumer.todo # << >>
        BY <2>3, ConsumerShape DEF AlertInv, AlertTypes, Occurrences
      <4> QED BY <4>1
    <3>2. \A t \in notifications[consumer.todo[1]] : t \in Nat /\ clock - t > alert_interval
      BY <2>2, <2>3, <3>1 DEF AlertInv, Spaced
    <3>3. clock' \in Nat /\ clock' >= clock /\ alert_interval \in Nat
      BY DEF Alerts!AlertConstants
    <3> QED BY <2>2, <3>2, <3>3
  <2> QED BY <2>1, <2>2, <2>3, Zenon DEF Spaced
<1>4. Recorded' /\ Mailed'
  BY Zenon DEF AlertInv, Recorded, Unrecorded, Mailed, Written
<1> QED BY <1>1, <1>2, <1>3, <1>4 DEF AlertInv

\* The consumer goes on without having written anything, or dies.
LEMMA ConsumerMoves ==
    ASSUME AlertInv, UNCHANGED <<Written, clock, price, alerts, crashes>>,
           consumer' \in Consumer, consumer'.pc \in {"wait", "detect", "save", "dead"},
           consumer'.pc = "dead" \/ consumer.pc \notin {"record", "dead"}
    PROVE  AlertInv'
<1>1. AlertTypes'
  BY DEF AlertInv, AlertTypes, Written
<1>2. Occurrences'
  BY DEF AlertInv, Occurrences, Written
<1>3. Spaced'
  BY DEF AlertInv, Spaced, Written
<1>4. Recorded'
  <2> SUFFICES ASSUME NEW a \in AlertId
               PROVE  published[a] <= Cardinality(notifications[a]) + crashes
                        + (IF consumer'.pc = "dead" THEN 1 ELSE 0)
    BY DEF Recorded, Unrecorded, Written
  <2>1. published[a] <= Cardinality(notifications[a]) + crashes
                        + (IF Unrecorded(a) \/ consumer.pc = "dead" THEN 1 ELSE 0)
    BY DEF AlertInv, Recorded
  <2>2. published[a] \in Nat /\ crashes \in Nat /\ Cardinality(notifications[a]) \in Nat
    BY FS_CardinalityType DEF AlertInv, AlertTypes, Spaced, Dated
  <2> QED BY <2>1, <2>2 DEF Unrecorded
<1>5. Mailed'
  BY Zenon DEF AlertInv, Mailed, Written
<1> QED BY <1>1, <1>2, <1>3, <1>4, <1>5 DEF AlertInv

\* The occurrences are saved, if all their alerts are there.
LEMMA OccurrencesSaved ==
    ASSUME AlertInv, Alerts!save_alert_occurrences
    PROVE  AlertInv'
<1>1. /\ consumer.pc = "save" /\ consumer \in Consumer
      /\ consumer.todo \in Seq(AlertId) /\ consumer = [pc |-> "save", todo |-> consumer.todo]
  BY ConsumerShape DEF AlertInv, AlertTypes, Alerts!save_alert_occurrences
<1>2. UNCHANGED <<clock, price, alerts, crashes, notifications, notificationQueue, published,
                  mails>>
  BY DEF Alerts!save_alert_occurrences, Alerts!notifier
<1>3. CASE consumer' = Alerts!Dead /\ occurred' = occurred
  <2>1. consumer' \in Consumer /\ consumer'.pc = "dead"
    BY <1>3 DEF Consumer, Alerts!Dead
  <2> QED BY <1>2, <1>3, <2>1, ConsumerMoves DEF Written
<1>4. CASE /\ \A i \in 1 .. Len(consumer.todo) : consumer.todo[i] \in alerts
           /\ occurred' = occurred \cup {consumer.todo[i] : i \in 1 .. Len(consumer.todo)}
           /\ consumer' = [consumer EXCEPT !.pc = "notify"]
  <2> DEFINE todo == consumer.todo
  <2>1. consumer' = [pc |-> "notify", todo |-> todo]
    BY <1>1, <1>4
  <2> HIDE DEF todo
  <2>2. consumer' \in Consumer /\ consumer'.pc = "notify" /\ consumer'.todo = todo
    BY <1>1, <2>1, TodoIsConsumer DEF todo
  <2>3. AlertTypes'
    BY <1>2, <2>2 DEF AlertInv, AlertTypes
  <2>4. Occurrences'
    BY <1>2, <1>4, <2>2 DEF AlertInv, Occurrences, todo
  <2>5. Spaced'
    BY <1>2, <2>2 DEF AlertInv, Spaced
  <2>6. Recorded'
    BY <1>1, <1>2, <2>2, Zenon DEF AlertInv, Recorded, Unrecorded
  <2>7. Mailed'
    BY <1>2, Zenon DEF AlertInv, Mailed
  <2> QED BY <2>3, <2>4, <2>5, <2>6, <2>7 DEF AlertInv
<1>5. {consumer.todo[i] : i \in DOMAIN consumer.todo} =
        {consumer.todo[i] : i \in 1 .. Len(consumer.todo)}
  BY <1>1
<1> QED BY <1>3, <1>4, <1>5, Zenon DEF Alerts!save_alert_occurrences, Alerts!ToSet

\* The first alert of the loop is passed over, or its notification published.
LEMMA Notified ==
    ASSUME Alerts!AlertConstants, AlertInv, Alerts!notify
    PROVE  AlertInv'
<1> DEFINE todo == consumer.todo
           a == Head(todo)
<1>1. /\ consumer.pc = "notify" /\ todo # << >> /\ todo \in Seq(AlertId)
      /\ consumer = [pc |-> "notify", todo |-> todo]
  BY ConsumerShape DEF AlertInv, AlertTypes, Alerts!notify
<1>2. UNCHANGED <<clock, price, alerts, occurred, notifications, crashes>>
  BY DEF Alerts!notify, Alerts!tables
<1>3. \A i \in 1 .. Len(todo) : todo[i] \in occurred
  BY <1>1 DEF AlertInv, Occurrences
<1>4. CASE /\ Alerts!is_recent(a)
           /\ consumer' = [consumer EXCEPT !.todo = Tail(@)]
           /\ UNCHANGED Alerts!notifier
  <2>1. consumer' = [pc |-> "notify", todo |-> Tail(todo)]
    BY <1>1, <1>4
  <2>2. Tail(todo) \in Seq(AlertId) /\ \A i \in 1 .. Len(Tail(todo)) : Tail(todo)[i] \in occurred
    BY <1>1, <1>3
  <2> HIDE DEF todo
  <2>3. /\ consumer' \in Consumer /\ consumer'.pc = "notify"
        /\ \A i \in 1 .. Len(consumer'.todo) : consumer'.todo[i] \in occurred
    BY <2>1, <2>2, TodoIsConsumer
  <2>4. UNCHANGED <<notificationQueue, published, mails>>
    BY <1>4 DEF Alerts!notifier
  <2>5. AlertTypes'
    BY <1>2, <2>3, <2>4 DEF AlertInv, AlertTypes
  <2>6. Occurrences'
    BY <1>2, <2>3, <2>4 DEF AlertInv, Occurrences
  <2>7. Spaced'
    BY <1>2, <2>3 DEF AlertInv, Spaced
  <2>8. Recorded'
    BY <1>1, <1>2, <2>3, <2>4, Zenon DEF AlertInv, Recorded, Unrecorded
  <2>9. Mailed'
    BY <2>4, Zenon DEF AlertInv, Mailed
  <2> QED BY <2>5, <2>6, <2>7, <2>8, <2>9 DEF AlertInv
<1>5. CASE /\ ~Alerts!is_recent(a)
           /\ notificationQueue' = Append(notificationQueue, a)
           /\ published' = [published EXCEPT ![a] = @ + 1]
           /\ consumer' = [consumer EXCEPT !.pc = "record"]
           /\ UNCHANGED mails
  <2>1. consumer' = [pc |-> "record", todo |-> todo]
    BY <1>1, <1>5
  <2>2. a \in AlertId /\ a \in occurred /\ a = todo[1]
    BY <1>1, <1>3
  <2> HIDE DEF todo
  <2>3. consumer' \in Consumer /\ consumer'.pc = "record" /\ consumer'.todo = todo
    BY <1>1, <2>1, TodoIsConsumer
  <2> HIDE DEF a
  <2>4. AlertTypes'
    <3>1. notificationQueue' \in Seq(AlertId) /\ published' \in [AlertId -> Nat]
      BY <1>5, <2>2 DEF AlertInv, AlertTypes
    <3> QED BY <1>2, <1>5, <2>3, <3>1 DEF AlertInv, AlertTypes
  <2>5. Occurrences'
    BY <1>1, <1>2, <1>3, <1>5, <2>2, <2>3 DEF AlertInv, AlertTypes, Occurrences
  <2>6. Spaced'
    <3>1. /\ Dated(notifications[a], clock) /\ notifications[a] \in SUBSET Nat /\ clock \in Nat
          /\ alert_interval \in Nat
      BY <2>2 DEF AlertInv, AlertTypes, Spaced, Alerts!AlertConstants
    <3>2. ~(\E t \in notifications[a] : /\ \A s \in notifications[a] : s <= t
                                        /\ clock - t <= alert_interval)
      BY <1>5 DEF Alerts!is_recent
    <3>3. \A t \in notifications[a] : clock - t > alert_interval
      <4> SUFFICES ASSUME NEW t \in notifications[a] PROVE clock - t > alert_interval
        OBVIOUS
      <4>1. PICK last \in notifications[a] : \A s \in notifications[a] : s <= last
        BY <3>1 DEF Dated
      <4>2. clock - last > alert_interval /\ t <= last
        BY <3>1, <3>2, <4>1
      <4> QED BY <3>1, <4>2
    <3> QED BY <1>2, <2>2, <2>3, <3>3 DEF AlertInv, Spaced
  <2>7. Recorded'
    <3> SUFFICES ASSUME NEW b \in AlertId
                 PROVE  published'[b] <= Cardinality(notifications[b]) + crashes
                          + (IF b = a THEN 1 ELSE 0)
      BY <1>2, <2>2, <2>3, Zenon DEF Recorded, Unrecorded
    <3>1. published[b] <= Cardinality(notifications[b]) + crashes
      <4>1. /\ published[b] \in Nat /\ crashes \in Nat
            /\ Cardinality(notifications[b]) \in Nat
        BY FS_CardinalityType DEF AlertInv, AlertTypes, Spaced, Dated
      <4> QED BY <1>1, <4>1 DEF AlertInv, Recorded, Unrecorded
    <3>2. published'[b] = IF b = a THEN published[b] + 1 ELSE published[b]
      BY <1>5, <2>2 DEF AlertInv, AlertTypes
    <3>3. /\ published[b] \in Nat /\ crashes \in Nat
          /\ Cardinality(notifications[b]) \in Nat
      BY FS_CardinalityType DEF AlertInv, AlertTypes, Spaced, Dated
    <3> QED BY <3>1, <3>2, <3>3
  <2>8. Mailed'
    <3> SUFFICES ASSUME NEW b \in AlertId
                 PROVE  mails[b] + Cardinality(Queued(notificationQueue', b)) <= published'[b]
      BY <1>5, Zenon DEF Mailed
    <3>1. published'[b] = IF b = a THEN published[b] + 1 ELSE published[b]
      BY <1>5, <2>2 DEF AlertInv, AlertTypes
    <3>2. /\ Cardinality(Queued(notificationQueue', b)) =
               Cardinality(Queued(notificationQueue, b)) + (IF b = a THEN 1 ELSE 0)
          /\ Cardinality(Queued(notificationQueue, b)) \in Nat
      BY <1>5, <2>2, QueuedAppend DEF AlertInv, AlertTypes
    <3>3. /\ mails[b] \in Nat /\ published[b] \in Nat
          /\ mails[b] + Cardinality(Queued(notificationQueue, b)) <= published[b]
      BY DEF AlertInv, AlertTypes, Mailed
    <3> QED BY <3>1, <3>2, <3>3
  <2> QED BY <2>4, <2>5, <2>6, <2>7, <2>8 DEF AlertInv
<1> QED BY <1>4, <1>5 DEF Alerts!notify

\* The published notification is recorded.
LEMMA NotificationRecorded ==
    ASSUME Alerts!AlertConstants, AlertInv, Alerts!record
    PROVE  AlertInv'
<1> DEFINE todo == consumer.todo
           a == todo[1]
<1>1. /\ consumer.pc = "record" /\ todo # << >> /\ todo \in Seq(AlertId) /\ Head(todo) = a
  BY ConsumerShape DEF AlertInv, AlertTypes, Occurrences, Alerts!record
<1>2. /\ UNCHANGED <<clock, price, alerts, occurred, notificationQueue, published, mails, crashes>>
      /\ notifications' = [notifications EXCEPT ![a] = @ \cup {clock}]
      /\ consumer' = [pc |-> "notify", todo |-> Tail(todo)]
  BY <1>1 DEF Alerts!record, Alerts!notifier
<1>3. a \in AlertId /\ Tail(todo) \in Seq(AlertId)
      /\ \A i \in 1 .. Len(Tail(todo)) : Tail(todo)[i] \in occurred
  <2>1. \A i \in 1 .. Len(todo) : todo[i] \in occurred
    BY <1>1 DEF AlertInv, Occurrences
  <2> HIDE DEF todo
  <2> QED BY <1>1, <2>1
<1> HIDE DEF todo
<1>4. /\ consumer' \in Consumer /\ consumer'.pc = "notify" /\ consumer'.todo = Tail(todo)
  BY <1>2, <1>3, TodoIsConsumer
<1>5. /\ \A t \in notifications[a] : clock - t > alert_interval
      /\ notifications[a] \in SUBSET Nat /\ clock \in Nat /\ Dated(notifications[a], clock)
  BY <1>1, <1>3 DEF AlertInv, AlertTypes, Spaced, todo
<1> HIDE DEF a
<1>6. /\ Dated(notifications[a] \cup {clock}, clock)
      /\ Cardinality(notifications[a] \cup {clock}) = Cardinality(notifications[a]) + 1
  BY <1>5, RecordNow
<1>7. \A b \in AlertId : notifications'[b] =
         IF b = a THEN notifications[a] \cup {clock} ELSE notifications[b]
  BY <1>2, <1>3 DEF AlertInv, AlertTypes
<1>8. AlertTypes'
  <2>1. notifications' \in [AlertId -> SUBSET Nat]
    BY <1>2, <1>3, <1>5 DEF AlertInv, AlertTypes
  <2> QED BY <1>2, <1>4, <2>1 DEF AlertInv, AlertTypes
<1>9. Occurrences'
  BY <1>2, <1>3, <1>4 DEF AlertInv, Occurrences
<1>10. Spaced'
  <2>1. \A b \in AlertId : Dated(notifications'[b], clock)
    BY <1>6, <1>7, Zenon DEF AlertInv, Spaced
  <2> QED BY <1>2, <1>4, <2>1 DEF Spaced
<1>11. Recorded'
  <2>1. ASSUME NEW b \in AlertId
        PROVE  published[b] <= Cardinality(notifications'[b]) + crashes + 0
    <3>1. published[b] <= Cardinality(notifications[b]) + crashes + (IF b = a THEN 1 ELSE 0)
      <4>1. Unrecorded(b) <=> b = a
        BY <1>1, Zenon DEF Unrecorded, a, todo
      <4>2. /\ published[b] <= Cardinality(notifications[b]) + crashes
                                + (IF Unrecorded(b) \/ consumer.pc = "dead" THEN 1 ELSE 0)
            /\ consumer.pc # "dead"
        BY <1>1, Zenon DEF AlertInv, Recorded
      <4> QED BY <4>1, <4>2
    <3>2. published[b] \in Nat /\ crashes \in Nat /\ Cardinality(notifications[b]) \in Nat
      BY FS_CardinalityType DEF AlertInv, AlertTypes, Spaced, Dated
    <3>3. Cardinality(notifications'[b]) =
            IF b = a THEN Cardinality(notifications[b]) + 1 ELSE Cardinality(notifications[b])
      BY <1>6, <1>7, Zenon
    <3> QED BY <3>1, <3>2, <3>3
  <2>2. \A b : ~Unrecorded(b)' /\ consumer'.pc # "dead"
    BY <1>4 DEF Unrecorded
  <2> QED BY <1>2, <2>1, <2>2, Zenon DEF Recorded
<1>12. Mailed'
  BY <1>2, Zenon DEF AlertInv, Mailed
<1> QED BY <1>8, <1>9, <1>10, <1>11, <1>12 DEF AlertInv

\* A restart forgives what its crash left unrecorded.
LEMMA Restarted ==
    ASSUME AlertInv, Alerts!Restart
    PROVE  AlertInv'
<1>1. /\ UNCHANGED <<Written, clock, price, alerts>> /\ consumer' = Alerts!Waiting
      /\ crashes' = crashes + 1
  BY DEF Alerts!Restart, Alerts!tables, Alerts!notifier, Written
<1>2. consumer' \in Consumer /\ consumer'.pc = "wait"
  BY <1>1 DEF Consumer, Alerts!Waiting
<1>3. AlertTypes'
  BY <1>1, <1>2 DEF AlertInv, AlertTypes, Written
<1>4. Occurrences' /\ Spaced'
  BY <1>1, <1>2 DEF AlertInv, Occurrences, Spaced, Written
<1>5. Recorded'
  <2> SUFFICES ASSUME NEW a \in AlertId
               PROVE  published[a] <= Cardinality(notifications[a]) + (crashes + 1)
    <3>1. \A a \in AlertId : Cardinality(notifications[a]) + (crashes + 1) \in Int
      BY FS_CardinalityType DEF AlertInv, AlertTypes, Spaced, Dated
    <3> QED BY <1>1, <1>2, <3>1 DEF Recorded, Unrecorded, Written
  <2>1. published[a] <= Cardinality(notifications[a]) + crashes
                        + (IF Unrecorded(a) \/ consumer.pc = "dead" THEN 1 ELSE 0)
    BY Zenon DEF AlertInv, Recorded
  <2>2. published[a] \in Nat /\ crashes \in Nat /\ Cardinality(notifications[a]) \in Nat
    BY FS_CardinalityType DEF AlertInv, AlertTypes, Spaced, Dated
  <2> QED BY <2>1, <2>2
<1>6. Mailed'
  BY <1>1, Zenon DEF AlertInv, Mailed, Written
<1> QED BY <1>3, <1>4, <1>5, <1>6 DEF AlertInv

\* The notifier takes a message and mails it, or does not.
LEMMA Consumed ==
    ASSUME AlertInv, Alerts!consume
    PROVE  AlertInv'
<1>1. /\ notificationQueue # << >> /\ notificationQueue' = Tail(notificationQueue)
      /\ UNCHANGED <<clock, price, alerts, occurred, notifications, consumer, published, crashes>>
      /\ \/ mails' = [mails EXCEPT ![Head(notificationQueue)] = @ + 1]
         \/ mails' = mails
  BY DEF Alerts!consume, Alerts!tables
<1>2. notificationQueue \in Seq(AlertId) /\ mails \in [AlertId -> Nat]
  BY DEF AlertInv, AlertTypes
<1>3. Head(notificationQueue) \in AlertId /\ Tail(notificationQueue) \in Seq(AlertId)
  BY <1>1, <1>2
<1>4. /\ mails' \in [AlertId -> Nat]
      /\ \A a \in AlertId : mails'[a] <= mails[a] + (IF a = Head(notificationQueue) THEN 1 ELSE 0)
  BY <1>1, <1>2, <1>3
<1>5. AlertTypes'
  BY <1>1, <1>3, <1>4 DEF AlertInv, AlertTypes
<1>6. Occurrences' /\ Spaced' /\ Recorded'
  BY <1>1, Zenon DEF AlertInv, Occurrences, Spaced, Recorded, Unrecorded
<1>7. Mailed'
  <2> SUFFICES ASSUME NEW a \in AlertId
               PROVE  mails'[a] + Cardinality(Queued(notificationQueue', a)) <= published[a]
    BY <1>1, Zenon DEF Mailed
  <2>1. /\ Cardinality(Queued(notificationQueue', a)) \in Nat
        /\ Cardinality(Queued(notificationQueue', a))
             + (IF a = Head(notificationQueue) THEN 1 ELSE 0)
             <= Cardinality(Queued(notificationQueue, a))
    BY <1>1, <1>2, QueuedTail
  <2>2. /\ mails[a] + Cardinality(Queued(notificationQueue, a)) <= published[a]
        /\ mails[a] \in Nat /\ mails'[a] \in Nat /\ published[a] \in Nat
    BY <1>4 DEF AlertInv, AlertTypes, Mailed
  <2>3. IsFiniteSet(Queued(notificationQueue, a)) /\ Cardinality(Queued(notificationQueue, a)) \in Nat
    BY <1>2, QueuedAppend
  <2> HIDE DEF Queued
  <2> QED BY <1>4, <2>1, <2>2, <2>3
<1> QED BY <1>5, <1>6, <1>7 DEF AlertInv

LEMMA AlertStep ==
    ASSUME Alerts!AlertConstants, AlertInv, [Alerts!Next]_Alerts!alertVars
    PROVE  AlertInv'
<1>1. /\ clock \in Nat /\ price \in Price /\ consumer \in Consumer /\ occurred \subseteq alerts
      /\ alerts \subseteq AlertId
  BY DEF AlertInv, AlertTypes, Occurrences
<1>2. CASE Alerts!Tick
  BY <1>1, <1>2, OthersMove DEF Alerts!Tick, Alerts!tables, Alerts!notifier, Written
<1>3. CASE Alerts!obtain_stock_tick
  BY <1>1, <1>3, OthersMove DEF Alerts!obtain_stock_tick, Alerts!tables, Alerts!notifier, Written
<1>4. CASE \E a \in AlertId : Alerts!create_alert(a)
  BY <1>1, <1>4, OthersMove DEF Alerts!create_alert, Alerts!notifier, Written
<1>5. CASE \E a \in AlertId : Alerts!delete_alert(a)
  BY <1>1, <1>5, OthersMove DEF Alerts!delete_alert, Alerts!notifier, Written
<1>6. CASE Alerts!process_tick
  <2>1. consumer.pc = "wait"
    BY <1>6 DEF Alerts!process_tick, Alerts!Waiting
  <2>2. consumer' \in Consumer /\ consumer'.pc \in {"wait", "detect"}
    BY <1>1, <1>6 DEF Alerts!process_tick, Alerts!Waiting, Consumer
  <2> QED BY <1>6, <2>1, <2>2, ConsumerMoves
          DEF Alerts!process_tick, Alerts!tables, Alerts!notifier, Written
<1>7. CASE Alerts!detect_alert_situations
  <2> DEFINE Set == {a \in alerts : consumer.data \in Condition[a]}
  <2>1. PICK todo \in Alerts!SetToSeqs(Set) : consumer' = [pc |-> "save", todo |-> todo]
    BY <1>7 DEF Alerts!detect_alert_situations
  <2>2. todo \in Seq(AlertId)
    <3>1. Set \in SUBSET AlertId /\ IsFiniteSet(AlertId)
      BY <1>1, SameFiniteSets DEF Alerts!AlertConstants
    <3> HIDE DEF Set
    <3>2. Cardinality(Set) \in Nat
      BY <3>1, FS_Subset, FS_CardinalityType
    <3>3. todo \in [1 .. Cardinality(Set) -> Set]
      BY <2>1, SameFiniteSets, Zenon DEF Alerts!SetToSeqs
    <3> QED BY <3>1, <3>2, <3>3
  <2> HIDE DEF Set
  <2>3. consumer' \in Consumer /\ consumer'.pc = "save"
    BY <2>1, <2>2, TodoIsConsumer
  <2>4. consumer.pc = "detect"
    BY <1>7 DEF Alerts!detect_alert_situations
  <2>5. UNCHANGED <<Written, clock, price, alerts, crashes>>
    BY <1>7 DEF Alerts!detect_alert_situations, Alerts!tables, Alerts!notifier, Written
  <2> QED BY <2>3, <2>4, <2>5, ConsumerMoves
<1>8. CASE Alerts!perform_notify_ends
  BY <1>8, ConsumerMoves DEF Alerts!perform_notify_ends, Alerts!Waiting, Consumer,
     Alerts!tables, Alerts!notifier, Written
<1>9. CASE Alerts!consume_fails
  BY <1>9, ConsumerMoves DEF Alerts!consume_fails, Alerts!Dead, Consumer,
     Alerts!tables, Alerts!notifier, Written
<1>10. CASE UNCHANGED Alerts!alertVars
  BY <1>1, <1>10, OthersMove DEF Alerts!alertVars, Written
<1> QED BY <1>2, <1>3, <1>4, <1>5, <1>6, <1>7, <1>8, <1>9, <1>10, OccurrencesSaved, Notified,
           NotificationRecorded, Restarted, Consumed DEF Alerts!Next

LEMMA AlertInit ==
    ASSUME Alerts!Init
    PROVE  AlertInv
<1>1. /\ consumer = Alerts!Waiting /\ consumer.pc = "wait" /\ consumer \in Consumer
  BY DEF Alerts!Init, Alerts!Waiting, Consumer
<1>2. AlertTypes
  BY <1>1 DEF Alerts!Init, AlertTypes
<1>3. Occurrences
  BY <1>1 DEF Alerts!Init, Occurrences
<1>4. \A t : Dated({}, t)
  BY FS_EmptySet DEF Dated
<1>5. Spaced
  BY <1>1, <1>4 DEF Alerts!Init, Spaced
<1>6. Recorded
  BY <1>1, FS_EmptySet DEF Alerts!Init, Recorded, Unrecorded
<1>7. Mailed
  <2>1. \A a : Queued(<< >>, a) = {}
    BY DEF Queued
  <2> QED BY <2>1, FS_EmptySet DEF Alerts!Init, Mailed
<1> QED BY <1>2, <1>3, <1>5, <1>6, <1>7 DEF AlertInv

\* JNP II: however ticks, alerts, crashes and restarts come, the recorded notifications of
\* an alert are more than alert_interval apart, a crash leaves one published notification
\* unrecorded at most, and mails are only sent of alerts that occurred and are still there.
THEOREM AlertsStayQuiet ==
    ASSUME Alerts!AlertConstants
    PROVE  Alerts!Spec => []AlertsAreQuiet
<1>1. Alerts!Init => AlertInv
  BY AlertInit
<1>2. AlertInv /\ [Alerts!Next]_Alerts!alertVars => AlertInv'
  BY AlertStep
<1>3. AlertInv => AlertsAreQuiet
  <2> SUFFICES ASSUME AlertInv, NEW a \in AlertId
               PROVE  /\ \A s, t \in notifications[a] : s < t => t - s > alert_interval
                      /\ published[a] <= Cardinality(notifications[a]) + crashes
                            + (IF consumer.pc \in {"record", "dead"} THEN 1 ELSE 0)
                      /\ mails[a] <= published[a]
                      /\ published[a] > 0 => a \in occurred \cap alerts
    BY SameFiniteSets, Zenon DEF AlertsAreQuiet, Alerts!AlertsAreQuiet
  <2>1. /\ published[a] \in Nat /\ crashes \in Nat /\ Cardinality(notifications[a]) \in Nat
        /\ mails[a] \in Nat /\ Cardinality(Queued(notificationQueue, a)) \in Nat
    BY FS_CardinalityType, QueuedAppend DEF AlertInv, AlertTypes, Spaced, Dated
  <2>2. \A s, t \in notifications[a] : s < t => t - s > alert_interval
    BY DEF AlertInv, Spaced, Dated
  <2>3. published[a] <= Cardinality(notifications[a]) + crashes
                            + (IF consumer.pc \in {"record", "dead"} THEN 1 ELSE 0)
    BY <2>1 DEF AlertInv, Recorded, Unrecorded
  <2>4. mails[a] <= published[a]
    BY <2>1 DEF AlertInv, Mailed
  <2>5. published[a] > 0 => a \in occurred \cap alerts
    BY DEF AlertInv, Occurrences
  <2> QED BY <2>2, <2>3, <2>4, <2>5
<1> QED BY <1>1, <1>2, <1>3, PTL DEF Alerts!Spec

-----------------------------------------------------------------------------
(* The keys on their way to the client *)

\* Events still to come of a key say last what the player does with it.
LastTold ==
    \A i \in 1 .. Len(wire) :
        (\A j \in i + 1 .. Len(wire) : wire[j].key # wire[i].key)
            => (wire[i].down <=> wire[i].key \in held)

Coming(k) == \E i \in 1 .. Len(wire) : wire[i].key = k

KeyInv ==
    /\ wire \in Seq(Keys!Line)
    /\ held \subseteq Keys!Key /\ pressed \subseteq Keys!Key
    /\ refusals \in Nat /\ lost \in Nat
    \* What is left in the buffer costs one line, and has not done so yet.
    /\ lost + (IF buf # {} THEN 1 ELSE 0) <= refusals
    /\ LastTold
    /\ \A k \in Keys!Key \ missed : ~Coming(k) => (k \in pressed <=> k \in held)
    /\ turn_direction = Keys!Direction(pressed)

LEMMA KeySent ==
    ASSUME KeyInv, NEW k \in Keys!Key, NEW down \in BOOLEAN, Keys!SendKey(k, down)
    PROVE  KeyInv'
<1> DEFINE line == [key |-> k, down |-> down]
<1>1. /\ wire \in Seq(Keys!Line) /\ line \in Keys!Line /\ line.key = k /\ line.down = down
      /\ wire' = Append(wire, line)
      /\ held' = IF down THEN held \cup {k} ELSE held \ {k}
      /\ UNCHANGED <<cut, pressed, turn_direction, buf, missed, refusals, lost>>
      /\ held \subseteq Keys!Key
  BY DEF KeyInv, Keys!SendKey, Keys!Line
<1> HIDE DEF line
<1>2. /\ wire' \in Seq(Keys!Line) /\ Len(wire') = Len(wire) + 1 /\ Len(wire) \in Nat
      /\ wire'[Len(wire) + 1] = line /\ \A i \in 1 .. Len(wire) : wire'[i] = wire[i]
  BY <1>1
<1>3. \A i \in 1 .. Len(wire) + 1 : i \in 1 .. Len(wire) \/ i = Len(wire) + 1
  BY <1>2
<1>4. LastTold'
  <2> SUFFICES ASSUME NEW i \in 1 .. Len(wire'),
                      \A j \in i + 1 .. Len(wire') : wire'[j].key # wire'[i].key
               PROVE  wire'[i].down <=> wire'[i].key \in held'
    BY DEF LastTold
  <2>1. CASE i = Len(wire) + 1
    BY <1>1, <1>2, <2>1
  <2>2. CASE i \in 1 .. Len(wire)
    <3>1. Len(wire) + 1 \in i + 1 .. Len(wire')
      BY <1>2, <2>2
    <3>2. wire[i].key # k
      BY <1>1, <1>2, <2>2, <3>1
    <3>3. \A j \in i + 1 .. Len(wire) : wire[j].key # wire[i].key
      <4>1. \A j \in i + 1 .. Len(wire) : j \in 1 .. Len(wire) /\ j \in i + 1 .. Len(wire')
        BY <1>2, <2>2
      <4> QED BY <1>2, <2>2, <4>1
    <3>4. wire[i].down <=> wire[i].key \in held
      BY <2>2, <3>3 DEF KeyInv, LastTold
    <3> QED BY <1>1, <1>2, <2>2, <3>2, <3>4
  <2> QED BY <1>2, <1>3, <2>1, <2>2
<1>5. ASSUME NEW m \in Keys!Key \ missed, ~Coming(m)'
      PROVE  m \in pressed' <=> m \in held'
  <2>1. ~Coming(m) /\ m # k
    <3>1. Len(wire) + 1 \in 1 .. Len(wire') /\ \A i \in 1 .. Len(wire) : i \in 1 .. Len(wire')
      BY <1>2
    <3> QED BY <1>1, <1>2, <1>5, <3>1 DEF Coming
  <2> QED BY <1>1, <1>5, <2>1 DEF KeyInv
<1>6. held' \subseteq Keys!Key
  BY <1>1
<1> QED BY <1>1, <1>2, <1>4, <1>5, <1>6 DEF KeyInv

LEMMA LinesRead ==
    ASSUME KeyInv, NEW n \in 0 .. Len(wire), NEW front \in BOOLEAN,
           Keys!ReceiveMessage(n, front)
    PROVE  KeyInv'
<1> DEFINE whole == n = 1 /\ ~front /\ ~cut
           read == {wire[i].key : i \in 1 .. n}
           understood == whole /\ Keys!Matches(wire[1])
<1>1. /\ wire' = SubSeq(wire, n + 1, Len(wire))
      /\ IF understood THEN Keys!load(wire[1]) ELSE UNCHANGED <<pressed, turn_direction>>
      /\ missed' = IF understood THEN missed \ read ELSE missed \cup read
      /\ lost' = IF whole /\ ~understood THEN lost + 1 ELSE lost
      /\ buf' = {}
      /\ UNCHANGED <<held, refusals>>
  BY DEF Keys!ReceiveMessage, Keys!Cleared
<1>2. wire \in Seq(Keys!Line) /\ Len(wire) \in Nat
  BY DEF KeyInv
<1>3. /\ wire' \in Seq(Keys!Line) /\ Len(wire') = Len(wire) - n
      /\ \A i \in 1 .. Len(wire) - n : wire'[i] = wire[i + n]
  BY <1>1, <1>2
<1>4. lost' + (IF buf' # {} THEN 1 ELSE 0) <= refusals' /\ lost' \in Nat
  <2>1. lost \in Nat /\ refusals \in Nat /\ lost + (IF buf # {} THEN 1 ELSE 0) <= refusals
    BY DEF KeyInv
  <2>2. CASE whole /\ ~understood
    <3>1. buf # {}
      BY <2>2 DEF Keys!Matches
    <3> QED BY <1>1, <2>1, <2>2, <3>1
  <2>3. CASE ~(whole /\ ~understood)
    BY <1>1, <2>1, <2>3
  <2> QED BY <2>2, <2>3
<1>5. LastTold'
  <2> SUFFICES ASSUME NEW i \in 1 .. Len(wire'),
                      \A j \in i + 1 .. Len(wire') : wire'[j].key # wire'[i].key
               PROVE  wire'[i].down <=> wire'[i].key \in held'
    BY DEF LastTold
  <2>1. i + n \in 1 .. Len(wire) /\ wire'[i] = wire[i + n]
    BY <1>2, <1>3
  <2>2. \A j \in (i + n) + 1 .. Len(wire) : wire[j].key # wire[i + n].key
    <3> SUFFICES ASSUME NEW j \in (i + n) + 1 .. Len(wire)
                 PROVE  wire[j].key # wire[i + n].key
      OBVIOUS
    <3>1. j - n \in i + 1 .. Len(wire') /\ j - n \in 1 .. Len(wire) - n /\ (j - n) + n = j
      BY <1>2, <1>3
    <3>2. wire'[j - n] = wire[j]
      BY <1>3, <3>1
    <3> QED BY <2>1, <3>1, <3>2
  <2>3. wire[i + n].down <=> wire[i + n].key \in held
    BY <2>1, <2>2, Zenon DEF KeyInv, LastTold
  <2> QED BY <1>1, <2>1, <2>3
<1>6. ASSUME NEW k \in Keys!Key, ~Coming(k)', k \notin read
      PROVE  ~Coming(k)
  <2> SUFFICES ASSUME NEW i \in 1 .. Len(wire), wire[i].key = k
               PROVE  FALSE
    BY DEF Coming
  <2>1. CASE i \in 1 .. n
    BY <1>6, <2>1
  <2>2. CASE i \notin 1 .. n
    <3>1. i - n \in 1 .. Len(wire') /\ i - n \in 1 .. Len(wire) - n /\ (i - n) + n = i
      BY <1>2, <1>3, <2>2
    <3>2. wire'[i - n] = wire[i]
      BY <1>3, <3>1
    <3> QED BY <1>6, <3>1, <3>2 DEF Coming
  <2> QED BY <2>1, <2>2
<1>7. held' = held /\ refusals' = refusals /\ held \subseteq Keys!Key /\ refusals \in Nat
  BY <1>1 DEF KeyInv
<1>8. CASE understood
  <2> DEFINE line == wire[1]
  <2>1. /\ n = 1 /\ line \in Keys!Line /\ read = {line.key}
        /\ pressed' = IF line.down THEN pressed \cup {line.key} ELSE pressed \ {line.key}
        /\ turn_direction' = Keys!Direction(pressed')
        /\ missed' = missed \ {line.key}
    <3>1. n = 1 /\ 1 \in 1 .. Len(wire)
      BY <1>2, <1>8
    <3>2. line \in Keys!Line /\ read = {line.key}
      BY <1>2, <3>1
    <3> QED BY <1>1, <1>8, <3>1, <3>2, Zenon DEF Keys!load
  <2>2. pressed' \subseteq Keys!Key
    BY <2>1 DEF KeyInv, Keys!Line
  <2>3. ASSUME NEW k \in Keys!Key \ missed', ~Coming(k)'
        PROVE  k \in pressed' <=> k \in held'
    <3>1. CASE k = line.key
      <4>1. \A j \in 1 + 1 .. Len(wire) : wire[j].key # line.key
        <5> SUFFICES ASSUME NEW j \in 2 .. Len(wire) PROVE wire[j].key # line.key
          BY <1>2
        <5>1. j - 1 \in 1 .. Len(wire') /\ j - 1 \in 1 .. Len(wire) - 1 /\ (j - 1) + 1 = j
          BY <1>2, <1>3, <2>1
        <5>2. wire'[j - 1] = wire[j]
          BY <1>3, <2>1, <5>1
        <5> QED BY <2>3, <3>1, <5>1, <5>2 DEF Coming
      <4>2. 1 \in 1 .. Len(wire)
        BY <1>2, <2>1
      <4>3. line.down <=> line.key \in held
        BY <4>1, <4>2, Zenon DEF KeyInv, LastTold
      <4>4. line.down <=> k \in pressed'
        BY <2>1, <3>1
      <4> QED BY <1>7, <3>1, <4>3, <4>4
    <3>2. CASE k # line.key
      <4>1. ~Coming(k) /\ k \notin missed
        BY <1>6, <2>1, <2>3, <3>2
      <4>2. k \in pressed <=> k \in held
        BY <2>3, <4>1 DEF KeyInv
      <4>3. k \in pressed' <=> k \in pressed
        BY <2>1, <3>2
      <4> QED BY <1>7, <4>2, <4>3
    <3> QED BY <3>1, <3>2
  <2> HIDE DEF understood, read, line
  <2> QED BY <1>3, <1>4, <1>5, <1>7, <2>1, <2>2, <2>3, Zenon DEF KeyInv
<1>9. CASE ~understood
  <2>1. /\ pressed' = pressed /\ turn_direction' = turn_direction /\ missed' = missed \cup read
        /\ pressed \subseteq Keys!Key /\ turn_direction = Keys!Direction(pressed)
    BY <1>1, <1>9, Zenon DEF KeyInv
  <2>2. ASSUME NEW k \in Keys!Key \ missed', ~Coming(k)'
        PROVE  k \in pressed' <=> k \in held'
    BY <1>6, <1>7, <2>1, <2>2 DEF KeyInv
  <2> HIDE DEF understood, read
  <2> QED BY <1>3, <1>4, <1>5, <1>7, <2>1, <2>2, Zenon DEF KeyInv
<1> QED BY <1>8, <1>9

LEMMA KeyStep ==
    ASSUME Keys!KeyConstants, KeyInv, [Keys!Next]_Keys!keyVars
    PROVE  KeyInv'
<1>1. lost \in Nat /\ refusals \in Nat /\ lost + (IF buf # {} THEN 1 ELSE 0) <= refusals
  BY DEF KeyInv
<1>2. CASE Keys!SendCommand
  <2>1. /\ buf' = {}
        /\ UNCHANGED <<held, wire, pressed, turn_direction, missed, refusals, lost>>
    BY <1>2 DEF Keys!SendCommand
  <2>2. lost' + (IF buf' # {} THEN 1 ELSE 0) <= refusals'
    BY <1>1, <2>1
  <2> QED BY <2>1, <2>2, Zenon DEF KeyInv, LastTold, Coming
<1>3. ASSUME NEW len \in CommandLength, Keys!CommandRefused(len)
      PROVE  KeyInv'
  <2>1. /\ refusals' = refusals + 1
        /\ UNCHANGED <<held, wire, pressed, turn_direction, missed, lost>>
    BY <1>3 DEF Keys!CommandRefused
  <2>2. lost' + (IF buf' # {} THEN 1 ELSE 0) <= refusals' /\ refusals' \in Nat
    BY <1>1, <2>1
  <2> QED BY <2>1, <2>2, Zenon DEF KeyInv, LastTold, Coming
<1>4. CASE UNCHANGED Keys!keyVars
  BY <1>4, Zenon DEF Keys!keyVars, KeyInv, LastTold, Coming
<1> QED BY <1>2, <1>3, <1>4, KeySent, LinesRead, Zenon DEF Keys!Next

LEMMA KeyInit ==
    ASSUME Keys!Init
    PROVE  KeyInv
<1>1. /\ held = {} /\ wire = << >> /\ pressed = {} /\ turn_direction = 0 /\ buf = {}
      /\ missed = {} /\ refusals = 0 /\ lost = 0
  BY DEF Keys!Init
<1>2. Keys!Direction({}) = 0
  BY DEF Keys!Direction
<1> QED BY <1>1, <1>2 DEF KeyInv, LastTold, Coming

\* What Direction makes of the keys held is the difference of two counts.
LEMMA DirectionCounts ==
    ASSUME NEW keys \in SUBSET Keys!Key
    PROVE  Keys!Direction(keys) = Keys!Cardinality(keys \ {"left"}) - Keys!Cardinality(keys \ {"right"})
<1>1. \A S : Keys!Cardinality(S) = Cardinality(S)
  BY Zenon DEF Keys!Cardinality, Cardinality
<1>2. Cardinality({}) = 0 /\ \A x : Cardinality({x}) = 1
  BY FS_EmptySet, FS_Singleton
<1>3. \/ keys = {} \/ keys = {"left"} \/ keys = {"right"} \/ keys = {"left", "right"}
  BY DEF Keys!Key
<1>4. CASE keys = {}
  <2>1. keys \ {"left"} = {} /\ keys \ {"right"} = {}
    BY <1>4
  <2>2. Keys!Direction(keys) = 0
    BY <1>4 DEF Keys!Direction
  <2>3. Keys!Cardinality(keys \ {"left"}) = 0 /\ Keys!Cardinality(keys \ {"right"}) = 0
    BY <1>1, <1>2, <2>1, Zenon
  <2> QED BY <2>2, <2>3
<1>5. CASE keys = {"left"}
  <2>1. keys \ {"left"} = {} /\ keys \ {"right"} = {"left"}
    BY <1>5
  <2>2. Keys!Direction(keys) = -1
    BY <1>5 DEF Keys!Direction
  <2>3. Keys!Cardinality(keys \ {"left"}) = 0 /\ Keys!Cardinality(keys \ {"right"}) = 1
    BY <1>1, <1>2, <2>1, Zenon
  <2> QED BY <2>2, <2>3
<1>6. CASE keys = {"right"}
  <2>1. keys \ {"left"} = {"right"} /\ keys \ {"right"} = {}
    BY <1>6
  <2>2. Keys!Direction(keys) = 1
    BY <1>6 DEF Keys!Direction
  <2>3. Keys!Cardinality(keys \ {"left"}) = 1 /\ Keys!Cardinality(keys \ {"right"}) = 0
    BY <1>1, <1>2, <2>1, Zenon
  <2> QED BY <2>2, <2>3
<1>7. CASE keys = {"left", "right"}
  <2>1. keys \ {"left"} = {"right"} /\ keys \ {"right"} = {"left"}
    BY <1>7
  <2>2. Keys!Direction(keys) = 0
    <3>1. keys # {"left"} /\ keys # {"right"}
      BY <1>7
    <3> QED BY <3>1 DEF Keys!Direction
  <2>3. Keys!Cardinality(keys \ {"left"}) = 1 /\ Keys!Cardinality(keys \ {"right"}) = 1
    BY <1>1, <1>2, <2>1, Zenon
  <2> QED BY <2>2, <2>3
<1> QED BY <1>3, <1>4, <1>5, <1>6, <1>7

\* The snake turns as the player's keys say, whenever the events of both keys were read and
\* the last of each was understood, however the lines were cut or joined on their way.
THEOREM KeysAreFollowed ==
    ASSUME Keys!KeyConstants
    PROVE  Keys!Spec => []Keys!KeysFollow
<1>1. Keys!Init => KeyInv
  BY KeyInit
<1>2. KeyInv /\ [Keys!Next]_Keys!keyVars => KeyInv'
  BY KeyStep
<1>3. KeyInv => Keys!KeysFollow
  <2> SUFFICES ASSUME KeyInv PROVE Keys!KeysFollow
    OBVIOUS
  <2> DEFINE settled == {k \in Keys!Key \ missed : \A i \in 1 .. Len(wire) : wire[i].key # k}
  <2>1. \A k \in settled : k \in pressed <=> k \in held
    BY DEF KeyInv, Coming
  <2>2. /\ held \in SUBSET Keys!Key /\ pressed \in SUBSET Keys!Key
        /\ turn_direction = Keys!Direction(pressed)
    BY DEF KeyInv
  <2> HIDE DEF settled
  <2>3. settled = Keys!Key => pressed = held
    BY <2>1, <2>2
  <2>4. settled = Keys!Key => turn_direction =
          Keys!Cardinality(held \ {"left"}) - Keys!Cardinality(held \ {"right"})
    BY <2>2, <2>3, DirectionCounts
  <2> QED BY <2>1, <2>4, Zenon DEF Keys!KeysFollow, settled
<1> QED BY <1>1, <1>2, <1>3, PTL DEF Keys!Spec

\* A command the connection refuses spoils one line that comes whole and alone at most.
THEOREM RefusalsCostOneLine ==
    ASSUME Keys!KeyConstants
    PROVE  Keys!Spec => []Keys!OneLossPerRefusal
<1>1. Keys!Init => KeyInv
  BY KeyInit
<1>2. KeyInv /\ [Keys!Next]_Keys!keyVars => KeyInv'
  BY KeyStep
<1>3. KeyInv => Keys!OneLossPerRefusal
  BY DEF KeyInv, Keys!OneLossPerRefusal
<1> QED BY <1>1, <1>2, <1>3, PTL DEF Keys!Spec

-----------------------------------------------------------------------------
(* The orders of the hotel *)

Holds(list, o) == \E i \in 1 .. Len(list) : list[i] = o

\* The list holds an order once, and none that has a room; the days of every booking are
\* reserved for all copies of its room, and those of two bookings differ.
HotelInv ==
    /\ ordersList \in Seq(DOMAIN Orders)
    /\ deskClerkList \in Seq(DOMAIN Clerks) /\ deskClerkList # << >>
    /\ \A i, j \in 1 .. Len(ordersList) : ordersList[i] = ordersList[j] => i = j
    /\ reheard \in [DOMAIN Orders -> Nat]
    /\ datesWhenReserved \in [{Rooms[r].shares : r \in DOMAIN Rooms} -> SUBSET Int]
    /\ booked \subseteq (DOMAIN Orders) \X (DOMAIN Rooms)
    /\ \A b \in booked : /\ ~Holds(ordersList, b[1])
                         /\ Hotel!Days(b[1]) \subseteq datesWhenReserved[Rooms[b[2]].shares]
    /\ \A b, c \in booked : b # c =>
          /\ b[1] # c[1]
          /\ Rooms[b[2]].shares = Rooms[c[2]].shares
                => Hotel!Days(b[1]) \cap Hotel!Days(c[1]) = {}
    /\ \A o \in DOMAIN Orders :
          \/ reheard[o] = 0 \/ reheard[o] >= Hotel!MaxHearings
          \/ Holds(ordersList, o) \/ \E r \in DOMAIN Rooms : <<o, r>> \in booked

\* A clerk proposes a room that is free on all days, or none.
LEMMA ProposedIsFree ==
    ASSUME NEW strategy \in {"perfect", "approximating", "random", "snarky"},
           NEW o, NEW room \in Hotel!findRoom(strategy, o)
    PROVE  room = NoRoom \/ room \in Hotel!findFreeRooms(o)
<1> DEFINE free == Hotel!findFreeRooms(o)
<1>1. CASE free = {}
  <2>1. Hotel!findRoom(strategy, o) = {NoRoom}
    BY <1>1 DEF Hotel!findRoom
  <2> QED BY <2>1
<1>2. CASE free # {}
  <2> HIDE DEF free
  <2>1. \/ strategy = "random" /\ room \in Hotel!RandomDeskClerk(o, free)
        \/ strategy = "perfect" /\ room \in Hotel!PerfectDeskClerk(o, free)
        \/ strategy = "approximating" /\ room \in Hotel!AproximatingDeskClerk(o, free)
        \/ strategy = "snarky" /\ room \in Hotel!SnarkyDeskClerk(o, free)
    <3>1. Hotel!findFreeRooms(o) # {}
      BY <1>2 DEF free
    <3>2. CASE strategy = "random"
      BY <3>1, <3>2 DEF Hotel!findRoom, free
    <3>3. CASE strategy = "perfect"
      BY <3>1, <3>3 DEF Hotel!findRoom, free
    <3>4. CASE strategy = "approximating"
      BY <3>1, <3>4 DEF Hotel!findRoom, free
    <3>5. CASE strategy = "snarky"
      BY <3>1, <3>5 DEF Hotel!findRoom, free
    <3> QED BY <3>2, <3>3, <3>4, <3>5
  <2>2. Hotel!Fitting(o, free) \subseteq free
    BY DEF Hotel!Fitting
  <2>3. Hotel!RandomDeskClerk(o, free) \subseteq free
    BY DEF Hotel!RandomDeskClerk
  <2>4. Hotel!PerfectDeskClerk(o, free) \subseteq free \cup {NoRoom}
    <3> DEFINE fit == Hotel!Fitting(o, free)
    <3>1. CASE fit = {}
      BY <3>1 DEF Hotel!PerfectDeskClerk
    <3>2. CASE fit # {}
      <4>1. Hotel!PerfectDeskClerk(o, free) \subseteq fit
        BY <3>2, Zenon DEF Hotel!PerfectDeskClerk
      <4> QED BY <2>2, <4>1
    <3> QED BY <3>1, <3>2
  <2>5. \A ids : Hotel!WithId(free, ids) \subseteq free
    BY DEF Hotel!WithId
  <2>6. Hotel!AproximatingDeskClerk(o, free) \subseteq free
    BY <2>5, Zenon DEF Hotel!AproximatingDeskClerk
  <2>7. Hotel!SnarkyDeskClerk(o, free) \subseteq free
    BY <2>5, Zenon DEF Hotel!SnarkyDeskClerk
  <2>8. room = NoRoom \/ room \in free
    BY <2>1, <2>3, <2>4, <2>6, <2>7
  <2> QED BY <2>8 DEF free
<1> QED BY <1>1, <1>2

LEMMA HotelInit ==
    ASSUME Hotel!HotelConstants
    PROVE  Hotel!Init => HotelInv
<1> SUFFICES ASSUME Hotel!Init PROVE HotelInv
  OBVIOUS
<1>1. /\ ordersList \in Seq(DOMAIN Orders)
      /\ \A i, j \in 1 .. Len(ordersList) : ordersList[i] = ordersList[j] => i = j
  <2>1. ordersList \in Seq(DOMAIN Orders)
    BY DEF Hotel!Init, Hotel!HotelConstants
  <2>2. \A i, j \in DOMAIN ordersList : ordersList[i] = ordersList[j] => i = j
    BY DEF Hotel!Init, Hotel!HotelConstants
  <2> QED BY <2>1, <2>2
<1>2. deskClerkList \in Seq(DOMAIN Clerks) /\ deskClerkList # << >>
  <2> DEFINE Set == DOMAIN Clerks
  <2>1. IsFiniteSet(Set) /\ Set # {}
    <3>1. \A S : Hotel!IsFiniteSet(S) <=> IsFiniteSet(S)
      BY Zenon DEF Hotel!IsFiniteSet, IsFiniteSet
    <3> QED BY <3>1 DEF Hotel!HotelConstants
  <2>2. \A S : Hotel!Cardinality(S) = Cardinality(S)
    BY Zenon DEF Hotel!Cardinality, Cardinality
  <2>3. deskClerkList \in Hotel!SetToSeqs(Set)
    BY DEF Hotel!Init
  <2> HIDE DEF Set
  <2>4. deskClerkList \in [1 .. Cardinality(Set) -> Set]
    BY <2>2, <2>3, Zenon DEF Hotel!SetToSeqs
  <2>5. Cardinality(Set) \in Nat /\ Cardinality(Set) # 0
    BY <2>1, FS_CardinalityType, FS_EmptySet
  <2>6. deskClerkList \in Seq(Set) /\ deskClerkList # << >>
    BY <2>4, <2>5
  <2> QED BY <2>6 DEF Set
<1>3. /\ reheard \in [DOMAIN Orders -> Nat]
      /\ \A o \in DOMAIN Orders : reheard[o] = 0
      /\ datesWhenReserved \in [{Rooms[r].shares : r \in DOMAIN Rooms} -> SUBSET Int]
      /\ booked = {}
  BY DEF Hotel!Init
<1> QED BY <1>1, <1>2, <1>3 DEF HotelInv

\* What hearing the first order does: it goes back to the end, or out of the list.
Heard(put) ==
    /\ ordersList' \in Seq(DOMAIN Orders)
    /\ deskClerkList' \in Seq(DOMAIN Clerks) /\ deskClerkList' # << >>
    /\ \A i, j \in 1 .. Len(ordersList') : ordersList'[i] = ordersList'[j] => i = j
    /\ reheard' \in [DOMAIN Orders -> Nat]
    /\ \A o \in DOMAIN Orders : o # Head(ordersList) =>
          (Holds(ordersList', o) <=> Holds(ordersList, o)) /\ reheard'[o] = reheard[o]
    /\ reheard'[Head(ordersList)] = reheard[Head(ordersList)] + 1
    /\ Head(ordersList) \in DOMAIN Orders /\ Holds(ordersList, Head(ordersList))
    /\ Holds(ordersList', Head(ordersList)) <=> put # << >>

\* Hearing an order moves it to the end of the list or drops it, and keeps the others.
LEMMA HeardOnce ==
    ASSUME HotelInv, ordersList # << >>, NEW put \in {<< >>, <<Head(ordersList)>>},
           Hotel!Hear(Head(ordersList), put)
    PROVE  Heard(put)
<1> DEFINE head == Head(ordersList)
           tail == Tail(ordersList)
<1>1. /\ ordersList \in Seq(DOMAIN Orders)
      /\ deskClerkList \in Seq(DOMAIN Clerks) /\ deskClerkList # << >>
      /\ \A i, j \in 1 .. Len(ordersList) : ordersList[i] = ordersList[j] => i = j
      /\ reheard \in [DOMAIN Orders -> Nat]
  BY DEF HotelInv
<1>2. /\ head \in DOMAIN Orders /\ head = ordersList[1] /\ Len(ordersList) \in Nat \ {0}
      /\ tail \in Seq(DOMAIN Orders) /\ Len(tail) = Len(ordersList) - 1
      /\ \A i \in 1 .. Len(tail) : tail[i] = ordersList[i + 1]
  BY <1>1, HeadTailProperties
<1>3. /\ reheard' = [reheard EXCEPT ![head] = @ + 1]
      /\ ordersList' = tail \o put
      /\ deskClerkList' = Append(Tail(deskClerkList), Head(deskClerkList))
  BY DEF Hotel!Hear
<1>4. deskClerkList' \in Seq(DOMAIN Clerks) /\ deskClerkList' # << >>
  <2>1. Tail(deskClerkList) \in Seq(DOMAIN Clerks) /\ Head(deskClerkList) \in DOMAIN Clerks
    BY <1>1, HeadTailProperties
  <2> QED BY <1>3, <2>1, AppendProperties
<1>5. /\ reheard' \in [DOMAIN Orders -> Nat] /\ reheard'[head] = reheard[head] + 1
      /\ \A o \in DOMAIN Orders : o # head => reheard'[o] = reheard[o]
  BY <1>1, <1>2, <1>3
<1>6. /\ \A i \in 1 .. Len(tail) : tail[i] # head
      /\ \A i, j \in 1 .. Len(tail) : tail[i] = tail[j] => i = j
  BY <1>1, <1>2
<1>7. \A o : o # head => (Holds(ordersList, o) <=> \E i \in 1 .. Len(tail) : tail[i] = o)
  <2>1. ASSUME NEW o, o # head, NEW i \in 1 .. Len(ordersList), ordersList[i] = o
        PROVE  \E j \in 1 .. Len(tail) : tail[j] = o
    <3>1. i - 1 \in 1 .. Len(tail) /\ tail[i - 1] = o
      BY <1>2, <2>1
    <3> QED BY <3>1
  <2>2. ASSUME NEW o, NEW i \in 1 .. Len(tail), tail[i] = o
        PROVE  \E j \in 1 .. Len(ordersList) : ordersList[j] = o
    <3>1. i + 1 \in 1 .. Len(ordersList) /\ ordersList[i + 1] = o
      BY <1>2, <2>2
    <3> QED BY <3>1
  <2> QED BY <2>1, <2>2 DEF Holds
<1>8. Holds(ordersList, head)
  BY <1>2 DEF Holds
<1> HIDE DEF head, tail
<1>9. CASE put = << >>
  <2>1. ordersList' = tail
    BY <1>2, <1>3, <1>9
  <2>2. \A o : Holds(ordersList', o) <=> \E i \in 1 .. Len(tail) : tail[i] = o
    BY <2>1 DEF Holds
  <2>3. ~Holds(ordersList', head)
    BY <2>2, <1>6
  <2> QED BY <1>2, <1>4, <1>5, <1>6, <1>7, <1>8, <1>9, <2>1, <2>2, <2>3 DEF head, Heard
<1>10. CASE put = <<head>>
  <2>1. /\ ordersList' \in Seq(DOMAIN Orders) /\ Len(ordersList') = Len(tail) + 1
        /\ \A i \in 1 .. Len(tail) : ordersList'[i] = tail[i]
        /\ ordersList'[Len(tail) + 1] = head
    BY <1>2, <1>3, <1>10
  <2>2. \A i, j \in 1 .. Len(ordersList') : ordersList'[i] = ordersList'[j] => i = j
    BY <1>2, <1>6, <2>1
  <2>3. Holds(ordersList', head)
    BY <1>2, <2>1 DEF Holds
  <2>4. \A o : o # head => (Holds(ordersList', o) <=> \E i \in 1 .. Len(tail) : tail[i] = o)
    <3>1. \A o : Holds(ordersList', o) <=> \E i \in 1 .. Len(ordersList') : ordersList'[i] = o
      BY DEF Holds
    <3>2. ASSUME NEW o, o # head, NEW i \in 1 .. Len(ordersList'), ordersList'[i] = o
          PROVE  i \in 1 .. Len(tail) /\ tail[i] = o
      BY <1>2, <2>1, <3>2
    <3>3. ASSUME NEW o, NEW i \in 1 .. Len(tail), tail[i] = o
          PROVE  i \in 1 .. Len(ordersList') /\ ordersList'[i] = o
      BY <1>2, <2>1, <3>3
    <3> QED BY <3>1, <3>2, <3>3
  <2>5. put # << >>
    BY <1>10
  <2> QED BY <1>2, <1>4, <1>5, <1>7, <1>8, <2>1, <2>2, <2>3, <2>4, <2>5 DEF head, Heard
<1> QED BY <1>9, <1>10 DEF head, Heard

LEMMA HotelStep ==
    ASSUME Hotel!HotelConstants
    PROVE  HotelInv /\ [Hotel!Next]_Hotel!hotelVars => HotelInv'
<1> SUFFICES ASSUME HotelInv, [Hotel!Next]_Hotel!hotelVars PROVE HotelInv'
  OBVIOUS
<1> DEFINE head == Head(ordersList)
           Shares == {Rooms[r].shares : r \in DOMAIN Rooms}
<1>1. CASE UNCHANGED Hotel!hotelVars
  BY <1>1 DEF HotelInv, Hotel!hotelVars, Holds
<1>2. CASE Hotel!GiveUp
  <2>1. ordersList # << >> /\ Hotel!Hear(head, << >>) /\ Hotel!reheardTooManyTimes(head)
        /\ UNCHANGED <<datesWhenReserved, booked>>
    BY <1>2 DEF Hotel!GiveUp
  <2>2. Heard(<< >>)
    BY <2>1, HeardOnce
  <2>3. reheard'[head] >= Hotel!MaxHearings
    BY <2>1, <2>2 DEF Heard, HotelInv, Hotel!reheardTooManyTimes, Hotel!MaxHearings
  <2>4. \A b \in booked : ~Holds(ordersList', b[1])
    BY <2>2 DEF Heard, HotelInv
  <2>5. \A o \in DOMAIN Orders :
           \/ reheard'[o] = 0 \/ reheard'[o] >= Hotel!MaxHearings
           \/ Holds(ordersList', o) \/ \E r \in DOMAIN Rooms : <<o, r>> \in booked
    BY <2>2, <2>3 DEF Heard, HotelInv
  <2> QED BY <2>1, <2>2, <2>4, <2>5 DEF HotelInv, Heard
<1>3. CASE Hotel!Propose
  <2>1. ordersList # << >> /\ head \in DOMAIN Orders
    BY <1>3, HeadTailProperties DEF Hotel!Propose, HotelInv
  <2> DEFINE clerk == Clerks[Head(deskClerkList)]
  <2>2. clerk \in {"perfect", "approximating", "random", "snarky"}
    BY HeadTailProperties DEF HotelInv, Hotel!HotelConstants
  <2>3. PICK room \in Hotel!findRoom(clerk, head) :
           IF room # NoRoom /\ Hotel!clientAccepts(head, room)
           THEN /\ Hotel!Hear(head, << >>)
                /\ datesWhenReserved' = [datesWhenReserved EXCEPT
                                             ![Rooms[room].shares] = @ \cup Hotel!Days(head)]
                /\ booked' = booked \cup {<<head, room>>}
           ELSE /\ Hotel!Hear(head, <<head>>)
                /\ UNCHANGED <<datesWhenReserved, booked>>
    BY <1>3 DEF Hotel!Propose
  <2>4. room = NoRoom \/ room \in Hotel!findFreeRooms(head)
    BY <2>2, <2>3, ProposedIsFree
  <2> HIDE DEF clerk
  <2>5. CASE ~(room # NoRoom /\ Hotel!clientAccepts(head, room))
    <3>1. Hotel!Hear(head, <<head>>) /\ UNCHANGED <<datesWhenReserved, booked>>
      BY <2>3, <2>5
    <3>2. Heard(<<head>>)
      BY <2>1, <3>1, HeardOnce
    <3>3. <<head>> # << >>
      OBVIOUS
    <3>4. \A o \in DOMAIN Orders :
             \/ reheard'[o] = 0 \/ reheard'[o] >= Hotel!MaxHearings
             \/ Holds(ordersList', o) \/ \E r \in DOMAIN Rooms : <<o, r>> \in booked
      BY <3>2, <3>3 DEF Heard, HotelInv
    <3>5. \A b \in booked : ~Holds(ordersList', b[1])
      BY <3>2 DEF Heard, HotelInv
    <3> QED BY <3>1, <3>2, <3>4, <3>5 DEF HotelInv, Heard
  <2>6. CASE room # NoRoom /\ Hotel!clientAccepts(head, room)
    <3>1. /\ Hotel!Hear(head, << >>)
          /\ datesWhenReserved' = [datesWhenReserved EXCEPT
                                       ![Rooms[room].shares] = @ \cup Hotel!Days(head)]
          /\ booked' = booked \cup {<<head, room>>}
      BY <2>3, <2>6
    <3>2. room \in DOMAIN Rooms
          /\ datesWhenReserved[Rooms[room].shares] \cap Hotel!Days(head) = {}
      BY <2>4, <2>6 DEF Hotel!findFreeRooms, Hotel!isFree
    <3>3. Heard(<< >>)
      BY <2>1, <3>1, HeardOnce
    <3> HIDE DEF head
    <3>4. /\ datesWhenReserved' \in [Shares -> SUBSET Int]
          /\ \A s \in Shares : datesWhenReserved[s] \subseteq datesWhenReserved'[s]
          /\ Hotel!Days(head) \subseteq datesWhenReserved'[Rooms[room].shares]
      <4> DEFINE share == Rooms[room].shares
      <4>1. share \in Shares /\ datesWhenReserved \in [Shares -> SUBSET Int]
        BY <3>2 DEF HotelInv
      <4>2. datesWhenReserved' = [datesWhenReserved EXCEPT ![share] = @ \cup Hotel!Days(head)]
        BY <3>1
      <4>3. Hotel!Days(head) \subseteq Int
        BY DEF Hotel!Days
      <4> HIDE DEF share, Shares
      <4>4. /\ datesWhenReserved' \in [Shares -> SUBSET Int]
            /\ \A s \in Shares : datesWhenReserved[s] \subseteq datesWhenReserved'[s]
            /\ Hotel!Days(head) \subseteq datesWhenReserved'[share]
        BY <4>1, <4>2, <4>3
      <4> QED BY <4>4 DEF share
    <3>5. \A b \in booked : /\ b \in (DOMAIN Orders) \X (DOMAIN Rooms)
                            /\ ~Holds(ordersList, b[1])
                            /\ Hotel!Days(b[1]) \subseteq datesWhenReserved[Rooms[b[2]].shares]
      BY DEF HotelInv
    <3>6. \A b \in booked : b[1] # head
      BY <3>3, <3>5 DEF Heard, head
    <3>7. ASSUME NEW b \in booked'
          PROVE  /\ ~Holds(ordersList', b[1])
                 /\ Hotel!Days(b[1]) \subseteq datesWhenReserved'[Rooms[b[2]].shares]
      <4>1. CASE b \in booked
        <5>1. b[1] \in DOMAIN Orders /\ b[2] \in DOMAIN Rooms /\ ~Holds(ordersList', b[1])
          BY <3>3, <3>5, <3>6, <4>1 DEF Heard, head
        <5> QED BY <3>4, <3>5, <4>1, <5>1
      <4>2. CASE b = <<head, room>>
        BY <3>3, <3>4, <4>2 DEF Heard, head
      <4> QED BY <3>1, <3>7, <4>1, <4>2
    <3>8. \A b \in booked : Rooms[b[2]].shares = Rooms[room].shares
              => Hotel!Days(b[1]) \cap Hotel!Days(head) = {}
      BY <3>2, <3>5
    <3>9. \A b, c \in booked' : b # c =>
             /\ b[1] # c[1]
             /\ Rooms[b[2]].shares = Rooms[c[2]].shares
                   => Hotel!Days(b[1]) \cap Hotel!Days(c[1]) = {}
      <4> DEFINE new == <<head, room>>
      <4>1. new[1] = head /\ new[2] = room
        OBVIOUS
      <4> HIDE DEF new
      <4>2. ASSUME NEW b \in booked
            PROVE  /\ b[1] # new[1]
                   /\ Rooms[b[2]].shares = Rooms[new[2]].shares
                         => Hotel!Days(b[1]) \cap Hotel!Days(new[1]) = {}
        BY <3>6, <3>8, <4>1
      <4>3. \A b, c \in booked : b # c =>
               /\ b[1] # c[1]
               /\ Rooms[b[2]].shares = Rooms[c[2]].shares
                     => Hotel!Days(b[1]) \cap Hotel!Days(c[1]) = {}
        BY DEF HotelInv
      <4>4. booked' = booked \cup {new}
        BY <3>1 DEF new
      <4> QED BY <4>2, <4>3, <4>4
    <3>10. \A o \in DOMAIN Orders :
              \/ reheard'[o] = 0 \/ reheard'[o] >= Hotel!MaxHearings
              \/ Holds(ordersList', o) \/ \E r \in DOMAIN Rooms : <<o, r>> \in booked'
      <4> TAKE o \in DOMAIN Orders
      <4>1. CASE o = head
        <5>1. <<head, room>> \in booked'
          BY <3>1
        <5> QED BY <3>2, <4>1, <5>1
      <4>2. CASE o # head
        BY <3>1, <3>3, <4>2 DEF HotelInv, Heard, head
      <4> QED BY <4>1, <4>2
    <3>11. booked' \subseteq (DOMAIN Orders) \X (DOMAIN Rooms)
      BY <2>1, <3>1, <3>2 DEF HotelInv
    <3> QED BY <3>3, <3>4, <3>7, <3>9, <3>10, <3>11 DEF HotelInv, Heard
  <2> QED BY <2>5, <2>6
<1> QED BY <1>1, <1>2, <1>3 DEF Hotel!Next

\* The hotel reserves no room twice for a day, gives an order one room at most, and drops
\* none before it was taken up three times.
THEOREM OrdersAlwaysSettled ==
    ASSUME Hotel!HotelConstants
    PROVE  Hotel!Spec => []OrdersAreSettled
<1>1. Hotel!Init => HotelInv
  BY HotelInit
<1>2. HotelInv /\ [Hotel!Next]_Hotel!hotelVars => HotelInv'
  BY HotelStep
<1>3. HotelInv => OrdersAreSettled
  <2> SUFFICES ASSUME HotelInv PROVE OrdersAreSettled
    OBVIOUS
  <2>1. \A o : Hotel!Contains(ordersList, o) <=> Holds(ordersList, o)
    BY Zenon DEF Hotel!Contains, Holds
  <2>2. \A o \in DOMAIN Orders : reheard[o] \in 1 .. Hotel!MaxHearings - 1
           => reheard[o] # 0 /\ ~(reheard[o] >= Hotel!MaxHearings)
    BY DEF HotelInv, Hotel!MaxHearings
  <2>3. \A o \in DOMAIN Orders :
           (reheard[o] \in 1 .. Hotel!MaxHearings - 1 /\ ~Hotel!Contains(ordersList, o))
               => \E r \in DOMAIN Rooms : <<o, r>> \in booked
    BY <2>1, <2>2 DEF HotelInv
  <2>4. \A b, c \in booked : b # c =>
           /\ b[1] # c[1]
           /\ Rooms[b[2]].shares = Rooms[c[2]].shares
                 => Hotel!Days(b[1]) \cap Hotel!Days(c[1]) = {}
    BY DEF HotelInv
  <2> QED BY <2>3, <2>4 DEF OrdersAreSettled, Hotel!OrdersAreSettled
<1> QED BY <1>1, <1>2, <1>3, PTL DEF Hotel!Spec

-----------------------------------------------------------------------------
(* The forum editor *)

Document == [children : Seq(Child), text : [UndoRedo!Node -> Seq(Letter)],
             likes : [Survey -> Nat]]

Elements(s) == {s[i] : i \in 1 .. Len(s)}

\* Every child is in the tree once.
Once(d) == \A i, j \in 1 .. Len(d.children) : d.children[i] = d.children[j] => i = j

\* A document with one thing changed.
WithText(d, n, v) ==
    [children |-> d.children, text |-> [d.text EXCEPT ![n] = v], likes |-> d.likes]
WithLikes(d, n, v) ==
    [children |-> d.children, text |-> d.text, likes |-> [d.likes EXCEPT ![n] = v]]
WithChildren(d, v) == [children |-> v, text |-> d.text, likes |-> d.likes]

\* What a change does to the document it is made on; the hidden texts count, too.
Makes(c, d, e) ==
    \/ /\ c.kind = "text" /\ c.node \in UndoRedo!Node /\ d.text[c.node] = c.old
       /\ e = WithText(d, c.node, c.new)
    \/ /\ c.kind = "likes" /\ c.node \in Survey /\ d.likes[c.node] = c.old
       /\ e = WithLikes(d, c.node, c.new)
    \/ /\ c.kind = "add" /\ c.node \in Child \ Elements(d.children)
       /\ e = WithChildren(d, Append(d.children, c.node))
    \/ /\ c.kind = "remove" /\ c.node \in Child \ Elements(e.children)
       /\ d = WithChildren(e, Append(e.children, c.node))

Leads(c, d, e) ==
    /\ Makes(c, d, e)
    /\ UndoRedo!Shown(d) = UndoRedo!Shown(c.before)
    /\ UndoRedo!Shown(e) = UndoRedo!Shown(c.after)

Nodes(changes, k) == {changes[i].node : i \in 1 .. k}

\* The changes lead through the documents D, from the first to the last.
Story(D, changes) ==
    /\ D \in [1 .. Len(changes) + 1 -> Document]
    /\ \A i \in 1 .. Len(changes) + 1 : Once(D[i])
    /\ \A i \in 1 .. Len(changes) : Leads(changes[i], D[i], D[i + 1])
    /\ \A j \in 1 .. Len(changes) + 1 : \A i \in 1 .. j :
          Elements(D[i].children) \subseteq Elements(D[j].children) \cup Nodes(changes, j - 1)

\* As long as the history is trusted, some story is told by the list of changes, and the
\* document on the screen is in it, at the place the iterator stands.
UndoInv ==
    /\ \E Set : changesStack \in Seq(Set)
    /\ changesIterator \in 0 .. Len(changesStack)
    /\ undoAvailable = (changesIterator > 0)
    /\ redoAvailable => changesIterator < Len(changesStack)
    /\ trusted => selected \in UndoRedo!Node \cup {NoNode}
    /\ trusted => \E D : Story(D, changesStack) /\ D[changesIterator + 1] = document

LEMMA Beginning ==
    ASSUME NEW S, NEW s \in Seq(S), NEW k \in 0 .. Len(s)
    PROVE  /\ SubSeq(s, 1, k) \in Seq(S) /\ Len(SubSeq(s, 1, k)) = k
           /\ \A i \in 1 .. k : SubSeq(s, 1, k)[i] = s[i]
<1>1. \A i \in 1 .. k : s[i] \in S
  OBVIOUS
<1> QED BY <1>1, SubSeqProperties

\* Removing what was appended last gives the sequence back.
LEMMA AppendedRemoved ==
    ASSUME NEW s \in Seq(Child), NEW x \in Child \ Elements(s)
    PROVE  UndoRedo!RemoveFirst(Append(s, x), x) = s
<1> DEFINE t == Append(s, x)
           n == Len(s) + 1
           I == {i \in 1 .. Len(t) : t[i] = x}
<1>1. /\ Len(s) \in Nat /\ t \in Seq(Child) /\ Len(t) = n /\ t[n] = x
      /\ \A i \in 1 .. Len(s) : t[i] = s[i]
  BY AppendProperties
<1>2. I = {n}
  BY <1>1 DEF Elements
<1>3. UndoRedo!SelectInSeq(t, LAMBDA v : v = x) = n
  <2>1. UndoRedo!Min({n}) = n
    BY <1>1 DEF UndoRedo!Min
  <2>2. UndoRedo!SelectInSeq(t, LAMBDA v : v = x) = IF I # {} THEN UndoRedo!Min(I) ELSE 0
    BY Zenon DEF UndoRedo!SelectInSeq
  <2> QED BY <1>2, <2>1, <2>2
<1>4. UndoRedo!RemoveFirst(t, x) = UndoRedo!RemoveAt(t, n)
  <2>1. \E i \in 1 .. Len(t) : t[i] = x
    BY <1>1
  <2> QED BY <1>3, <2>1, Zenon DEF UndoRedo!RemoveFirst
<1>5. UndoRedo!RemoveAt(t, n) = SubSeq(t, 1, n - 1) \o SubSeq(t, n + 1, Len(t))
  BY Zenon DEF UndoRedo!RemoveAt
<1>6. SubSeq(t, 1, n - 1) = s /\ SubSeq(t, n + 1, Len(t)) = << >>
  BY <1>1
<1> QED BY <1>4, <1>5, <1>6

\* Removing the last element leaves the front, when it stands there only.
LEMMA LastRemoved ==
    ASSUME NEW s \in Seq(Child), s # << >>,
           \A i, j \in 1 .. Len(s) : s[i] = s[j] => i = j
    PROVE  LET rest == UndoRedo!RemoveFirst(s, s[Len(s)])
           IN /\ rest \in Seq(Child) /\ s[Len(s)] \notin Elements(rest)
              /\ s = Append(rest, s[Len(s)])
<1> DEFINE front == SubSeq(s, 1, Len(s) - 1)
           x == s[Len(s)]
<1>1. /\ Len(s) \in Nat \ {0} /\ front \in Seq(Child) /\ Len(front) = Len(s) - 1
      /\ \A i \in 1 .. Len(front) : front[i] = s[i]
  <2>1. Len(s) \in Nat \ {0}
    BY EmptySeq
  <2>2. Len(s) - 1 \in 0 .. Len(s)
    BY <2>1
  <2>3. /\ front \in Seq(Child) /\ Len(front) = Len(s) - 1
        /\ \A i \in 1 .. Len(s) - 1 : front[i] = s[i]
    BY <2>2, Beginning
  <2> QED BY <2>1, <2>3
<1>2. x \in Child \ Elements(front)
  BY <1>1 DEF Elements
<1>3. s = Append(front, x)
  BY <1>1
<1>4. UndoRedo!RemoveFirst(Append(front, x), x) = front
  BY <1>1, <1>2, AppendedRemoved
<1> QED BY <1>1, <1>2, <1>3, <1>4

LEMMA DocumentParts ==
    ASSUME NEW d \in Document
    PROVE  /\ d = [children |-> d.children, text |-> d.text, likes |-> d.likes]
           /\ d.children \in Seq(Child) /\ d.text \in [UndoRedo!Node -> Seq(Letter)]
           /\ d.likes \in [Survey -> Nat]
  BY DEF Document

LEMMA DocumentEdited ==
    ASSUME NEW d \in Document
    PROVE  /\ \A v : [d EXCEPT !.children = v] = WithChildren(d, v)
           /\ \A n, v : [d EXCEPT !.text[n] = v] = WithText(d, n, v)
           /\ \A n, v : [d EXCEPT !.likes[n] = v] = WithLikes(d, n, v)
<1>2. \A v : [d EXCEPT !.children = v] = WithChildren(d, v)
  BY DEF Document, WithChildren
<1>3. ASSUME NEW n, NEW v
      PROVE  [d EXCEPT !.text[n] = v] = WithText(d, n, v)
  <2>1. [d EXCEPT !.text[n] = v] = [d EXCEPT !.text = [d.text EXCEPT ![n] = v]]
    BY Zenon
  <2>2. \A w : [d EXCEPT !.text = w] = [children |-> d.children, text |-> w, likes |-> d.likes]
    BY DEF Document
  <2> QED BY <2>1, <2>2, Zenon DEF WithText
<1>4. ASSUME NEW n, NEW v
      PROVE  [d EXCEPT !.likes[n] = v] = WithLikes(d, n, v)
  <2>1. [d EXCEPT !.likes[n] = v] = [d EXCEPT !.likes = [d.likes EXCEPT ![n] = v]]
    BY Zenon
  <2>2. \A w : [d EXCEPT !.likes = w] = [children |-> d.children, text |-> d.text, likes |-> w]
    BY DEF Document
  <2> QED BY <2>1, <2>2, Zenon DEF WithLikes
<1> QED BY <1>2, <1>3, <1>4, Zenon

LEMMA ChildrenEdited ==
    ASSUME document \in Document, NEW x
    PROVE  /\ UndoRedo!Added(x) = WithChildren(document, Append(document.children, x))
           /\ UndoRedo!Removed(x)
                = WithChildren(document, UndoRedo!RemoveFirst(document.children, x))
<1>1. /\ \A v : [document EXCEPT !.children = v] = WithChildren(document, v)
  BY DocumentEdited
<1> QED BY <1>1, Zenon DEF UndoRedo!Added, UndoRedo!Removed

\* The buttons do to the document what the change says, and its contrary.
LEMMA BackAndForth ==
    ASSUME UndoRedo!UndoConstants, NEW d \in Document, NEW e \in Document, NEW c,
           Makes(c, d, e), UndoRedo!Bound(c)
    PROVE  /\ document = e => UndoRedo!Apply(c, c.old, c.kind = "remove") = d
           /\ document = d => UndoRedo!Apply(c, c.new, c.kind = "add") = e
<1>1. CASE c.kind = "text"
  <2>1. /\ c.node \in UndoRedo!Node /\ d.text[c.node] = c.old
        /\ e = WithText(d, c.node, c.new)
        /\ selected = c.node /\ selected # NoNode
    BY <1>1 DEF Makes, UndoRedo!Bound, UndoRedo!UndoConstants
  <2>2. d = WithText(e, c.node, c.old)
    <3>1. e.children = d.children /\ e.likes = d.likes /\ e.text = [d.text EXCEPT ![c.node] = c.new]
      BY <2>1 DEF WithText
    <3>2. [e.text EXCEPT ![c.node] = c.old] = d.text
      BY <2>1, <3>1, DocumentParts
    <3> QED BY <3>1, <3>2, DocumentParts DEF WithText
  <2>3. \A v : UndoRedo!Apply(c, v, FALSE) = UndoRedo!SetText(v)
    <3>1. c.kind # "likes"
      BY <1>1
    <3> QED BY <1>1, <3>1, Zenon DEF UndoRedo!Apply
  <2>4. \A v : document \in Document => UndoRedo!SetText(v) = WithText(document, c.node, v)
    <3>1. \A v : UndoRedo!SetText(v) = [document EXCEPT !.text[c.node] = v]
      BY <2>1, Zenon DEF UndoRedo!SetText
    <3>2. ASSUME document \in Document
          PROVE  \A n, v : [document EXCEPT !.text[n] = v] = WithText(document, n, v)
      BY <3>2, DocumentEdited, Zenon
    <3> QED BY <3>1, <3>2, Zenon
  <2>5. (c.kind = "remove") = FALSE /\ (c.kind = "add") = FALSE
    BY <1>1
  <2> QED BY <2>1, <2>2, <2>3, <2>4, <2>5
<1>2. CASE c.kind = "likes"
  <2>1. /\ c.node \in Survey /\ d.likes[c.node] = c.old
        /\ e = WithLikes(d, c.node, c.new)
    BY <1>2 DEF Makes
  <2>2. d = WithLikes(e, c.node, c.old)
    <3>1. e.children = d.children /\ e.text = d.text /\ e.likes = [d.likes EXCEPT ![c.node] = c.new]
      BY <2>1 DEF WithLikes
    <3>2. [e.likes EXCEPT ![c.node] = c.old] = d.likes
      BY <2>1, <3>1, DocumentParts
    <3> QED BY <3>1, <3>2, DocumentParts DEF WithLikes
  <2>3. \A v : UndoRedo!Apply(c, v, FALSE) = UndoRedo!SetLikes(c.node, v)
    <3>1. c.kind # "text"
      BY <1>2
    <3> QED BY <1>2, <3>1, Zenon DEF UndoRedo!Apply
  <2>4. \A v : document \in Document => UndoRedo!SetLikes(c.node, v) = WithLikes(document, c.node, v)
    <3>1. ASSUME document \in Document
          PROVE  \A n, v : [document EXCEPT !.likes[n] = v] = WithLikes(document, n, v)
      BY <3>1, DocumentEdited, Zenon
    <3> QED BY <3>1, Zenon DEF UndoRedo!SetLikes
  <2>5. (c.kind = "remove") = FALSE /\ (c.kind = "add") = FALSE
    BY <1>2
  <2> QED BY <2>1, <2>2, <2>3, <2>4, <2>5
<1>3. CASE c.kind \in {"add", "remove"}
  <2>1. ASSUME NEW less \in Document, NEW more \in Document,
               more = WithChildren(less, Append(less.children, c.node)),
               c.node \in Child \ Elements(less.children)
        PROVE  /\ document = more => UndoRedo!Removed(c.node) = less
               /\ document = less => UndoRedo!Added(c.node) = more
    <3>1. UndoRedo!RemoveFirst(Append(less.children, c.node), c.node) = less.children
      BY <2>1, DocumentParts, AppendedRemoved
    <3>2. /\ more.children = Append(less.children, c.node)
          /\ less = WithChildren(more, less.children)
      BY <2>1, DocumentParts DEF WithChildren
    <3> QED BY <2>1, <3>1, <3>2, ChildrenEdited
  <2>2. \A v, b : UndoRedo!Apply(c, v, b)
                    = IF b THEN UndoRedo!Added(c.node) ELSE UndoRedo!Removed(c.node)
    <3>1. c.kind # "text" /\ c.kind # "likes"
      BY <1>3
    <3> QED BY <3>1, Zenon DEF UndoRedo!Apply
  <2>3. CASE c.kind = "add"
    BY <2>1, <2>2, <2>3 DEF Makes
  <2>4. CASE c.kind = "remove"
    BY <2>1, <2>2, <2>4 DEF Makes
  <2> QED BY <1>3, <2>3, <2>4
<1> QED BY <1>1, <1>2, <1>3 DEF Makes

\* Undo and redo go one document back and forth in the story.
LEMMA StoryMoves ==
    ASSUME UndoRedo!UndoConstants, UndoInv, NEW D, Story(D, changesStack),
           D[changesIterator + 1] = document
    PROVE  /\ undoAvailable =>
                /\ changesIterator \in 1 .. Len(changesStack)
                /\ UndoRedo!Bound(changesStack[changesIterator])
                      => UndoRedo!Reverted = D[changesIterator]
           /\ redoAvailable =>
                /\ changesIterator + 1 \in 1 .. Len(changesStack)
                /\ UndoRedo!Bound(changesStack[changesIterator + 1])
                      => UndoRedo!Remade = D[changesIterator + 2]
<1>1. /\ changesIterator \in 0 .. Len(changesStack) /\ Len(changesStack) \in Nat
      /\ undoAvailable => changesIterator > 0
      /\ redoAvailable => changesIterator < Len(changesStack)
  <2>1. undoAvailable => changesIterator > 0
    BY Zenon DEF UndoInv
  <2> QED BY <2>1, LenProperties DEF UndoInv
<1>2. ASSUME undoAvailable
      PROVE  /\ changesIterator \in 1 .. Len(changesStack)
             /\ UndoRedo!Bound(changesStack[changesIterator])
                   => UndoRedo!Reverted = D[changesIterator]
  <2>1. changesIterator \in 1 .. Len(changesStack)
    BY <1>1, <1>2
  <2>2. /\ D[changesIterator] \in Document /\ D[changesIterator + 1] \in Document
        /\ Leads(changesStack[changesIterator], D[changesIterator], D[changesIterator + 1])
    BY <1>1, <2>1 DEF Story
  <2> QED BY <2>1, <2>2, BackAndForth DEF Leads, UndoRedo!Reverted
<1>3. ASSUME redoAvailable
      PROVE  /\ changesIterator + 1 \in 1 .. Len(changesStack)
             /\ UndoRedo!Bound(changesStack[changesIterator + 1])
                   => UndoRedo!Remade = D[changesIterator + 2]
  <2>1. changesIterator + 1 \in 1 .. Len(changesStack)
    BY <1>1, <1>3
  <2>2. /\ D[changesIterator + 1] \in Document /\ D[changesIterator + 2] \in Document
        /\ Leads(changesStack[changesIterator + 1], D[changesIterator + 1], D[changesIterator + 2])
    BY <1>1, <2>1 DEF Story
  <2> QED BY <2>1, <2>2, BackAndForth DEF Leads, UndoRedo!Remade
<1> QED BY <1>2, <1>3

\* So does UndoRestores follow from the story.
LEMMA StoryRestores ==
    ASSUME UndoRedo!UndoConstants, UndoInv
    PROVE  UndoRestores
<1>1. SUFFICES ASSUME trusted
               PROVE  /\ undoAvailable => LET c == changesStack[changesIterator] IN
                            UndoRedo!Bound(c) =>
                               UndoRedo!Shown(UndoRedo!Reverted) = UndoRedo!Shown(c.before)
                      /\ redoAvailable => LET c == changesStack[changesIterator + 1] IN
                            UndoRedo!Bound(c) =>
                               UndoRedo!Shown(UndoRedo!Remade) = UndoRedo!Shown(c.after)
  BY DEF UndoRestores, UndoRedo!UndoRestores, UndoInv
<1>2. PICK D : Story(D, changesStack) /\ D[changesIterator + 1] = document
  BY <1>1 DEF UndoInv
<1>3. \A i \in 1 .. Len(changesStack) :
         /\ UndoRedo!Shown(D[i]) = UndoRedo!Shown(changesStack[i].before)
         /\ UndoRedo!Shown(D[i + 1]) = UndoRedo!Shown(changesStack[i].after)
  BY <1>2 DEF Story, Leads
<1>4. changesIterator \in Int
  BY LenProperties DEF UndoInv
<1> QED BY <1>2, <1>3, <1>4, StoryMoves

\* A story without its end is a story.
LEMMA StoryCut ==
    ASSUME NEW Set, NEW changes \in Seq(Set), NEW D, Story(D, changes),
           NEW k \in 0 .. Len(changes)
    PROVE  Story([i \in 1 .. k + 1 |-> D[i]], SubSeq(changes, 1, k))
<1> DEFINE E == [i \in 1 .. k + 1 |-> D[i]]
           begin == SubSeq(changes, 1, k)
<1>1. /\ Len(begin) = k /\ k \in Nat /\ Len(changes) \in Nat
      /\ \A i \in 1 .. k : begin[i] = changes[i]
  BY Beginning
<1>2. \A i \in 1 .. k + 1 : E[i] = D[i] /\ i \in 1 .. Len(changes) + 1
  BY <1>1
<1> HIDE DEF begin
<1>3. ASSUME NEW n \in 0 .. k
      PROVE  Nodes(begin, n) = Nodes(changes, n)
  <2>1. \A i \in 1 .. n : begin[i].node = changes[i].node
    BY <1>1
  <2> QED BY <2>1 DEF Nodes
<1>4. E \in [1 .. Len(begin) + 1 -> Document]
  BY <1>1, <1>2 DEF Story
<1>5. \A i \in 1 .. k + 1 : Once(E[i])
  BY <1>2 DEF Story
<1>6. ASSUME NEW i \in 1 .. k
      PROVE  Leads(begin[i], E[i], E[i + 1])
  <2>1. i \in 1 .. Len(changes) /\ i \in 1 .. k + 1 /\ i + 1 \in 1 .. k + 1
    BY <1>1
  <2> QED BY <1>1, <1>2, <2>1 DEF Story
<1>7. ASSUME NEW j \in 1 .. k + 1, NEW i \in 1 .. j
      PROVE  Elements(E[i].children) \subseteq Elements(E[j].children) \cup Nodes(begin, j - 1)
  <2>1. /\ i \in 1 .. k + 1 /\ j \in 1 .. Len(changes) + 1 /\ j - 1 \in 0 .. k
    BY <1>1
  <2>2. Elements(D[i].children) \subseteq Elements(D[j].children) \cup Nodes(changes, j - 1)
    BY <2>1 DEF Story
  <2> QED BY <1>2, <1>3, <2>1, <2>2
<1> HIDE DEF E
<1>8. Story(E, begin)
  BY <1>1, <1>4, <1>5, <1>6, <1>7 DEF Story
<1> QED BY <1>8 DEF E, begin

LEMMA AppendedElements ==
    ASSUME NEW S, NEW s \in Seq(S), NEW x
    PROVE  Elements(Append(s, x)) = Elements(s) \cup {x}
<1>1. /\ s \in Seq(S \cup {x}) /\ x \in S \cup {x} /\ Len(s) \in Nat
  OBVIOUS
<1>2. /\ Len(Append(s, x)) = Len(s) + 1 /\ Append(s, x)[Len(s) + 1] = x
      /\ \A i \in 1 .. Len(s) : Append(s, x)[i] = s[i]
  BY <1>1, AppendProperties
<1>3. Elements(Append(s, x)) \subseteq Elements(s) \cup {x}
  BY <1>1, <1>2 DEF Elements
<1>4. Elements(s) \subseteq Elements(Append(s, x))
  BY <1>1, <1>2 DEF Elements
<1>5. x \in Elements(Append(s, x))
  BY <1>1, <1>2 DEF Elements
<1> QED BY <1>3, <1>4, <1>5

\* Only the node of a change can leave the tree.
LEMMA ElementsLeft ==
    ASSUME NEW d \in Document, NEW e \in Document, NEW c, Makes(c, d, e)
    PROVE  Elements(d.children) \subseteq Elements(e.children) \cup {c.node}
<1>1. d.children \in Seq(Child) /\ e.children \in Seq(Child)
  BY DocumentParts
<1>2. \/ e.children = d.children
      \/ e.children = Append(d.children, c.node)
      \/ d.children = Append(e.children, c.node)
  BY DEF Makes, WithText, WithLikes, WithChildren
<1>3. /\ Elements(Append(d.children, c.node)) = Elements(d.children) \cup {c.node}
      /\ Elements(Append(e.children, c.node)) = Elements(e.children) \cup {c.node}
  BY <1>1, AppendedElements
<1> QED BY <1>2, <1>3

\* A story goes on with the next change.
LEMMA StoryGoesOn ==
    ASSUME NEW Set, NEW changes \in Seq(Set), NEW D, Story(D, changes), NEW c \in Set,
           NEW after \in Document, Once(after), Leads(c, D[Len(changes) + 1], after)
    PROVE  Story([i \in 1 .. Len(changes) + 2 |-> IF i = Len(changes) + 2 THEN after ELSE D[i]],
                 Append(changes, c))
<1> DEFINE n == Len(changes)
           E == [i \in 1 .. n + 2 |-> IF i = n + 2 THEN after ELSE D[i]]
           longer == Append(changes, c)
<1>1. /\ n \in Nat /\ Len(longer) = n + 1 /\ longer[n + 1] = c
      /\ \A i \in 1 .. n : longer[i] = changes[i]
  BY AppendProperties, LenProperties
<1>2. /\ E[n + 2] = after
      /\ \A i \in 1 .. n + 1 : E[i] = D[i]
  BY <1>1
<1>3. /\ \A k \in 0 .. n : Nodes(longer, k) = Nodes(changes, k)
      /\ Nodes(changes, n) \cup {c.node} \subseteq Nodes(longer, n + 1)
  BY <1>1 DEF Nodes
<1>4. /\ \A i \in 1 .. n + 1 : D[i] \in Document /\ Once(D[i])
      /\ \A i \in 1 .. n : Leads(changes[i], D[i], D[i + 1])
      /\ \A j \in 1 .. n + 1 : \A i \in 1 .. j :
            Elements(D[i].children) \subseteq Elements(D[j].children) \cup Nodes(changes, j - 1)
  BY DEF Story
<1>5. Leads(c, D[n + 1], after) /\ D[n + 1] \in Document
  BY <1>1, <1>4
<1>6. E \in [1 .. n + 2 -> Document]
  BY <1>1, <1>4
<1> HIDE DEF n, E, longer
<1>7. \A i \in 1 .. n + 2 : Once(E[i])
  BY <1>1, <1>2, <1>4
<1>8. ASSUME NEW i \in 1 .. n + 1
      PROVE  Leads(longer[i], E[i], E[i + 1])
  <2>1. CASE i = n + 1
    BY <1>1, <1>2, <1>5, <2>1
  <2>2. CASE i \in 1 .. n
    <3>1. i \in 1 .. n + 1 /\ i + 1 \in 1 .. n + 1
      BY <1>1, <2>2
    <3> QED BY <1>1, <1>2, <1>4, <2>2, <3>1
  <2> QED BY <1>1, <2>1, <2>2
<1>9. ASSUME NEW j \in 1 .. n + 2, NEW i \in 1 .. j
      PROVE  Elements(E[i].children) \subseteq Elements(E[j].children) \cup Nodes(longer, j - 1)
  <2>1. CASE j \in 1 .. n + 1
    <3>1. i \in 1 .. n + 1 /\ j - 1 \in 0 .. n
      BY <1>1, <2>1
    <3> QED BY <1>2, <1>3, <1>4, <2>1, <3>1
  <2>2. CASE j = n + 2 /\ i = n + 2
    BY <2>2
  <2>3. CASE j = n + 2 /\ i \in 1 .. n + 1
    <3>1. Elements(D[i].children) \subseteq Elements(D[n + 1].children) \cup Nodes(changes, n)
      <4>1. n + 1 \in 1 .. n + 1 /\ (n + 1) - 1 = n
        BY <1>1
      <4> QED BY <1>4, <2>3, <4>1
    <3>2. Elements(D[n + 1].children) \subseteq Elements(after.children) \cup {c.node}
      BY <1>5, ElementsLeft DEF Leads
    <3>3. E[i] = D[i] /\ E[j] = after /\ j - 1 = n + 1
      BY <1>1, <1>2, <2>3
    <3> QED BY <1>3, <3>1, <3>2, <3>3
  <2> QED BY <1>1, <2>1, <2>2, <2>3
<1>10. Len(longer) + 1 = n + 2
  BY <1>1
<1>11. Story(E, longer)
  BY <1>1, <1>6, <1>7, <1>8, <1>9, <1>10 DEF Story
<1> QED BY <1>11 DEF E, longer, n

\* The document with the data of a node that is not in the tree reset.
Fresh(d, x) ==
    [children |-> d.children, text |-> [d.text EXCEPT ![x] = << >>],
     likes |-> [n \in Survey |-> IF n = x THEN 0 ELSE d.likes[n]]]

LEMMA FreshDocument ==
    ASSUME UndoRedo!UndoConstants, NEW d \in Document, NEW x \in Child \ Elements(d.children)
    PROVE  /\ Fresh(d, x) \in Document /\ Fresh(d, x).children = d.children
           /\ UndoRedo!Shown(Fresh(d, x)) = UndoRedo!Shown(d)
<1> DEFINE f == Fresh(d, x)
<1>1. /\ f.children = d.children /\ f.text = [d.text EXCEPT ![x] = << >>]
      /\ f.likes = [n \in Survey |-> IF n = x THEN 0 ELSE d.likes[n]]
      /\ f = [children |-> f.children, text |-> f.text, likes |-> f.likes]
  BY DEF Fresh
<1>2. x # Root /\ Survey \subseteq UndoRedo!Node /\ x \in UndoRedo!Node
  BY DEF UndoRedo!UndoConstants, UndoRedo!Node
<1>3. /\ d.children \in Seq(Child) /\ d.text \in [UndoRedo!Node -> Seq(Letter)]
      /\ d.likes \in [Survey -> Nat]
  BY DocumentParts
<1> HIDE DEF f
<1>4. f \in Document
  <2>1. f.text \in [UndoRedo!Node -> Seq(Letter)]
    BY <1>1, <1>2, <1>3
  <2>2. f.likes \in [Survey -> Nat]
    BY <1>1, <1>3
  <2> QED BY <1>1, <1>3, <2>1, <2>2 DEF Document
<1> DEFINE nodes == Elements(d.children) \cup {Root}
<1>5. nodes \subseteq UndoRedo!Node /\ x \notin nodes
  BY <1>2, <1>3 DEF UndoRedo!Node, Elements
<1>6. \A e \in Document : UndoRedo!ToSet(e.children) = Elements(e.children)
  <2> SUFFICES ASSUME NEW e \in Document
               PROVE  UndoRedo!ToSet(e.children) = Elements(e.children)
    OBVIOUS
  <2>1. DOMAIN e.children = 1 .. Len(e.children)
    BY DocumentParts, LenProperties
  <2> QED BY <2>1, Zenon DEF UndoRedo!ToSet, Elements
<1> HIDE DEF nodes
<1>7. [n \in nodes |-> f.text[n]] = [n \in nodes |-> d.text[n]]
  BY <1>1, <1>3, <1>5
<1>8. [n \in nodes \cap Survey |-> f.likes[n]] = [n \in nodes \cap Survey |-> d.likes[n]]
  BY <1>1, <1>3, <1>5
<1>9. \A e \in Document : e.children = d.children =>
         UndoRedo!Shown(e) = <<e.children, [n \in nodes |-> e.text[n]],
                               [n \in nodes \cap Survey |-> e.likes[n]]>>
  BY <1>6, Zenon DEF UndoRedo!Shown, nodes
<1>10. UndoRedo!Shown(f) = UndoRedo!Shown(d)
  <2>1. UndoRedo!Shown(f) = <<d.children, [n \in nodes |-> f.text[n]],
                              [n \in nodes \cap Survey |-> f.likes[n]]>>
    BY <1>1, <1>4, <1>9, Zenon
  <2>2. UndoRedo!Shown(d) = <<d.children, [n \in nodes |-> d.text[n]],
                              [n \in nodes \cap Survey |-> d.likes[n]]>>
    BY <1>9, Zenon
  <2> QED BY <1>7, <1>8, <2>1, <2>2, Zenon
<1> QED BY <1>1, <1>4, <1>10 DEF f

LEMMA FreshMakes ==
    ASSUME UndoRedo!UndoConstants, NEW d \in Document, NEW e \in Document, NEW c,
           Makes(c, d, e), NEW x \in Child, c.node # x
    PROVE  Makes(c, Fresh(d, x), Fresh(e, x))
<1>1. /\ d.text \in [UndoRedo!Node -> Seq(Letter)] /\ d.likes \in [Survey -> Nat]
      /\ e.text \in [UndoRedo!Node -> Seq(Letter)] /\ e.likes \in [Survey -> Nat]
  BY DocumentParts
<1>2. CASE c.kind = "text"
  <2>1. /\ c.node \in UndoRedo!Node /\ d.text[c.node] = c.old
        /\ e = WithText(d, c.node, c.new)
    BY <1>2 DEF Makes
  <2>2. /\ e.children = d.children /\ e.likes = d.likes
        /\ e.text = [d.text EXCEPT ![c.node] = c.new]
    BY <2>1 DEF WithText
  <2>3. Fresh(d, x).text[c.node] = c.old
    BY <1>1, <2>1 DEF Fresh
  <2>4. [e.text EXCEPT ![x] = << >>] = [[d.text EXCEPT ![x] = << >>] EXCEPT ![c.node] = c.new]
    BY <1>1, <2>2
  <2>5. Fresh(e, x) = WithText(Fresh(d, x), c.node, c.new)
    BY <2>2, <2>4 DEF Fresh, WithText
  <2> QED BY <1>2, <2>1, <2>3, <2>5 DEF Makes
<1>3. CASE c.kind = "likes"
  <2>1. /\ c.node \in Survey /\ d.likes[c.node] = c.old
        /\ e = WithLikes(d, c.node, c.new)
    BY <1>3 DEF Makes
  <2>2. /\ e.children = d.children /\ e.text = d.text
        /\ e.likes = [d.likes EXCEPT ![c.node] = c.new]
    BY <2>1 DEF WithLikes
  <2>3. Fresh(d, x).likes[c.node] = c.old
    BY <1>1, <2>1 DEF Fresh
  <2>4. Fresh(e, x).likes = [Fresh(d, x).likes EXCEPT ![c.node] = c.new]
    BY <1>1, <2>1, <2>2 DEF Fresh
  <2>5. Fresh(e, x) = WithLikes(Fresh(d, x), c.node, c.new)
    BY <2>2, <2>4 DEF Fresh, WithLikes
  <2> QED BY <1>3, <2>1, <2>3, <2>5 DEF Makes
<1>4. ASSUME NEW less \in Document, NEW more \in Document,
             more = WithChildren(less, Append(less.children, c.node))
      PROVE  /\ Fresh(less, x).children = less.children
             /\ Fresh(more, x) = WithChildren(Fresh(less, x), Append(less.children, c.node))
  BY <1>4 DEF Fresh, WithChildren
<1>5. CASE c.kind = "add"
  BY <1>4, <1>5 DEF Makes
<1>6. CASE c.kind = "remove"
  BY <1>4, <1>6 DEF Makes
<1> QED BY <1>2, <1>3, <1>5, <1>6 DEF Makes

\* A node that was never in the tree may have had any data.
LEMMA StoryFresh ==
    ASSUME UndoRedo!UndoConstants, NEW Set, NEW changes \in Seq(Set),
           NEW D, Story(D, changes),
           NEW x \in Child, x \notin Elements(D[Len(changes) + 1].children),
           x \notin Nodes(changes, Len(changes))
    PROVE  Story([i \in 1 .. Len(changes) + 1 |-> Fresh(D[i], x)], changes)
<1> DEFINE n == Len(changes)
           E == [i \in 1 .. n + 1 |-> Fresh(D[i], x)]
<1>1. n \in Nat
  BY LenProperties
<1>2. /\ \A i \in 1 .. n + 1 : D[i] \in Document /\ Once(D[i])
      /\ \A i \in 1 .. n : Leads(changes[i], D[i], D[i + 1])
      /\ \A j \in 1 .. n + 1 : \A i \in 1 .. j :
            Elements(D[i].children) \subseteq Elements(D[j].children) \cup Nodes(changes, j - 1)
  BY DEF Story
<1>3. \A i \in 1 .. n + 1 : E[i] = Fresh(D[i], x)
  OBVIOUS
<1>4. ASSUME NEW i \in 1 .. n + 1
      PROVE  x \notin Elements(D[i].children)
  <2>1. n + 1 \in 1 .. n + 1 /\ (n + 1) - 1 = n /\ i \in 1 .. n + 1
    BY <1>1
  <2>2. Elements(D[i].children) \subseteq Elements(D[n + 1].children) \cup Nodes(changes, n)
    BY <1>2, <2>1
  <2> QED BY <2>2
<1>5. \A i \in 1 .. n + 1 :
         /\ E[i] \in Document /\ E[i].children = D[i].children
         /\ UndoRedo!Shown(E[i]) = UndoRedo!Shown(D[i])
  BY <1>2, <1>3, <1>4, FreshDocument
<1>6. \A i \in 1 .. n : changes[i].node # x
  BY DEF Nodes
<1>7. E \in [1 .. n + 1 -> Document]
  <2>1. \A i \in 1 .. n + 1 : Fresh(D[i], x) \in Document
    BY <1>3, <1>5
  <2> QED BY <2>1
<1> HIDE DEF n, E
<1>8. \A i \in 1 .. n + 1 : Once(E[i])
  BY <1>2, <1>5 DEF Once
<1>9. ASSUME NEW i \in 1 .. n
      PROVE  Leads(changes[i], E[i], E[i + 1])
  <2>1. i \in 1 .. n + 1 /\ i + 1 \in 1 .. n + 1
    BY <1>1
  <2>2. Makes(changes[i], E[i], E[i + 1])
    BY <1>2, <1>3, <1>6, <2>1, FreshMakes DEF Leads
  <2> QED BY <1>2, <1>5, <2>1, <2>2 DEF Leads
<1>10. ASSUME NEW j \in 1 .. n + 1, NEW i \in 1 .. j
       PROVE  Elements(E[i].children) \subseteq Elements(E[j].children) \cup Nodes(changes, j - 1)
  <2>1. i \in 1 .. n + 1
    BY <1>1
  <2> QED BY <1>2, <1>5, <2>1
<1>11. Story(E, changes)
  BY <1>1, <1>7, <1>8, <1>9, <1>10 DEF Story, n
<1> QED BY <1>11 DEF E, n

\* What memorize keeps of the changes that were undone: every second one, of one none.
LEMMA TruncatedShape ==
    ASSUME NEW Set, changesStack \in Seq(Set), changesIterator \in 0 .. Len(changesStack)
    PROVE  /\ UndoRedo!Truncated \in Seq(Set)
           /\ Len(UndoRedo!Truncated) \in Nat /\ Len(UndoRedo!Truncated) >= changesIterator
           /\ UndoRedo!CutsCleanly =>
                 UndoRedo!Truncated = SubSeq(changesStack, 1, changesIterator)
<1> DEFINE k == changesIterator
           half == (Len(changesStack) - k) \div 2
           t == UndoRedo!Truncated
<1>1. k \in Nat /\ Len(changesStack) \in Nat /\ k <= Len(changesStack)
  BY LenProperties
<1>2. half \in Nat /\ 2 * half <= Len(changesStack) - k
  BY <1>1
<1>3. t = [j \in 1 .. k + half |->
             IF j <= k THEN changesStack[j] ELSE changesStack[k + 2 * (j - k)]]
  BY DEF UndoRedo!Truncated
<1> HIDE DEF t, half
<1>4. t \in [1 .. k + half -> Set]
  <2>1. ASSUME NEW j \in 1 .. k + half
        PROVE  (IF j <= k THEN changesStack[j] ELSE changesStack[k + 2 * (j - k)]) \in Set
    <3>1. CASE j <= k
      BY <1>1, <1>2, <3>1
    <3>2. CASE ~(j <= k)
      <4>1. k + 2 * (j - k) \in 1 .. Len(changesStack)
        BY <1>1, <1>2, <3>2
      <4> QED BY <3>2, <4>1
    <3> QED BY <3>1, <3>2
  <2> QED BY <1>3, <2>1
<1>5. t \in Seq(Set) /\ Len(t) = k + half
  BY <1>1, <1>2, <1>4
<1>6. ASSUME UndoRedo!CutsCleanly
      PROVE  t = SubSeq(changesStack, 1, k)
  <2>1. half = 0
    BY <1>1, <1>2, <1>6 DEF UndoRedo!CutsCleanly
  <2>2. /\ SubSeq(changesStack, 1, k) \in Seq(Set) /\ Len(SubSeq(changesStack, 1, k)) = k
        /\ \A i \in 1 .. k : SubSeq(changesStack, 1, k)[i] = changesStack[i]
    BY Beginning
  <2>3. Len(t) = k /\ \A i \in 1 .. k : t[i] = changesStack[i]
    BY <1>1, <1>3, <1>5, <2>1
  <2> QED BY <1>5, <2>2, <2>3, SeqEqual
<1> QED BY <1>1, <1>2, <1>5, <1>6 DEF t

\* memorize keeps the list a list, and what it keeps of it goes before the change.
LEMMA MemorizedShape ==
    ASSUME NEW Set, changesStack \in Seq(Set), changesIterator \in 0 .. Len(changesStack),
           NEW change, UndoRedo!memorize(change)
    PROVE  \E S, kept, added :
              /\ kept \in Seq(S) /\ added \in S /\ changesStack' = Append(kept, added)
              /\ UndoRedo!CutsCleanly => changesIterator' = Len(kept) + 1
              /\ changesIterator' \in 1 .. Len(kept) + 1
              /\ UndoRedo!CutsCleanly =>
                    \/ /\ kept = SubSeq(changesStack, 1, changesIterator) /\ added = change
                    \/ /\ changesIterator > 0
                       /\ UndoRedo!Merges(change, changesStack[changesIterator])
                       /\ kept = SubSeq(changesStack, 1, changesIterator - 1)
                       /\ added = [change EXCEPT !.old = changesStack[changesIterator].old,
                                                 !.before = changesStack[changesIterator].before]
<1> DEFINE k == changesIterator
           last == changesStack[k]
           merged == k > 0 /\ UndoRedo!Merges(change, last)
           t == UndoRedo!Truncated
           mix == [change EXCEPT !.old = last.old, !.before = last.before]
           without == UndoRedo!RemoveAt(t, k)
<1>1. /\ k \in Nat /\ t \in Seq(Set) /\ Len(t) \in Nat /\ Len(t) >= k
      /\ UndoRedo!CutsCleanly => t = SubSeq(changesStack, 1, k)
  BY TruncatedShape, LenProperties
<1>2. CASE ~merged
  <2>1. changesStack' = Append(t, change) /\ changesIterator' = k + 1
    BY <1>2, Zenon DEF UndoRedo!memorize
  <2>2. t \in Seq(Set \cup {change})
    BY <1>1
  <2>3. UndoRedo!CutsCleanly => Len(t) = k
    BY <1>1, Beginning
  <2> HIDE DEF t
  <2>4. /\ UndoRedo!CutsCleanly => changesIterator' = Len(t) + 1
        /\ changesIterator' \in 1 .. Len(t) + 1
    BY <1>1, <2>1, <2>3
  <2> QED BY <1>1, <2>1, <2>2, <2>4, Zenon
<1>3. CASE merged
  <2>1. changesStack' = Append(without, mix) /\ changesIterator' = k
    BY <1>3, Zenon DEF UndoRedo!memorize
  <2>2. without = SubSeq(t, 1, k - 1) \o SubSeq(t, k + 1, Len(t))
    BY Zenon DEF UndoRedo!RemoveAt
  <2>3. k \in 1 .. Len(t) /\ k - 1 \in 0 .. Len(t)
    BY <1>1, <1>3
  <2> HIDE DEF t, mix
  <2>4. /\ SubSeq(t, 1, k - 1) \in Seq(Set) /\ Len(SubSeq(t, 1, k - 1)) = k - 1
        /\ \A i \in 1 .. k - 1 : SubSeq(t, 1, k - 1)[i] = t[i]
    BY <1>1, <2>3, Beginning
  <2>5. /\ SubSeq(t, k + 1, Len(t)) \in Seq(Set) /\ Len(SubSeq(t, k + 1, Len(t))) = Len(t) - k
    <3>1. \A i \in k + 1 .. Len(t) : t[i] \in Set
      BY <1>1, <2>3
    <3> QED BY <1>1, <2>3, <3>1, SubSeqProperties
  <2>6. without \in Seq(Set) /\ Len(without) = Len(t) - 1
    <3>1. \A a, b \in Seq(Set) : a \o b \in Seq(Set) /\ Len(a \o b) = Len(a) + Len(b)
      BY ConcatProperties
    <3>2. without \in Seq(Set) /\ Len(without) = (k - 1) + (Len(t) - k)
      BY <2>2, <2>4, <2>5, <3>1
    <3> QED BY <1>1, <3>2
  <2>7. ASSUME UndoRedo!CutsCleanly
        PROVE  without = SubSeq(changesStack, 1, k - 1) /\ Len(t) = k
    <3>1. /\ t = SubSeq(changesStack, 1, k) /\ Len(t) = k
          /\ \A i \in 1 .. k : t[i] = changesStack[i]
      BY <1>1, <2>7, Beginning
    <3>2. SubSeq(t, k + 1, Len(t)) = << >>
      BY <1>1, <3>1, SubSeqEmpty
    <3>3. without = SubSeq(t, 1, k - 1)
      BY <2>2, <2>4, <3>2, ConcatEmptySeq
    <3>4. /\ SubSeq(changesStack, 1, k - 1) \in Seq(Set)
          /\ Len(SubSeq(changesStack, 1, k - 1)) = k - 1
          /\ \A i \in 1 .. k - 1 : SubSeq(changesStack, 1, k - 1)[i] = changesStack[i]
      <4>1. k - 1 \in 0 .. Len(changesStack)
        BY <2>3
      <4> QED BY <4>1, Beginning
    <3>5. SubSeq(t, 1, k - 1) = SubSeq(changesStack, 1, k - 1)
      BY <2>3, <2>4, <3>1, <3>4, SeqEqual
    <3> QED BY <3>1, <3>3, <3>5
  <2> HIDE DEF without
  <2>8. without \in Seq(Set \cup {mix})
    BY <2>6
  <2>9. /\ UndoRedo!CutsCleanly => changesIterator' = Len(without) + 1
        /\ changesIterator' \in 1 .. Len(without) + 1
    BY <1>1, <2>1, <2>3, <2>6, <2>7
  <2> QED BY <1>3, <2>1, <2>7, <2>8, <2>9, Zenon DEF mix
<1> QED BY <1>2, <1>3

\* A letter after a letter: two changes of one text are one.
LEMMA MergedMakes ==
    ASSUME NEW d \in Document, NEW e \in Document, NEW after, NEW last, NEW change, NEW added,
           Makes(last, d, e), Makes(change, e, after), UndoRedo!Merges(change, last),
           added.kind = change.kind, added.node = change.node, added.new = change.new,
           added.old = last.old
    PROVE  Makes(added, d, after)
<1>1. /\ change.kind = "text" /\ last.kind = "text" /\ change.node = last.node
  BY Zenon DEF UndoRedo!Merges
<1>2. /\ last.node \in UndoRedo!Node /\ d.text[last.node] = last.old
      /\ e = WithText(d, last.node, last.new)
      /\ after = WithText(e, last.node, change.new)
  BY <1>1 DEF Makes
<1>3. /\ e.children = d.children /\ e.likes = d.likes
      /\ e.text = [d.text EXCEPT ![last.node] = last.new]
  BY <1>2 DEF WithText
<1>4. [e.text EXCEPT ![last.node] = change.new] = [d.text EXCEPT ![last.node] = change.new]
  BY <1>3, DocumentParts
<1>5. after = WithText(d, last.node, change.new)
  BY <1>2, <1>3, <1>4 DEF WithText
<1> QED BY <1>1, <1>2, <1>5 DEF Makes

\* memorize goes on with the story, when at most one change was undone.
LEMMA Memorized ==
    ASSUME UndoInv, NEW kind, NEW node, NEW old, NEW new, NEW after,
           UndoRedo!memorize(UndoRedo!Change(kind, node, old, new, after)),
           trusted' => /\ trusted /\ UndoRedo!CutsCleanly
                       /\ selected' \in UndoRedo!Node \cup {NoNode}
                       /\ after \in Document /\ Once(after)
                       /\ \E D : /\ Story(D, SubSeq(changesStack, 1, changesIterator))
                                 /\ Leads(UndoRedo!Change(kind, node, old, new, after),
                                          D[changesIterator + 1], after)
    PROVE  UndoInv'
<1> DEFINE change == UndoRedo!Change(kind, node, old, new, after)
           k == changesIterator
<1>1. PICK Set : changesStack \in Seq(Set)
  BY DEF UndoInv
<1>2. k \in 0 .. Len(changesStack) /\ Len(changesStack) \in Nat
  BY <1>1, LenProperties DEF UndoInv
<1>3. UndoRedo!memorize(change)
  OBVIOUS
<1>4. undoAvailable' = TRUE /\ redoAvailable' = FALSE /\ document' = change.after
  BY <1>3, Zenon DEF UndoRedo!memorize
<1>5. change = [kind |-> kind, node |-> node, old |-> old, new |-> new,
                before |-> document, after |-> after]
  BY Zenon DEF UndoRedo!Change
<1> HIDE DEF change
<1>6. document' = after
  BY <1>4, <1>5
<1>7. PICK S, kept, added :
         /\ kept \in Seq(S) /\ added \in S /\ changesStack' = Append(kept, added)
         /\ UndoRedo!CutsCleanly => changesIterator' = Len(kept) + 1
         /\ changesIterator' \in 1 .. Len(kept) + 1
         /\ UndoRedo!CutsCleanly =>
               \/ kept = SubSeq(changesStack, 1, k) /\ added = change
               \/ /\ k > 0 /\ UndoRedo!Merges(change, changesStack[k])
                  /\ kept = SubSeq(changesStack, 1, k - 1)
                  /\ added = [change EXCEPT !.old = changesStack[k].old,
                                            !.before = changesStack[k].before]
  BY <1>1, <1>2, <1>3, MemorizedShape, Zenon
<1>8. /\ changesStack' \in Seq(S) /\ Len(changesStack') = Len(kept) + 1 /\ Len(kept) \in Nat
      /\ changesIterator' \in 1 .. Len(kept) + 1
  BY <1>7, AppendProperties, LenProperties
<1>9. /\ \E T : changesStack' \in Seq(T)
      /\ changesIterator' \in 0 .. Len(changesStack')
      /\ undoAvailable' = (changesIterator' > 0)
      /\ redoAvailable' => changesIterator' < Len(changesStack')
  <2>1. /\ changesIterator' \in 0 .. Len(changesStack')
        /\ changesIterator' > 0
    BY <1>8
  <2>2. undoAvailable' = (changesIterator' > 0)
    <3>1. (changesIterator' > 0) = TRUE
      BY <2>1
    <3> QED BY <1>4, <3>1
  <2>3. \E T : changesStack' \in Seq(T)
    BY <1>8
  <2> QED BY <1>4, <2>1, <2>2, <2>3
<1>10. ASSUME trusted'
       PROVE  \E E : Story(E, changesStack') /\ E[changesIterator' + 1] = document'
  <2>1. PICK D : Story(D, SubSeq(changesStack, 1, k)) /\ Leads(change, D[k + 1], after)
    BY <1>10 DEF change
  <2>2. /\ UndoRedo!CutsCleanly /\ changesIterator' = Len(kept) + 1
        /\ after \in Document /\ Once(after)
    BY <1>7, <1>10
  <2>3. SUFFICES ASSUME NEW B, Story(B, kept), Leads(added, B[Len(kept) + 1], after)
                 PROVE  \E E : Story(E, changesStack') /\ E[changesIterator' + 1] = document'
    <3>1. /\ SubSeq(changesStack, 1, k) \in Seq(Set) /\ Len(SubSeq(changesStack, 1, k)) = k
          /\ \A i \in 1 .. k : SubSeq(changesStack, 1, k)[i] = changesStack[i]
      BY <1>1, <1>2, Beginning
    <3>2. CASE kept = SubSeq(changesStack, 1, k) /\ added = change
      BY <2>1, <2>3, <3>1, <3>2
    <3>3. CASE /\ k > 0 /\ UndoRedo!Merges(change, changesStack[k])
               /\ kept = SubSeq(changesStack, 1, k - 1)
               /\ added = [change EXCEPT !.old = changesStack[k].old,
                                         !.before = changesStack[k].before]
      <4> DEFINE begin == SubSeq(changesStack, 1, k)
                 last == changesStack[k]
                 C == [i \in 1 .. (k - 1) + 1 |-> D[i]]
      <4>1. k \in 1 .. k /\ k - 1 \in 0 .. k /\ begin[k] = last
        BY <1>2, <3>1, <3>3
      <4>2. /\ D[k] \in Document /\ D[k + 1] \in Document /\ Leads(last, D[k], D[k + 1])
        BY <2>1, <3>1, <4>1 DEF Story
      <4>3. kept = SubSeq(begin, 1, k - 1) /\ Len(kept) = k - 1
        <5>1. /\ Len(SubSeq(begin, 1, k - 1)) = k - 1 /\ SubSeq(begin, 1, k - 1) \in Seq(Set)
              /\ \A i \in 1 .. k - 1 : SubSeq(begin, 1, k - 1)[i] = begin[i]
          BY <3>1, <4>1, Beginning
        <5>2. /\ kept \in Seq(Set) /\ Len(kept) = k - 1
              /\ \A i \in 1 .. k - 1 : kept[i] = changesStack[i]
          <6>1. k - 1 \in 0 .. Len(changesStack)
            BY <1>2, <4>1
          <6> QED BY <1>1, <3>3, <6>1, Beginning
        <5>3. \A i \in 1 .. k - 1 : begin[i] = changesStack[i]
          BY <3>1, <4>1
        <5> QED BY <5>1, <5>2, <5>3, SeqEqual
      <4>4. Story(C, SubSeq(begin, 1, k - 1))
        BY <2>1, <3>1, <4>1, StoryCut
      <4>5. C[Len(kept) + 1] = D[k]
        BY <4>1, <4>3
      <4>6. /\ added.kind = change.kind /\ added.node = change.node /\ added.new = change.new
            /\ added.old = last.old /\ added.before = last.before
            /\ added.after = change.after
        BY <1>5, <3>3
      <4>7. Makes(added, D[k], after)
        <5>1. Makes(last, D[k], D[k + 1]) /\ Makes(change, D[k + 1], after)
          BY <2>1, <4>2 DEF Leads
        <5>2. UndoRedo!Merges(change, last)
          BY <3>3, Zenon
        <5> HIDE DEF last
        <5> QED BY <4>2, <4>6, <5>1, <5>2, MergedMakes
      <4>8. Leads(added, C[Len(kept) + 1], after)
        BY <2>1, <4>2, <4>5, <4>6, <4>7 DEF Leads
      <4> HIDE DEF C
      <4> QED BY <2>3, <4>3, <4>4, <4>8
    <3> QED BY <1>7, <2>2, <3>2, <3>3
  <2> DEFINE E == [i \in 1 .. Len(kept) + 2 |-> IF i = Len(kept) + 2 THEN after ELSE B[i]]
  <2>4. Story(E, changesStack')
    BY <1>7, <2>2, <2>3, StoryGoesOn
  <2>5. E[changesIterator' + 1] = document'
    BY <1>6, <1>8, <2>2
  <2> QED BY <2>4, <2>5
<1>11. trusted' => selected' \in UndoRedo!Node \cup {NoNode}
  OBVIOUS
<1> QED BY <1>9, <1>10, <1>11 DEF UndoInv

\* The story up to the document on the screen.
LEMMA ToldSoFar ==
    ASSUME UndoInv, trusted
    PROVE  /\ document \in Document /\ Once(document) /\ changesIterator \in Nat
           /\ \E D : /\ Story(D, SubSeq(changesStack, 1, changesIterator))
                    /\ D[changesIterator + 1] = document
<1>1. PICK Set : changesStack \in Seq(Set)
  BY DEF UndoInv
<1>2. PICK D : Story(D, changesStack) /\ D[changesIterator + 1] = document
  BY DEF UndoInv
<1>3. /\ changesIterator \in 0 .. Len(changesStack) /\ Len(changesStack) \in Nat
      /\ changesIterator + 1 \in 1 .. Len(changesStack) + 1
  BY <1>1, LenProperties DEF UndoInv
<1> DEFINE C == [i \in 1 .. changesIterator + 1 |-> D[i]]
<1>4. Story(C, SubSeq(changesStack, 1, changesIterator))
  BY <1>1, <1>2, <1>3, StoryCut
<1>5. C[changesIterator + 1] = document
  BY <1>2, <1>3
<1>6. document \in Document /\ Once(document) /\ changesIterator \in Nat
  BY <1>2, <1>3 DEF Story
<1> HIDE DEF C
<1> QED BY <1>4, <1>5, <1>6

LEMMA TextEdited ==
    ASSUME UndoRedo!UndoConstants, UndoInv, NEW text, trusted => text \in Seq(Letter),
           UndoRedo!EditText(text)
    PROVE  UndoInv'
<1> DEFINE old == document.text[selected]
           after == [document EXCEPT !.text[selected] = text]
           change == UndoRedo!Change("text", selected, old, text, after)
<1>1. /\ selected # NoNode /\ UndoRedo!memorize(change)
      /\ trusted' = (trusted /\ UndoRedo!CutsCleanly) /\ selected' = selected
  BY Zenon DEF UndoRedo!EditText
<1>2. /\ change.kind = "text" /\ change.node = selected /\ change.old = old
      /\ change.new = text /\ change.before = document /\ change.after = after
  BY DEF UndoRedo!Change
<1> HIDE DEF after
<1>3. ASSUME trusted'
      PROVE  /\ trusted /\ UndoRedo!CutsCleanly
             /\ selected' \in UndoRedo!Node \cup {NoNode}
             /\ after \in Document /\ Once(after)
             /\ \E D : /\ Story(D, SubSeq(changesStack, 1, changesIterator))
                      /\ Leads(change, D[changesIterator + 1], after)
  <2>1. /\ trusted /\ UndoRedo!CutsCleanly
        /\ selected \in UndoRedo!Node /\ selected' = selected /\ text \in Seq(Letter)
    BY <1>1, <1>3 DEF UndoInv
  <2>2. PICK D : /\ Story(D, SubSeq(changesStack, 1, changesIterator))
                 /\ D[changesIterator + 1] = document
    BY <2>1, ToldSoFar
  <2>3. document \in Document /\ Once(document)
    BY <2>1, ToldSoFar
  <2>4. after = WithText(document, selected, text)
    <3>1. \A n, v : [document EXCEPT !.text[n] = v] = WithText(document, n, v)
      BY <2>3, DocumentEdited, Zenon
    <3> QED BY <3>1, Zenon DEF after
  <2>5. /\ after.children = document.children /\ after.likes = document.likes
        /\ after.text = [document.text EXCEPT ![selected] = text]
        /\ after = [children |-> after.children, text |-> after.text, likes |-> after.likes]
    BY <2>4 DEF WithText
  <2>6. after \in Document /\ Once(after)
    <3>1. after.text \in [UndoRedo!Node -> Seq(Letter)]
      BY <2>1, <2>3, <2>5, DocumentParts
    <3>2. after \in Document
      BY <2>3, <2>5, <3>1, DocumentParts DEF Document
    <3> QED BY <2>3, <2>5, <3>2 DEF Once
  <2>7. Makes(change, document, after)
    BY <1>2, <2>1, <2>4 DEF Makes
  <2> HIDE DEF change
  <2>8. Leads(change, D[changesIterator + 1], after)
    BY <1>2, <2>2, <2>7 DEF Leads
  <2> QED BY <2>1, <2>2, <2>6, <2>8
<1> QED BY <1>1, <1>3, Memorized

LEMMA Voted ==
    ASSUME UndoRedo!UndoConstants, UndoInv, UndoRedo!Vote
    PROVE  UndoInv'
<1> DEFINE n == document.likes[selected]
           after == [document EXCEPT !.likes[selected] = n + 1]
           change == UndoRedo!Change("likes", selected, n, n + 1, after)
<1>1. /\ selected \in Survey /\ UndoRedo!memorize(change)
      /\ trusted' = (trusted /\ UndoRedo!CutsCleanly) /\ selected' = selected
  BY Zenon DEF UndoRedo!Vote
<1>2. /\ change.kind = "likes" /\ change.node = selected /\ change.old = n
      /\ change.new = n + 1 /\ change.before = document /\ change.after = after
  BY DEF UndoRedo!Change
<1> HIDE DEF after
<1>3. ASSUME trusted'
      PROVE  /\ trusted /\ UndoRedo!CutsCleanly
             /\ selected' \in UndoRedo!Node \cup {NoNode}
             /\ after \in Document /\ Once(after)
             /\ \E D : /\ Story(D, SubSeq(changesStack, 1, changesIterator))
                      /\ Leads(change, D[changesIterator + 1], after)
  <2>1. /\ trusted /\ UndoRedo!CutsCleanly
        /\ selected \in Survey /\ selected \in UndoRedo!Node /\ selected' = selected
    BY <1>1, <1>3 DEF UndoRedo!UndoConstants
  <2>2. PICK D : /\ Story(D, SubSeq(changesStack, 1, changesIterator))
                 /\ D[changesIterator + 1] = document
    BY <2>1, ToldSoFar
  <2>3. document \in Document /\ Once(document)
    BY <2>1, ToldSoFar
  <2>4. after = WithLikes(document, selected, n + 1)
    <3>1. \A m, v : [document EXCEPT !.likes[m] = v] = WithLikes(document, m, v)
      BY <2>3, DocumentEdited, Zenon
    <3> QED BY <3>1, Zenon DEF after
  <2>5. /\ after.children = document.children /\ after.text = document.text
        /\ after.likes = [document.likes EXCEPT ![selected] = n + 1]
        /\ after = [children |-> after.children, text |-> after.text, likes |-> after.likes]
    BY <2>4 DEF WithLikes
  <2>6. after \in Document /\ Once(after)
    <3>1. after.likes \in [Survey -> Nat]
      BY <2>1, <2>3, <2>5, DocumentParts
    <3>2. after \in Document
      BY <2>3, <2>5, <3>1, DocumentParts DEF Document
    <3> QED BY <2>3, <2>5, <3>2 DEF Once
  <2>7. Makes(change, document, after)
    BY <1>2, <2>1, <2>4 DEF Makes
  <2> HIDE DEF change
  <2>8. Leads(change, D[changesIterator + 1], after)
    BY <1>2, <2>2, <2>7 DEF Leads
  <2> QED BY <2>1, <2>2, <2>6, <2>8
<1> QED BY <1>1, <1>3, Memorized

LEMMA ChildrenAreElements ==
    ASSUME NEW s \in Seq(Child)
    PROVE  UndoRedo!ToSet(s) = Elements(s) /\ Elements(s) \subseteq Child
<1>1. DOMAIN s = 1 .. Len(s) /\ \A i \in 1 .. Len(s) : s[i] \in Child
  BY LenProperties
<1>2. UndoRedo!ToSet(s) = Elements(s)
  BY <1>1, Zenon DEF UndoRedo!ToSet, Elements
<1> QED BY <1>1, <1>2 DEF Elements

LEMMA Reselected ==
    ASSUME NEW children \in Seq(Child), UndoRedo!Reselect(children),
           selected \in UndoRedo!Node \cup {NoNode}
    PROVE  selected' \in UndoRedo!Node \cup {NoNode}
<1>1. selected' = selected \/ selected' \in UndoRedo!ToSet(children) \cup {Root, NoNode}
  <2> DEFINE shown == UndoRedo!ToSet(children) \cup {Root, NoNode}
  <2>1. selected' \in IF selected \in shown THEN {selected} ELSE shown
    BY Zenon DEF UndoRedo!Reselect
  <2> HIDE DEF shown
  <2>2. selected' = selected \/ selected' \in shown
    BY <2>1
  <2> QED BY <2>2 DEF shown
<1> QED BY <1>1, ChildrenAreElements DEF UndoRedo!Node

LEMMA NodeAdded ==
    ASSUME UndoRedo!UndoConstants, UndoInv, UndoRedo!AddNode
    PROVE  UndoInv'
<1>1. PICK child \in Child \ UndoRedo!Mentioned :
         UndoRedo!memorize(UndoRedo!Change("add", child, 0, 0,
             [children |-> Append(document.children, child),
              text |-> [document.text EXCEPT ![child] = << >>],
              likes |-> [n \in Survey |-> IF n = child THEN 0 ELSE document.likes[n]]]))
  BY Zenon DEF UndoRedo!AddNode
<1> DEFINE after == [children |-> Append(document.children, child),
                     text |-> [document.text EXCEPT ![child] = << >>],
                     likes |-> [n \in Survey |-> IF n = child THEN 0 ELSE document.likes[n]]]
           change == UndoRedo!Change("add", child, 0, 0, after)
           begin == SubSeq(changesStack, 1, changesIterator)
<1>2. trusted' = (trusted /\ UndoRedo!CutsCleanly) /\ selected' = selected
  BY Zenon DEF UndoRedo!AddNode
<1>3. /\ change.kind = "add" /\ change.node = child
      /\ change.before = document /\ change.after = after
  BY DEF UndoRedo!Change
<1>4. /\ after.children = Append(document.children, child)
      /\ after = WithChildren(Fresh(document, child), after.children)
  BY DEF WithChildren, Fresh
<1>5. UndoRedo!memorize(change)
  BY <1>1
<1> HIDE DEF after
<1>6. ASSUME trusted'
      PROVE  /\ trusted /\ UndoRedo!CutsCleanly
             /\ selected' \in UndoRedo!Node \cup {NoNode}
             /\ after \in Document /\ Once(after)
             /\ \E D : /\ Story(D, begin)
                      /\ Leads(change, D[changesIterator + 1], after)
  <2>1. /\ trusted /\ UndoRedo!CutsCleanly /\ selected' \in UndoRedo!Node \cup {NoNode}
    BY <1>2, <1>6 DEF UndoInv
  <2>2. PICK D : Story(D, begin) /\ D[changesIterator + 1] = document
    BY <2>1, ToldSoFar
  <2>3. document \in Document /\ Once(document) /\ document.children \in Seq(Child)
    BY <2>1, ToldSoFar, DocumentParts
  <2>4. PICK Set : changesStack \in Seq(Set)
    BY DEF UndoInv
  <2>5. /\ changesIterator \in 0 .. Len(changesStack) /\ Len(changesStack) \in Nat
        /\ begin \in Seq(Set) /\ Len(begin) = changesIterator
        /\ \A i \in 1 .. changesIterator : begin[i] = changesStack[i]
    BY <2>4, Beginning, LenProperties DEF UndoInv
  <2>6. child \in Child \ Elements(document.children)
    BY <2>3, ChildrenAreElements DEF UndoRedo!Mentioned
  <2>7. child \notin Nodes(begin, Len(begin))
    <3>1. \A i \in 1 .. Len(changesStack) : changesStack[i].node # child
      <4>1. DOMAIN changesStack = 1 .. Len(changesStack)
        BY <2>4, LenProperties
      <4> QED BY <4>1 DEF UndoRedo!Mentioned
    <3>2. \A i \in 1 .. Len(begin) : begin[i].node # child
      BY <2>5, <3>1
    <3> QED BY <3>2 DEF Nodes
  <2> DEFINE E == [i \in 1 .. Len(begin) + 1 |-> Fresh(D[i], child)]
  <2> HIDE DEF begin
  <2>8. Story(E, begin)
    BY <2>2, <2>5, <2>6, <2>7, StoryFresh
  <2>9. E[changesIterator + 1] = Fresh(document, child)
    BY <2>2, <2>5
  <2>10. /\ Fresh(document, child) \in Document
         /\ Fresh(document, child).children = document.children
         /\ UndoRedo!Shown(Fresh(document, child)) = UndoRedo!Shown(document)
    BY <2>3, <2>6, FreshDocument
  <2>11. /\ after.children \in Seq(Child) /\ Len(after.children) = Len(document.children) + 1
         /\ \A i \in 1 .. Len(document.children) : after.children[i] = document.children[i]
         /\ after.children[Len(document.children) + 1] = child
    BY <1>4, <2>3, <2>6, AppendProperties
  <2>12. after \in Document
    <3>1. /\ after.text = Fresh(document, child).text /\ after.likes = Fresh(document, child).likes
          /\ after = [children |-> after.children, text |-> after.text, likes |-> after.likes]
      BY <1>4 DEF WithChildren
    <3> QED BY <2>10, <2>11, <3>1, DocumentParts DEF Document
  <2>13. Once(after)
    <3>1. /\ \A i \in 1 .. Len(document.children) : document.children[i] # child
          /\ \A i, j \in 1 .. Len(document.children) :
                document.children[i] = document.children[j] => i = j
          /\ Len(document.children) \in Nat
      <4>1. \A i \in 1 .. Len(document.children) : document.children[i] # child
        BY <2>6 DEF Elements
      <4>2. Len(document.children) \in Nat
        BY <2>3, LenProperties
      <4> QED BY <2>3, <4>1, <4>2 DEF Once
    <3>2. ASSUME NEW i \in 1 .. Len(after.children), NEW j \in 1 .. Len(after.children),
                 after.children[i] = after.children[j]
          PROVE  i = j
      <4>1. CASE i \in 1 .. Len(document.children) /\ j \in 1 .. Len(document.children)
        BY <2>11, <3>1, <3>2, <4>1
      <4>2. CASE i = Len(document.children) + 1 \/ j = Len(document.children) + 1
        <5>1. after.children[i] = child /\ after.children[j] = child
          BY <2>11, <3>2, <4>2
        <5> QED BY <2>11, <3>1, <5>1
      <4> QED BY <2>11, <3>1, <4>1, <4>2
    <3> QED BY <3>2 DEF Once
  <2>14. Makes(change, Fresh(document, child), after)
    BY <1>3, <1>4, <2>6, <2>10 DEF Makes
  <2> HIDE DEF change, E
  <2>15. Leads(change, E[changesIterator + 1], after)
    BY <1>3, <2>9, <2>10, <2>14 DEF Leads
  <2> QED BY <2>1, <2>8, <2>12, <2>13, <2>15
<1> QED BY <1>5, <1>6, Memorized

LEMMA NodeDeleted ==
    ASSUME UndoRedo!UndoConstants, UndoInv, UndoRedo!DeleteNode
    PROVE  UndoInv'
<1> DEFINE rest == UndoRedo!RemoveFirst(document.children, selected)
           after == [document EXCEPT !.children = rest]
           change == UndoRedo!Change("remove", selected, 0, 0, after)
<1>1. /\ selected \in UndoRedo!ToSet(document.children)
      /\ UndoRedo!memorize(change) /\ UndoRedo!Reselect(rest)
      /\ trusted' = (trusted /\ UndoRedo!CutsCleanly
                      /\ selected = UndoRedo!Last(document.children))
  BY Zenon DEF UndoRedo!DeleteNode
<1>2. /\ change.kind = "remove" /\ change.node = selected
      /\ change.before = document /\ change.after = after
  BY DEF UndoRedo!Change
<1> HIDE DEF after, rest
<1>3. ASSUME trusted'
      PROVE  /\ trusted /\ UndoRedo!CutsCleanly
             /\ selected' \in UndoRedo!Node \cup {NoNode}
             /\ after \in Document /\ Once(after)
             /\ \E D : /\ Story(D, SubSeq(changesStack, 1, changesIterator))
                      /\ Leads(change, D[changesIterator + 1], after)
  <2>1. /\ trusted /\ UndoRedo!CutsCleanly
        /\ selected = document.children[Len(document.children)]
    BY <1>1, <1>3 DEF UndoRedo!Last
  <2>2. PICK D : /\ Story(D, SubSeq(changesStack, 1, changesIterator))
                 /\ D[changesIterator + 1] = document
    BY <2>1, ToldSoFar
  <2>3. document \in Document /\ Once(document) /\ document.children \in Seq(Child)
    BY <2>1, ToldSoFar, DocumentParts
  <2>4. document.children # << >> /\ selected \in Child
    <3>1. selected \in Elements(document.children) /\ selected \in Child
      BY <1>1, <2>3, ChildrenAreElements
    <3>2. Elements(<< >>) = {}
      BY DEF Elements
    <3> QED BY <3>1, <3>2
  <2>5. /\ rest \in Seq(Child) /\ selected \notin Elements(rest)
        /\ document.children = Append(rest, selected)
    BY <2>1, <2>3, <2>4, LastRemoved DEF Once, rest
  <2>6. after = WithChildren(document, rest)
    <3>1. \A v : [document EXCEPT !.children = v] = WithChildren(document, v)
      BY <2>3, DocumentEdited, Zenon
    <3> QED BY <3>1, Zenon DEF after
  <2>7. /\ after.children = rest /\ after.text = document.text /\ after.likes = document.likes
        /\ after = [children |-> after.children, text |-> after.text, likes |-> after.likes]
    BY <2>6 DEF WithChildren
  <2>8. after \in Document
    BY <2>3, <2>5, <2>7, DocumentParts DEF Document
  <2>9. Once(after)
    <3>1. /\ Len(document.children) = Len(rest) + 1 /\ Len(rest) \in Nat
          /\ \A i \in 1 .. Len(rest) : document.children[i] = rest[i]
      BY <2>4, <2>5, AppendProperties, LenProperties
    <3> QED BY <2>3, <2>7, <3>1 DEF Once
  <2>10. document = WithChildren(after, Append(after.children, selected))
    BY <2>3, <2>5, <2>7, DocumentParts DEF WithChildren
  <2>11. Makes(change, document, after)
    BY <1>2, <2>4, <2>5, <2>7, <2>10 DEF Makes
  <2>12. selected' \in UndoRedo!Node \cup {NoNode}
    BY <1>1, <2>1, <2>5, Reselected DEF UndoInv
  <2> HIDE DEF change
  <2>13. Leads(change, D[changesIterator + 1], after)
    BY <1>2, <2>2, <2>11 DEF Leads
  <2> QED BY <2>1, <2>2, <2>8, <2>9, <2>12, <2>13
<1> QED BY <1>1, <1>3, Memorized

LEMMA Undone ==
    ASSUME UndoRedo!UndoConstants, UndoInv, UndoRedo!Undo
    PROVE  UndoInv'
<1>1. /\ undoAvailable /\ document' = UndoRedo!Reverted
      /\ changesIterator' = changesIterator - 1
      /\ undoAvailable' = (changesIterator > 1) /\ redoAvailable' = TRUE
      /\ UndoRedo!Reselect(document'.children)
      /\ trusted' = (trusted /\ UndoRedo!Bound(changesStack[changesIterator]))
      /\ changesStack' = changesStack
  BY Zenon DEF UndoRedo!Undo
<1>2. PICK Set : changesStack \in Seq(Set)
  BY DEF UndoInv
<1>3. changesIterator \in 1 .. Len(changesStack) /\ Len(changesStack) \in Nat
  <2>1. changesIterator > 0
    BY <1>1, Zenon DEF UndoInv
  <2> QED BY <1>2, <2>1, LenProperties DEF UndoInv
<1>4. /\ \E T : changesStack' \in Seq(T)
      /\ changesIterator' \in 0 .. Len(changesStack')
      /\ changesIterator' < Len(changesStack')
  BY <1>1, <1>2, <1>3
<1>5. undoAvailable' = (changesIterator' > 0)
  <2>1. (changesIterator > 1) = (changesIterator' > 0)
    BY <1>1, <1>3
  <2> QED BY <1>1, <2>1
<1>6. ASSUME trusted'
      PROVE  /\ selected' \in UndoRedo!Node \cup {NoNode}
             /\ \E D : Story(D, changesStack') /\ D[changesIterator' + 1] = document'
  <2>1. trusted /\ UndoRedo!Bound(changesStack[changesIterator])
    BY <1>1, <1>6
  <2>2. PICK D : Story(D, changesStack) /\ D[changesIterator + 1] = document
    BY <2>1 DEF UndoInv
  <2>3. document' = D[changesIterator]
    BY <1>1, <2>1, <2>2, StoryMoves
  <2>4. changesIterator' + 1 = changesIterator
    BY <1>1, <1>3
  <2>5. document'.children \in Seq(Child)
    <3>1. D[changesIterator] \in Document
      BY <1>3, <2>2 DEF Story
    <3> QED BY <2>3, <3>1, DocumentParts
  <2>6. selected' \in UndoRedo!Node \cup {NoNode}
    BY <1>1, <2>1, <2>5, Reselected DEF UndoInv
  <2> QED BY <1>1, <2>2, <2>3, <2>4, <2>6
<1> QED BY <1>4, <1>5, <1>6 DEF UndoInv

LEMMA Redone ==
    ASSUME UndoRedo!UndoConstants, UndoInv, UndoRedo!Redo
    PROVE  UndoInv'
<1>1. /\ redoAvailable /\ document' = UndoRedo!Remade
      /\ changesIterator' = changesIterator + 1 /\ undoAvailable' = TRUE
      /\ redoAvailable' = (changesIterator + 1 < Len(changesStack))
      /\ UndoRedo!Reselect(document'.children)
      /\ trusted' = (trusted /\ UndoRedo!Bound(changesStack[changesIterator + 1]))
      /\ changesStack' = changesStack
  BY Zenon DEF UndoRedo!Redo
<1>2. PICK Set : changesStack \in Seq(Set)
  BY DEF UndoInv
<1>3. /\ changesIterator \in Nat /\ changesIterator < Len(changesStack)
      /\ Len(changesStack) \in Nat
  BY <1>1, <1>2, LenProperties DEF UndoInv
<1>4. /\ \E T : changesStack' \in Seq(T)
      /\ changesIterator' \in 0 .. Len(changesStack')
      /\ redoAvailable' => changesIterator' < Len(changesStack')
  <2>1. redoAvailable' => changesIterator' < Len(changesStack')
    BY <1>1, Zenon
  <2> QED BY <1>1, <1>2, <1>3, <2>1
<1>5. undoAvailable' = (changesIterator' > 0)
  <2>1. (changesIterator' > 0) = TRUE
    BY <1>1, <1>3
  <2> QED BY <1>1, <2>1
<1>6. ASSUME trusted'
      PROVE  /\ selected' \in UndoRedo!Node \cup {NoNode}
             /\ \E D : Story(D, changesStack') /\ D[changesIterator' + 1] = document'
  <2>1. trusted /\ UndoRedo!Bound(changesStack[changesIterator + 1])
    BY <1>1, <1>6
  <2>2. PICK D : Story(D, changesStack) /\ D[changesIterator + 1] = document
    BY <2>1 DEF UndoInv
  <2>3. document' = D[changesIterator + 2]
    BY <1>1, <2>1, <2>2, StoryMoves
  <2>4. changesIterator' + 1 = changesIterator + 2
    BY <1>1, <1>3
  <2>5. document'.children \in Seq(Child)
    <3>1. D[changesIterator + 2] \in Document
      BY <1>3, <2>2 DEF Story
    <3> QED BY <2>3, <3>1, DocumentParts
  <2>6. selected' \in UndoRedo!Node \cup {NoNode}
    BY <1>1, <2>1, <2>5, Reselected DEF UndoInv
  <2> QED BY <1>1, <2>2, <2>3, <2>4, <2>6
<1> QED BY <1>4, <1>5, <1>6 DEF UndoInv

\* A story begins with a document and no change.
LEMMA StoryBegins ==
    ASSUME NEW d \in Document, Once(d)
    PROVE  Story([i \in 1 .. 1 |-> d], << >>)
<1>1. \A i \in 1 .. 1 : i = 1
  OBVIOUS
<1>2. Len(<< >>) = 0
  OBVIOUS
<1> QED BY <1>1, <1>2 DEF Story

LEMMA UndoInit ==
    ASSUME UndoRedo!UndoConstants, UndoRedo!Init
    PROVE  UndoInv
<1>1. /\ document = [children |-> << >>, text |-> [n \in UndoRedo!Node |-> << >>],
                      likes |-> [n \in Survey |-> 0]]
      /\ selected = Root /\ changesStack = << >> /\ changesIterator = 0
      /\ undoAvailable = FALSE /\ redoAvailable = FALSE
  BY Zenon DEF UndoRedo!Init
<1>2. document \in Document /\ Once(document)
  BY <1>1 DEF Document, Once
<1>3. Story([i \in 1 .. 1 |-> document], changesStack)
  BY <1>1, <1>2, StoryBegins
<1>4. [i \in 1 .. 1 |-> document][changesIterator + 1] = document
  BY <1>1
<1>5. /\ changesStack \in Seq({}) /\ changesIterator \in 0 .. Len(changesStack)
      /\ selected \in UndoRedo!Node
  BY <1>1 DEF UndoRedo!Node
<1>6. undoAvailable = (changesIterator > 0)
  <2>1. (changesIterator > 0) = FALSE
    BY <1>1
  <2> QED BY <1>1, <2>1
<1> QED BY <1>1, <1>3, <1>4, <1>5, <1>6 DEF UndoInv

LEMMA LetterTyped ==
    ASSUME UndoRedo!UndoConstants, UndoInv, UndoRedo!TypeLetter \/ UndoRedo!EraseLetter
    PROVE  UndoInv'
<1> DEFINE text == document.text[selected]
<1>1. ASSUME trusted, selected # NoNode
      PROVE  text \in Seq(Letter)
  <2>1. selected \in UndoRedo!Node /\ document \in Document
    BY <1>1, ToldSoFar DEF UndoInv
  <2> QED BY <2>1, DocumentParts
<1>2. CASE UndoRedo!TypeLetter
  <2>1. PICK x \in Letter :
           /\ selected # NoNode
           /\ UndoRedo!EditText(Append(text, x)) \/ UndoRedo!EditText(<<x>> \o text)
    BY <1>2, Zenon DEF UndoRedo!TypeLetter
  <2> HIDE DEF text
  <2>2. trusted => Append(text, x) \in Seq(Letter) /\ <<x>> \o text \in Seq(Letter)
    <3>1. SUFFICES ASSUME text \in Seq(Letter)
                   PROVE  Append(text, x) \in Seq(Letter) /\ <<x>> \o text \in Seq(Letter)
      BY <1>1, <2>1
    <3>2. <<x>> \in Seq(Letter)
      OBVIOUS
    <3> QED BY <3>1, <3>2, AppendProperties, ConcatProperties
  <2> QED BY <2>1, <2>2, TextEdited
<1>3. CASE UndoRedo!EraseLetter
  <2>1. selected # NoNode /\ text # << >> /\ UndoRedo!EditText(UndoRedo!Front(text))
    BY <1>3, Zenon DEF UndoRedo!EraseLetter
  <2> HIDE DEF text
  <2>2. trusted => UndoRedo!Front(text) \in Seq(Letter)
    <3>1. SUFFICES ASSUME text \in Seq(Letter)
                   PROVE  UndoRedo!Front(text) \in Seq(Letter)
      BY <1>1, <2>1
    <3>2. Len(text) \in Nat \ {0}
      BY <2>1, <3>1, EmptySeq
    <3>3. Len(text) - 1 \in 0 .. Len(text)
      BY <3>2
    <3> QED BY <3>1, <3>3, Beginning DEF UndoRedo!Front
  <2> QED BY <2>1, <2>2, TextEdited
<1> QED BY <1>2, <1>3

LEMMA UndoStep ==
    ASSUME UndoRedo!UndoConstants
    PROVE  UndoInv /\ [UndoRedo!Next]_UndoRedo!undoVars => UndoInv'
<1> SUFFICES ASSUME UndoInv, [UndoRedo!Next]_UndoRedo!undoVars
             PROVE  UndoInv'
  OBVIOUS
<1>1. CASE UndoRedo!TypeLetter \/ UndoRedo!EraseLetter
  BY <1>1, LetterTyped
<1>2. CASE UndoRedo!Vote
  BY <1>2, Voted
<1>3. CASE UndoRedo!AddNode
  BY <1>3, NodeAdded
<1>4. CASE UndoRedo!DeleteNode
  BY <1>4, NodeDeleted
<1>5. CASE UndoRedo!Undo
  BY <1>5, Undone
<1>6. CASE UndoRedo!Redo
  BY <1>6, Redone
<1>7. CASE UndoRedo!Select
  <2>1. /\ selected' \in UndoRedo!ToSet(document.children) \cup {Root, NoNode}
        /\ UNCHANGED <<document, changesStack, changesIterator, undoAvailable,
                       redoAvailable, trusted>>
    BY <1>7, Zenon DEF UndoRedo!Select
  <2>2. trusted' => selected' \in UndoRedo!Node \cup {NoNode}
    <3>1. trusted => document.children \in Seq(Child)
      BY ToldSoFar, DocumentParts
    <3> QED BY <2>1, <3>1, ChildrenAreElements DEF UndoRedo!Node
  <2> QED BY <2>1, <2>2 DEF UndoInv
<1>8. CASE UndoRedo!Save
  <2>1. /\ changesStack' = << >> /\ changesIterator' = 0
        /\ undoAvailable' = FALSE /\ redoAvailable' = FALSE
        /\ UNCHANGED <<document, selected, trusted>>
    BY <1>8, Zenon DEF UndoRedo!Save
  <2>2. ASSUME trusted'
        PROVE  /\ selected' \in UndoRedo!Node \cup {NoNode}
               /\ \E D : Story(D, changesStack') /\ D[changesIterator' + 1] = document'
    <3>1. trusted /\ document \in Document /\ Once(document)
      BY <2>1, <2>2, ToldSoFar
    <3> DEFINE D == [i \in 1 .. 1 |-> document]
    <3>2. Story(D, changesStack')
      BY <2>1, <3>1, StoryBegins
    <3>3. D[changesIterator' + 1] = document'
      BY <2>1
    <3>4. selected' \in UndoRedo!Node \cup {NoNode}
      BY <2>1, <3>1 DEF UndoInv
    <3> HIDE DEF D
    <3> QED BY <3>2, <3>3, <3>4
  <2>3. changesStack' \in Seq({}) /\ changesIterator' \in 0 .. Len(changesStack')
    BY <2>1
  <2>4. undoAvailable' = (changesIterator' > 0)
    <3>1. (changesIterator' > 0) = FALSE
      BY <2>1
    <3> QED BY <2>1, <3>1
  <2> QED BY <2>1, <2>2, <2>3, <2>4 DEF UndoInv
<1>9. CASE UNCHANGED UndoRedo!undoVars
  BY <1>9 DEF UndoInv, UndoRedo!undoVars
<1> QED BY <1>1, <1>2, <1>3, <1>4, <1>5, <1>6, <1>7, <1>8, <1>9 DEF UndoRedo!Next

\* Undo leads to the document before the last change and redo to the one after the next,
\* merged letters included, in every history that keeps clear of the three mistakes of
\* UndoRedoManager; its buttons find their change in every history.
THEOREM UndoAlwaysRestores ==
    ASSUME UndoRedo!UndoConstants
    PROVE  UndoRedo!Spec => []UndoRestores
<1>1. UndoRedo!Init => UndoInv
  BY UndoInit
<1>2. UndoInv /\ [UndoRedo!Next]_UndoRedo!undoVars => UndoInv'
  BY UndoStep
<1>3. UndoInv => UndoRestores
  BY StoryRestores
<1> QED BY <1>1, <1>2, <1>3, PTL DEF UndoRedo!Spec
=============================================================================
