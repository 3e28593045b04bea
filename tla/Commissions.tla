----------------------------- MODULE Commissions -----------------------------
(***************************************************************************)
(* BitJobs: one commission from its opening to its payment.  Every view    *)
(* reads the row of the commission, changes its copy and saves the whole   *)
(* copy; requests run in several workers, and no view locks the row or     *)
(* looks at its status before it changes it, commission_accept_work        *)
(* included: its redirect is not returned.                                 *)
(***************************************************************************)
EXTENDS Integers

CONSTANTS
    Bidder,     \* users other than the orderer
    Request,    \* workers of the web server
    Held,       \* bound: what other orderers' commissions hold in the master wallet
    Nobody      \* contractor = None, bid = None

CommissionConstants == Held \in Nat /\ {"master", "orderer"} \cap Bidder = {}

VARIABLES
    commission, \* the row: [status, contractor, bid]
    bids,       \* the bidders of the rows of CommissionBid
    wallet,     \* bidder |-> received; "master" and "orderer" |-> balance
    requests    \* worker |-> [pc, row]: its copy of the row and what is left to do

commissionVars == <<commission, bids, wallet, requests>>

Status == {"none", "O", "B", "A", "D", "F"}
Absent == [status |-> "none", contractor |-> Nobody, bid |-> Nobody]
Idle == [pc |-> "idle", row |-> Absent]

Init ==
    /\ commission = Absent
    /\ bids = {}
    /\ wallet = [w \in Bidder \cup {"master", "orderer"} |->
                    CASE w = "master" -> Held [] w = "orderer" -> 1 [] OTHER -> 0]
    /\ requests = [r \in Request |-> Idle]

\* Wallet.transfer of the price, which is 1: raises when the balance is too small.
Transfer(from, to) ==
    /\ wallet[from] > 0
    /\ wallet' = [w \in DOMAIN wallet |->
                    wallet[w] + (IF w = to THEN 1 ELSE 0) - (IF w = from THEN 1 ELSE 0)]

\* CommissionAddView: the price goes to the master wallet, then the row is saved.
Add(r) ==
    /\ commission = Absent /\ \A q \in Request : requests[q] = Idle
    /\ Transfer("orderer", "master")
    /\ requests' = [requests EXCEPT ![r] =
                        [pc |-> "save", row |-> [Absent EXCEPT !.status = "O"]]]
    /\ UNCHANGED <<commission, bids>>

\* CommissionBidView: status 'B' is set on a copy that is not saved; one bid per bidder.
Bid(u) ==
    /\ commission # Absent /\ u \notin bids
    /\ bids' = bids \cup {u}
    /\ UNCHANGED <<commission, wallet, requests>>

\* A view reads the row and changes its copy.
Read(r, pc, row) ==
    /\ requests[r] = Idle /\ commission # Absent
    /\ requests' = [requests EXCEPT ![r] = [pc |-> pc, row |-> row]]
    /\ UNCHANGED <<commission, bids, wallet>>

Choose(r) == \E u \in bids :
    Read(r, "save", [status |-> "A", contractor |-> u, bid |-> u])
Done(r) == Read(r, "save", [commission EXCEPT !.status = "D"])
Deny(r) == Read(r, "save", [commission EXCEPT !.status = "B", !.contractor = Nobody])
\* mutant: the price is not transferred
AcceptUnpaid(r) == Read(r, "save", [commission EXCEPT !.status = "F"])

AcceptWork(r) == Read(r, "pay", [commission EXCEPT !.status = "F"])

\* master_wallet.transfer in commission_accept_work.
Pay(r) ==
    LET contractor == requests[r].row.contractor IN
    /\ requests[r].pc = "pay" /\ contractor # Nobody
    /\ Transfer("master", contractor)
    /\ requests' = [requests EXCEPT ![r].pc = "save"]
    /\ UNCHANGED <<commission, bids>>

\* No contractor, no money, or a crash of the worker: the exception ends the request.
Fail(r) ==
    /\ requests[r] # Idle
    /\ requests' = [requests EXCEPT ![r] = Idle]
    /\ UNCHANGED <<commission, bids, wallet>>

\* commission.save() writes every column.
Save(r) ==
    /\ requests[r].pc = "save"
    /\ commission' = requests[r].row
    /\ requests' = [requests EXCEPT ![r] = Idle]
    /\ UNCHANGED <<bids, wallet>>

Next ==
    \/ \E r \in Request : \/ Add(r) \/ Choose(r) \/ Done(r) \/ Deny(r) \/ AcceptWork(r)
                          \/ Pay(r) \/ Fail(r) \/ Save(r)
    \/ \E u \in Bidder : Bid(u)

Spec == Init /\ [][Next]_commissionVars
-----------------------------------------------------------------------------
TypeOK ==
    /\ commission \in [status : Status, contractor : Bidder \cup {Nobody},
                       bid : Bidder \cup {Nobody}]
    /\ bids \subseteq Bidder
    /\ wallet \in [Bidder \cup {"master", "orderer"} -> 0 .. Held + 1]
    /\ \A r \in Request : requests[r].pc \in {"idle", "save", "pay"}

\* Whatever requests run at the same time, in whatever status they find the commission:
\* a contractor is the bidder of the chosen bid, and a finished commission has a
\* contractor who was paid.  (That he was paid once does not hold.)
FinishedMeansPaid ==
    /\ commission.contractor # Nobody => commission.contractor = commission.bid
    /\ commission.status = "F" => /\ commission.contractor # Nobody
                                  /\ wallet[commission.contractor] > 0
=============================================================================
