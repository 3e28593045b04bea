--------------------------------- MODULE Votes ---------------------------------
(***************************************************************************)
(* The election pages: votes_api sets the votes of a candidate in a        *)
(* borough and moves the summary of the borough by the difference.  The    *)
(* rows are read before the transaction that saves them.                   *)
(***************************************************************************)
EXTENDS Integers, FiniteSets, Functions

CONSTANTS
    CandidateId,
    Worker,         \* requests served at the same time
    MaxVotes,       \* bound on the votes sent
    MaxServed,      \* bound on the requests
    Invalid, Spare  \* votes_invalid, and the ballot papers beyond the votes, at the start

VotesConstants == IsFiniteSet(CandidateId) /\ MaxVotes \in Nat \ {0} /\ MaxServed \in Nat
                  /\ Invalid \in Nat /\ Spare \in Nat

VARIABLES
    votes,      \* VoteCandidate rows of the borough
    summary,    \* VoteResultSummary row: [votes_valid, votes_invalid, ballot_papers]
    workers,    \* worker |-> [pc, candidate, votes, row, summary]: its copies
    served,     \* how many requests were taken
    overlapped  \* a request read a row that another one was about to save

votesVars == <<votes, summary, workers, served, overlapped>>

Free == [pc |-> "free"]
Busy == {w \in Worker : workers[w] # Free}

Init ==
    /\ votes = [c \in CandidateId |-> 1]
    /\ summary = [votes_valid |-> Cardinality(CandidateId), votes_invalid |-> Invalid,
                  ballot_papers |-> Cardinality(CandidateId) + Invalid + Spare]
    /\ workers = [w \in Worker |-> Free]
    /\ served = 0 /\ overlapped = FALSE

\* A request that passed the checks of its fields and the login reads the candidate's row.
ReadCandidate(w) ==
    /\ workers[w] = Free /\ served < MaxServed
    /\ served' = served + 1
    /\ \E c \in CandidateId, n \in -1 .. MaxVotes :
          workers' = [workers EXCEPT ![w] =
              [pc |-> "summary", candidate |-> c, votes |-> n, row |-> votes[c]]]
    /\ overlapped' = (overlapped \/ Busy # {})
    /\ UNCHANGED <<votes, summary>>

ReadSummary(w) ==
    /\ workers[w].pc = "summary"
    /\ workers' = [workers EXCEPT ![w] =
          [pc |-> "save", candidate |-> workers[w].candidate, votes |-> workers[w].votes,
           row |-> workers[w].row, summary |-> summary]]
    /\ UNCHANGED <<votes, summary, served, overlapped>>

Moved(s, difference) ==
    [s EXCEPT !.votes_valid = @ + difference, !.ballot_papers = @ + difference]

\* The fields' validators, and clean of the summary.
Valid(n, s) ==
    /\ n >= 0 /\ s.votes_valid >= 0 /\ s.ballot_papers >= 0
    /\ s.ballot_papers >= s.votes_valid + s.votes_invalid

\* transaction.atomic: both rows or none.
SaveBoth(w) ==
    LET me == workers[w]
        moved == Moved(me.summary, me.votes - me.row)
    IN /\ me.pc = "save"
       /\ IF Valid(me.votes, moved)
          THEN /\ votes' = [votes EXCEPT ![me.candidate] = me.votes]
               /\ summary' = moved
          ELSE UNCHANGED <<votes, summary>>
       /\ workers' = [workers EXCEPT ![w] = Free]
       /\ UNCHANGED <<served, overlapped>>

Next == \E w \in Worker : ReadCandidate(w) \/ ReadSummary(w) \/ SaveBoth(w)

Spec == Init /\ [][Next]_votesVars
-----------------------------------------------------------------------------
TypeOK ==
    /\ \A c \in CandidateId : votes[c] \in 0 .. MaxVotes
    /\ \A w \in Worker : workers[w].pc \in {"free", "summary", "save"}
    /\ served \in 0 .. MaxServed /\ overlapped \in BOOLEAN

\* The papers not counted as valid stay as many as they were, whatever requests overlap;
\* and as long as none did, the valid votes are the votes of all candidates.
SummaryAddsUp ==
    /\ summary.ballot_papers - summary.votes_valid = Invalid + Spare
    /\ ~overlapped => summary.votes_valid = SumFunctionOnSet(votes, CandidateId)
=============================================================================
