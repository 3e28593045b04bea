------------------------------ MODULE Services ------------------------------
(***************************************************************************)
(* Nine of the programs that take requests one after the other, with the   *)
(* names their promises go by in the runs and the proofs: the commissions  *)
(* of BitJobs, the stock alerts of JNP II, the hotel and the forum editor  *)
(* of PO tasks 1 and 2, the scheduler of SO task 5, the votes of the       *)
(* election pages, the rectangles of JNP 1 task 3 and the towns of tasks 4 *)
(* and 6.                                                                  *)
(***************************************************************************)
CONSTANTS
    Bidder, Request, Held, Nobody,
    AlertId, Price, Condition, alert_interval, MaxSeconds, MaxQueue, MaxCrashes,
    Rooms, Orders, Clerks, Queues, NoRoom,
    Child, Root, NoNode, Letter, Survey, MaxText, MaxLikes, MaxChanges,
    NR_PROCS, MAX_TOKENS, MaxPriority, MaxTicks, MaxStarts,
    CandidateId, Worker, MaxVotes, MaxServed, Invalid, Spare,
    Whole, Vector, Shifts, MaxRectangles,
    Town, Citizen, Fiend, Power, Health, Hours, Clock, TownStep, Nothing,
    t0, t1, Limit, Step, Citizens, Monster

VARIABLES
    commission, bids, wallet, requests,
    clock, price, ticks, alerts, occurred, notifications, consumer, notificationQueue,
    published, mails, crashes,
    ordersList, deskClerkList, reheard, datesWhenReserved, booked,
    document, selected, changesStack, changesIterator, undoAvailable, redoAvailable, made, trusted,
    tokens, proc_nr, last_fill, slot, uptime, cpu, runnable, spent, forgotten, starts,
    votes, summary, workers, served, overlapped,
    rectangles, shift,
    town, health, said,
    _time, _alive, _citizens, _monster, hour, overflowed

Commissions == INSTANCE Commissions
Alerts == INSTANCE Alerts WITH now <- clock, MaxTime <- MaxSeconds
Hotel == INSTANCE Hotel
UndoRedo == INSTANCE UndoRedo
Tokens == INSTANCE TokenScheduler WITH MaxTime <- MaxTicks, lost <- forgotten
Votes == INSTANCE Votes
Geometry == INSTANCE Geometry
Towns == INSTANCE SmallTown WITH
    Monster <- Fiend, Time <- Hours, Step <- TownStep, NONE <- Nothing
Horror == INSTANCE HorrorTown

-----------------------------------------------------------------------------
\* Nothing is lost or made: schedule.c keeps the number of tokens, a commission of BitJobs
\* that is finished has a contractor who was paid, votes_api keeps the summary of a borough
\* the sum of its candidates' votes, and the rectangles of geometry.cc cover what they were
\* cut from, without overlaps and ready to be merged.
NothingIsLost ==
    /\ Tokens!TokensAreConserved /\ Commissions!FinishedMeansPaid /\ Votes!SummaryAddsUp
    /\ Geometry!TilesStay /\ Geometry!HalvesMerge
\* The consumer of thresholdalert asks for no notification twice in alert_interval.
AlertsAreQuiet == Alerts!AlertsAreQuiet
\* Hotel.accept reserves no room twice for a day and drops no order early.
OrdersAreSettled == Hotel!OrdersAreSettled
\* The towns of JNP 1 attack at the right hours and keep the number of the living right
\* without counting again, and what they say stays true.
TownsCountRight ==
    /\ Towns!LivingAreCounted /\ Towns!VerdictsHold
    /\ Horror!LivingAreCounted /\ Horror!AttacksAtFibonacci
\* UndoRedoManager leads back and forth between the documents its changes were made on.
UndoRestores == UndoRedo!UndoRestores
=============================================================================
