--------------------------- MODULE TokenScheduler ---------------------------
(***************************************************************************)
(* schedule.c: the user-space scheduler of Minix with tokens of system     *)
(* time.  Time hands out tokens, processes pay with them, and a process in *)
(* debt is not given back to the kernel.                                   *)
(***************************************************************************)
EXTENDS Integers, SequencesExt, FiniteSetsExt

CONSTANTS
    NR_PROCS, MAX_TOKENS,
    MaxPriority,    \* the priorities asked for, from 0; the last one is MIN_USER_Q
    MaxTime,        \* bound: ticks of uptime
    MaxStarts       \* bound: requests to start scheduling a process

SchedulerConstants ==
    /\ NR_PROCS \in Nat \ {0} /\ MAX_TOKENS \in Nat
    /\ MaxPriority \in Nat /\ MaxTime \in Nat

VARIABLES
    tokens,         \* not owned by any process
    proc_nr,        \* where refill_tokens believes to be
    last_fill,
    slot,           \* schedproc
    uptime,         \* the kernel's clock,
    cpu,            \* the system time it has counted for every process
    runnable,       \* and the processes it may run
    spent,          \* tokens paid so far
    lost,           \* tokens of slots that were set up again without being stopped
    starts          \* requests so far

schedVars == <<tokens, proc_nr, last_fill, slot, uptime, cpu, runnable, spent, lost, starts>>

Proc == 0 .. NR_PROCS - 1
Priority == 0 .. MaxPriority

Init ==
    /\ tokens = 0 /\ proc_nr = 0 /\ last_fill = 0
    /\ slot = [p \in Proc |-> [inUse |-> FALSE, priority |-> 0, max_priority |-> 0,
                               tok_sys_time |-> 0, used_sys_time |-> 0]]
    /\ uptime = 0 /\ cpu = [p \in Proc |-> 0] /\ runnable = {}
    /\ spent = 0 /\ lost = 0 /\ starts = 0

\* The kernel runs a process, or time passes without one.
Run ==
    /\ uptime < MaxTime /\ uptime' = uptime + 1
    /\ cpu' \in {cpu} \cup {[cpu EXCEPT ![p] = @ + 1] : p \in runnable}
    /\ UNCHANGED <<tokens, proc_nr, last_fill, slot, runnable, spent, lost, starts>>

\* mutant: no limit
FillAll(s, p) == [s EXCEPT !.slot[p].tok_sys_time = @ + s.tokens, !.tokens = 0]

\* fill_tokens_proc on a record of the tokens and the slots.
FillTokensProc(s, p) ==
    LET filled == s.slot[p].tok_sys_time + s.tokens
    IN [s EXCEPT !.slot[p].tok_sys_time = Min({filled, MAX_TOKENS}),
                 !.tokens = Max({filled - MAX_TOKENS, 0})]

\* The loop of refill_tokens, on its way to slot i.  The static pointer is put back to the
\* first slot while proc_nr goes on, so the slot visited is not the one proc_nr counts.
Visited(i) == IF proc_nr + i < NR_PROCS THEN i ELSE proc_nr + i - NR_PROCS

Visit(s, i) ==
    LET t == [s EXCEPT !.proc_nr = (@ + 1) % NR_PROCS]
    IN IF i > 0 /\ s.tokens <= 0 THEN s
       ELSE IF s.slot[Visited(i)].inUse THEN FillTokensProc(t, Visited(i)) ELSE t

RefillLoop(s0) == FoldLeft(Visit, s0, [i \in 1 .. NR_PROCS |-> i - 1])

\* refill_tokens: what tokens, proc_nr and the slots are afterwards.
Refilled ==
    LET s0 == [tokens |-> tokens + uptime - last_fill, proc_nr |-> proc_nr, slot |-> slot]
    IN IF s0.tokens < 0 THEN s0 ELSE RefillLoop(s0)

Refill ==
    /\ tokens' = Refilled.tokens
    /\ proc_nr' = Refilled.proc_nr
    /\ last_fill' = uptime

\* schedule_process pays for the time used since the last payment.
Due(p, s) == cpu[p] - s[p].used_sys_time
Paid(s, P) == [p \in Proc |->
    IF p \in P THEN [s[p] EXCEPT !.tok_sys_time = @ - Due(p, s), !.used_sys_time = cpu[p]]
    ELSE s[p]]

\* It pays for the processes of P and hands those without debt to the kernel, which
\* may refuse some of them; only the process whose quantum has expired had been stopped.
SchedulesExcept(s, P, refused, expired) ==
    /\ slot' = Paid(s, P)
    /\ spent' = spent + SumFunction([p \in P |-> Due(p, s)])
    /\ runnable' = (runnable \ expired)
                     \cup {p \in P \ refused : Paid(s, P)[p].tok_sys_time >= 0}

\* The kernel stops a process at the end of its quantum.
DoNoquantum(p) ==
    LET lowered == [Refilled.slot EXCEPT ![p].priority = Min({@ + 1, MaxPriority})]
    IN /\ p \in runnable /\ slot[p].inUse
       /\ Refill
       /\ \E refused \in SUBSET {p} : SchedulesExcept(lowered, {p}, refused, {p})
       /\ UNCHANGED <<uptime, cpu, lost, starts>>

\* The message came from an endpoint that is gone: only the tokens are refilled.
LateNoquantum ==
    /\ Refill
    /\ slot' = Refilled.slot
    /\ UNCHANGED <<uptime, cpu, runnable, spent, lost, starts>>

\* The process has ended; the kernel stops counting for its slot.
DoStopScheduling(p) ==
    /\ slot[p].inUse
    /\ tokens' = tokens + slot[p].tok_sys_time
    /\ slot' = [slot EXCEPT ![p].used_sys_time = 0, ![p].tok_sys_time = 0, ![p].inUse = FALSE]
    /\ runnable' = runnable \ {p}
    /\ cpu' = [cpu EXCEPT ![p] = 0]
    /\ UNCHANGED <<proc_nr, last_fill, uptime, spent, lost, starts>>

\* The slot is set up before anything can fail.
SetUp(p, maxprio) ==
    [slot EXCEPT ![p].max_priority = maxprio, ![p].tok_sys_time = MAX_TOKENS,
                 ![p].used_sys_time = 0]

StartsOrFails(p) ==
    /\ ~slot[p].inUse /\ starts < MaxStarts
    /\ starts' = starts + 1
    /\ tokens' = tokens - MAX_TOKENS
    /\ lost' = lost + slot[p].tok_sys_time
    /\ UNCHANGED <<proc_nr, last_fill, uptime, cpu>>

\* SCHEDULING_START with a priority of its own, SCHEDULING_INHERIT with the parent's.
DoStartScheduling(p, maxprio) ==
    /\ StartsOrFails(p)
    /\ \E priority \in {maxprio} \cup {slot[q].priority : q \in {r \in Proc : slot[r].inUse}},
          refused \in SUBSET {p} :
          SchedulesExcept([SetUp(p, maxprio) EXCEPT ![p].priority = priority, ![p].inUse = TRUE],
                          {p}, refused, {})

\* The priority is too large, the parent unknown or sys_schedctl refuses: the slot
\* keeps the tokens but is not in use.
FailStartScheduling(p, maxprio) ==
    /\ StartsOrFails(p)
    /\ slot' = SetUp(p, maxprio)
    /\ UNCHANGED <<runnable, spent>>

\* do_nice: what it paid stays paid when the priorities are rolled back.
DoNice(p, new_q) ==
    LET niced == [slot EXCEPT ![p].priority = new_q, ![p].max_priority = new_q]
    IN /\ slot[p].inUse
       /\ \/ SchedulesExcept(niced, {p}, {}, {})
          \/ /\ Paid(niced, {p})[p].tok_sys_time >= 0
             /\ slot' = Paid(slot, {p})
             /\ spent' = spent + Due(p, slot)
             /\ UNCHANGED runnable
       /\ UNCHANGED <<tokens, proc_nr, last_fill, uptime, cpu, lost, starts>>

\* Every process below its best priority goes up by one and is scheduled again.
BalanceQueues ==
    LET s == Refilled.slot
        below == {p \in Proc : s[p].inUse /\ s[p].priority > s[p].max_priority}
        raised == [p \in Proc |-> IF p \in below THEN [s[p] EXCEPT !.priority = @ - 1] ELSE s[p]]
    IN /\ Refill
       /\ \E refused \in SUBSET below : SchedulesExcept(raised, below, refused, {})
       /\ UNCHANGED <<uptime, cpu, lost, starts>>

Next ==
    \/ Run \/ LateNoquantum \/ BalanceQueues
    \/ \E p \in Proc :
          \/ DoNoquantum(p) \/ DoStopScheduling(p)
          \/ \E q \in Priority :
                DoStartScheduling(p, q) \/ FailStartScheduling(p, q) \/ DoNice(p, q)

Spec == Init /\ [][Next]_schedVars
-----------------------------------------------------------------------------
TypeOK ==
    /\ proc_nr \in Proc /\ last_fill \in 0 .. MaxTime /\ uptime \in 0 .. MaxTime
    /\ runnable \subseteq Proc
    /\ \A p \in Proc : /\ slot[p].priority \in Priority /\ slot[p].max_priority \in Priority
                       /\ slot[p].tok_sys_time <= MAX_TOKENS
                       /\ slot[p].used_sys_time \in 0 .. cpu[p]

\* Tokens are neither made nor lost: what time has handed out is in the pool, with a
\* process, paid, or was overwritten when a slot was set up again, whatever starts, stops,
\* refills and rollbacks happened; and a slot out of use holds nothing, or the MAX_TOKENS
\* of a start that failed.
TokensAreConserved ==
    /\ tokens + SumFunction([p \in Proc |-> slot[p].tok_sys_time]) + spent + lost = last_fill
    /\ \A p \in Proc : ~slot[p].inUse => slot[p].tok_sys_time \in {0, MAX_TOKENS}
=============================================================================
