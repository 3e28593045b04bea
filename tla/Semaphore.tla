------------------------------ MODULE Semaphore ------------------------------
(***************************************************************************)
(* dijkstra_semaphore.asm: proberen and verhogen of threads that use one   *)
(* semaphore as a lock, as the tests do.  Every access to memory is a step *)
(* of its own, except xchg, the only locked instruction: xadd without the  *)
(* lock prefix and sub first read and then write.                          *)
(***************************************************************************)
EXTENDS Integers

CONSTANTS Thread, Initial

SemaphoreConstants == Initial = 1

VARIABLES
    mutex,  \* the spin lock inside proberen
    sem,    \* [rdi]
    pc,     \* the next access of every thread
    read    \* what its xadd or sub has read

semVars == <<mutex, sem, pc, read>>

SemInit ==
    /\ mutex = 0
    /\ sem = Initial
    /\ pc = [t \in Thread |-> "outside"]
    /\ read = [t \in Thread |-> 0]

Goto(t, from, to) == pc[t] = from /\ pc' = [pc EXCEPT ![t] = to]

Call(t) == Goto(t, "outside", "wait_mutex") /\ UNCHANGED <<mutex, sem, read>>

\* xchg eax, [mutex]; jnz wait_mutex
WaitMutex(t) ==
    /\ IF mutex = 0 THEN Goto(t, "wait_mutex", "compare") ELSE Goto(t, "wait_mutex", "wait_mutex")
    /\ mutex' = 1
    /\ UNCHANGED <<sem, read>>

\* mutant: no jump at zero
CompareInVain(t) == Goto(t, "compare", "sub") /\ UNCHANGED <<mutex, sem, read>>

\* mutant: the mutex is given back before the subtraction
ReleaseEarly(t) ==
    /\ Goto(t, "compare", IF sem = 0 THEN "wait_semaphore" ELSE "sub")
    /\ mutex' = 0
    /\ UNCHANGED <<sem, read>>

\* cmp DWORD [rdi], 0; je wait_semaphore
Compare(t) ==
    /\ Goto(t, "compare", IF sem = 0 THEN "wait_semaphore" ELSE "sub")
    /\ UNCHANGED <<mutex, sem, read>>

\* The mutex is given back, then the loop starts again.
WaitSemaphore(t) ==
    /\ Goto(t, "wait_semaphore", "wait_mutex")
    /\ mutex' = 0
    /\ UNCHANGED <<sem, read>>

\* sub DWORD [rdi], 1
ReadSub(t) ==
    /\ Goto(t, "sub", "write_sub")
    /\ read' = [read EXCEPT ![t] = sem]
    /\ UNCHANGED <<mutex, sem>>

WriteSub(t) ==
    /\ Goto(t, "write_sub", "release")
    /\ sem' = read[t] - 1
    /\ UNCHANGED <<mutex, read>>

\* xchg eax, [mutex]; ret
Release(t) ==
    /\ Goto(t, "release", "inside")
    /\ mutex' = 0
    /\ UNCHANGED <<sem, read>>

\* verhogen: xadd [rdi], rax
ReadAdd(t) ==
    /\ Goto(t, "inside", "write_add")
    /\ read' = [read EXCEPT ![t] = sem]
    /\ UNCHANGED <<mutex, sem>>

WriteAdd(t) ==
    /\ Goto(t, "write_add", "outside")
    /\ sem' = read[t] + 1
    /\ UNCHANGED <<mutex, read>>

SemNext ==
    \E t \in Thread :
        \/ Call(t) \/ WaitMutex(t) \/ Compare(t) \/ WaitSemaphore(t) \/ ReadSub(t)
        \/ WriteSub(t) \/ Release(t) \/ ReadAdd(t) \/ WriteAdd(t)

SemSpec == SemInit /\ [][SemNext]_semVars
-----------------------------------------------------------------------------
HasMutex == {"compare", "wait_semaphore", "sub", "write_sub", "release"}

\* proberen has taken the semaphore and verhogen has not given it back.
Holds(t) == pc[t] \in {"release", "inside", "write_add"}

SemTypeOK ==
    /\ mutex \in {0, 1} /\ sem \in 0 .. 1
    /\ pc \in [Thread -> HasMutex \cup {"outside", "wait_mutex", "inside", "write_add"}]
    /\ read \in [Thread -> 0 .. 1]

\* Used as a lock, the semaphore lets one thread in at a time, and it is free exactly
\* when nobody has it, although verhogen neither takes the mutex nor locks the bus.
MutualExclusion ==
    /\ \A t, u \in Thread : Holds(t) /\ Holds(u) => t = u
    /\ (\E t \in Thread : Holds(t)) <=> sem = 0
=============================================================================
