------------------------------ MODULE HorrorTown ------------------------------
(***************************************************************************)
(* JNP 1, task 4: a town whose monster attacks at hours that are Fibonacci *)
(* numbers.  The hour is of a signed type U, and wraps below zero when it  *)
(* overflows; the Fibonacci numbers are an array computed by the compiler. *)
(***************************************************************************)
EXTENDS Integers, SequencesExt

CONSTANTS
    t0, t1,         \* the first and the last hour
    Limit,          \* std::numeric_limits<U>::max()
    Step,           \* time steps
    Citizens,       \* sequence of [health, attack]; attack 0 of those who are not sheriffs
    Monster         \* [health, attack]


VARIABLES
    _time, _alive,
    _citizens,      \* their health
    _monster,       \* its health
    hour,           \* the hour of the day by the steps that were made
    overflowed      \* a step has gone beyond Limit

vars == <<_time, _alive, _citizens, _monster, hour, overflowed>>

fibonacci[n \in Nat] ==
    IF n = 0 THEN 0 ELSE IF n = 1 THEN 1 ELSE fibonacci[n - 1] + fibonacci[n - 2]
fibLimit(time) == CHOOSE n \in 0 .. time + 1 :
    fibonacci[n] >= time /\ \A m \in 0 .. n - 1 : fibonacci[m] < time

_last == fibLimit(t1)
myFibArray == [i \in 0 .. _last |-> fibonacci[i]]

\* A larger Fibonacci number overflows in a constant expression, which does not compile.
HorrorConstants ==
    /\ t0 \in Nat /\ t1 \in Nat /\ t0 <= t1 /\ Limit \in Nat /\ t1 <= Limit
    /\ fibonacci[_last] <= Limit
    /\ Step \subseteq 0 .. Limit
    /\ Citizens \in Seq([health : Nat, attack : Nat]) /\ Monster \in [health : Nat, attack : Nat]

\* Where the walk through the array stops: a place whose number is not smaller.
_stop(time) ==
    LET A == myFibArray IN
    CHOOSE i \in 0 .. Cardinality(DOMAIN A) :
        /\ i \in DOMAIN A => A[i] >= time
        /\ \A j \in 0 .. i - 1 : j \in DOMAIN A => A[j] < time
_checkIfFib(time) ==
    LET A == myFibArray
        i == _stop(time)
    IN  i \in DOMAIN A /\ A[i] = time

_numberAlive(healths) == Cardinality({i \in DOMAIN healths : healths[i] > 0})
NonNegative(n) == IF n < 0 THEN 0 ELSE n

Init ==
    /\ _time = t0 /\ hour = t0 /\ overflowed = FALSE
    /\ _citizens = [i \in DOMAIN Citizens |-> Citizens[i].health]
    /\ _monster = Monster.health
    /\ _alive = _numberAlive(_citizens)

\* One after the other, also when a sheriff has killed the monster meanwhile.
attack(fight, i) ==
    LET health == NonNegative(fight.citizens[i] - Monster.attack) IN
    IF fight.citizens[i] = 0 THEN fight
    ELSE [citizens |-> [fight.citizens EXCEPT ![i] = health],
          monster |-> NonNegative(fight.monster - Citizens[i].attack),
          alive |-> fight.alive - IF health = 0 THEN 1 ELSE 0]

\* mutant: the hour after an overflow is taken as it comes
Unrepaired(time, step) ==
    IF time + step > Limit THEN time + step - 2 * (Limit + 1) ELSE (time + step) % (t1 + 1)

\* What the hour becomes: after an overflow the steps beyond Limit, otherwise the rest.
advance(time, step) ==
    IF time + step > Limit THEN step - (Limit - time + 1)
    ELSE IF time + step > t1 THEN (time + step) % (t1 + 1) ELSE time + step

\* The verdicts are printed and change nothing; the hour advances in any case.
tick(step) ==
    LET fight == FoldLeft(attack, [citizens |-> _citizens, monster |-> _monster, alive |-> _alive],
                          [i \in DOMAIN Citizens |-> i])
    IN /\ IF _alive > 0 /\ _monster > 0 /\ _checkIfFib(_time)
          THEN _citizens' = fight.citizens /\ _monster' = fight.monster /\ _alive' = fight.alive
          ELSE UNCHANGED <<_citizens, _monster, _alive>>
       /\ _time' = advance(_time, step)
       /\ hour' = (hour + step) % (t1 + 1)
       /\ overflowed' = (overflowed \/ _time + step > Limit)

Next == \E step \in Step : tick(step)

Spec == Init /\ [][Next]_vars
-----------------------------------------------------------------------------
\* The time stays an hour of the day, or _checkIfFib reads behind its array.
TypeOK ==
    /\ _time \in 0 .. t1
    /\ _alive \in 0 .. Len(Citizens)
    /\ _monster \in 0 .. Monster.health

LivingAreCounted == _alive = _numberAlive(_citizens)

FibonacciHours == {fibonacci[n] : n \in 0 .. t1 + 1}

\* The attacks are at the Fibonacci hours of the day and at no others, as long as no step
\* has overflowed; and the walk ends within the array.
AttacksAtFibonacci ==
    /\ _stop(_time) \in DOMAIN myFibArray
    /\ ~overflowed => _checkIfFib(_time) = (hour \in FibonacciHours)
=============================================================================
