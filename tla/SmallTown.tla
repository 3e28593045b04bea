------------------------------ MODULE SmallTown ------------------------------
(***************************************************************************)
(* JNP 1, task 6: towns attacked by monsters.  Towns count their living    *)
(* citizens once and then keep count; citizens and monsters are shared     *)
(* pointers, so they may be in several towns, and a monster several times  *)
(* in a group.                                                             *)
(***************************************************************************)
EXTENDS Integers, SequencesExt

CONSTANTS
    Town, Citizen, Monster,
    Power,          \* attack power of the monsters and sheriffs, 0 of other citizens
    Health,         \* at the beginning, of citizens and monsters
    Time,           \* start times
    Clock,          \* the last hour
    Step,           \* time steps
    NONE

\* The living as counted, the hour, and who attacks whom.
Place == [alive : Int, time : Int, attacker : Seq(Monster), citizens : Seq(Citizen)]

\* types::HealthPoints and AttackPower are ints of which negative ones make no sense.
TownConstants ==
    /\ Citizen \cap Monster = {}
    /\ Power \in [Citizen \cup Monster -> Nat]
    /\ Health \in [Citizen \cup Monster -> Nat]
    /\ Clock \in Nat /\ Time \subseteq Nat /\ Step \subseteq Nat
    /\ NONE \notin {"MONSTER WON", "DRAW", "CITIZENS WON"} /\ NONE \notin Place

VARIABLES
    town,           \* [alive, time, attacker, citizens], NONE before it is built
    health,         \* of citizens and monsters
    said            \* what a tick printed last: [town, verdict]

townVars == <<town, health, said>>

Init ==
    /\ town = [t \in Town |-> NONE]
    /\ health = Health
    /\ said = NONE

NonNegative(n) == IF n < 0 THEN 0 ELSE n
Alive(h, s) == {i \in DOMAIN s : h[s[i]] > 0}
Living(s) == Cardinality(Alive(health, s))

\* A single monster is a group of one.
groupHealth(h, group) == SumFunction([i \in DOMAIN group |-> h[group[i]]])
groupPower(h, group) ==
    SumFunction([i \in DOMAIN group |-> IF h[group[i]] > 0 THEN Power[group[i]] ELSE 0])
Hit(h, x, damage) == [h EXCEPT ![x] = NonNegative(h[x] - damage)]
takeDamage(h, group, damage) == FoldLeft(LAMBDA g, m : Hit(g, m, damage), h, group)

\* Builder::citizen drops those it has.
Added(calls) ==
    FoldLeft(LAMBDA s, c : IF Contains(s, c) THEN s ELSE Append(s, c), << >>, calls)

build(t, calls, group, start) ==
    /\ town[t] = NONE
    /\ calls # << >>
    /\ town' = [town EXCEPT ![t] =
                   [alive |-> Living(Added(calls)), time |-> start,
                    attacker |-> group, citizens |-> Added(calls)]]
    /\ UNCHANGED <<health, said>>

\* Of the monsters a_ and the citizens c_, when not both are alive.
Verdict(a_, c_) ==
    IF a_ THEN IF c_ THEN NONE ELSE "MONSTER WON"
    ELSE IF c_ THEN "CITIZENS WON" ELSE "DRAW"

attackTime(time) == time % 7 # 0 /\ (time % 3 = 0 \/ time % 13 = 0)

\* mutant: a citizen who dies as he kills the last monster is not counted
LastBlow(group, r, c) ==
    LET hit == Hit(r.health, c, groupPower(r.health, group))
        after == takeDamage(hit, group, Power[c])
    IN IF groupHealth(r.health, group) = 0 \/ r.health[c] = 0 THEN r
       ELSE [health |-> after,
             killed |-> r.killed + IF hit[c] = 0 /\ groupHealth(after, group) > 0 THEN 1 ELSE 0]

\* A citizen alive is hit, and strikes back, were it his last; nothing when all monsters
\* are dead, or he is.
attack(group, r, c) ==
    LET hit == Hit(r.health, c, groupPower(r.health, group))
    IN IF groupHealth(r.health, group) = 0 \/ r.health[c] = 0 THEN r
       ELSE [health |-> takeDamage(hit, group, Power[c]),
             killed |-> r.killed + IF hit[c] = 0 THEN 1 ELSE 0]

tick(t, step) ==
    LET place == town[t]
        verdict == Verdict(groupHealth(health, place.attacker) > 0, place.alive > 0)
        fight == IF attackTime(place.time)
                 THEN FoldLeft(LAMBDA r, c : attack(place.attacker, r, c),
                               [health |-> health, killed |-> 0], place.citizens)
                 ELSE [health |-> health, killed |-> 0]
    IN /\ place # NONE
       /\ \/ /\ verdict # NONE
             /\ said' = [town |-> t, verdict |-> verdict]
             /\ UNCHANGED <<town, health>>
          \/ /\ verdict = NONE
             /\ health' = fight.health
             /\ town' = [town EXCEPT ![t].alive = @ - fight.killed,
                                     ![t].time = (@ + step) % (Clock + 1)]
             /\ UNCHANGED said

Next ==
    \/ \E t \in Town, calls \in BoundedSeq(Citizen, 3), group \in BoundedSeq(Monster, 2),
          start \in Time : build(t, calls, group, start)
    \/ \E t \in Town, step \in Step : tick(t, step)

Spec == Init /\ [][Next]_townVars
-----------------------------------------------------------------------------
Built == {t \in Town : town[t] # NONE}
TypeOK ==
    /\ health \in [Citizen \cup Monster -> Nat]
    /\ \A x \in DOMAIN health : health[x] <= Health[x]
    /\ \A t \in Built : town[t].alive \in 0 .. Cardinality(Citizen)
                        /\ town[t].time \in Time \cup 0 .. Clock

Own(t) == \A u \in Built \ {t} : ToSet(town[u].citizens) \cap ToSet(town[t].citizens) = {}

\* A town that shares no citizen counts the living right, whatever other towns do to its
\* monsters; one that does may count too many, never too few, so the unsigned counter does
\* not wrap.
LivingAreCounted ==
    \A t \in Built : /\ town[t].alive >= Living(town[t].citizens)
                     /\ Own(t) => town[t].alive = Living(town[t].citizens)

\* A verdict, once printed, stays true: nobody rises, and the dead do not fight.
VerdictsHold ==
    said # NONE /\ Own(said.town) =>
        LET t == town[said.town] IN
        /\ said.verdict \in {"MONSTER WON", "DRAW"} => Living(t.citizens) = 0
        /\ said.verdict \in {"CITIZENS WON", "DRAW"} => groupHealth(health, t.attacker) = 0
        /\ said.verdict = "CITIZENS WON" => Living(t.citizens) > 0
=============================================================================
