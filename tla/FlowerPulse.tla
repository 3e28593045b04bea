----------------------------- MODULE FlowerPulse -----------------------------
(***************************************************************************)
(* Kwiatek: the page of a browser (App.js).  FlowerPulse fetches the       *)
(* series of the selected flower on every selection and every five         *)
(* seconds, and takes what comes whenever it comes.  What is drawn is      *)
(* another matter: a FlowerChart keeps the data it was constructed with    *)
(* and is constructed anew only after the selection was cleared.           *)
(* AlarmManager lists the alarms after each one it sends.  Answers may     *)
(* overtake one another.                                                   *)
(***************************************************************************)
EXTENDS Integers, SequencesExt

CONSTANTS
    Flower,
    Kind,           \* temperature, moisture, light
    NONE,           \* null and undefined
    MaxPoints,      \* bound: measurements of a kind of a flower
    MaxFetches,     \* bound: series asked for at the same time
    MaxAlarms       \* bound

VARIABLES
    points,         \* the server: how many measurements there are
    selection,
    fetches,        \* asked for: [kind, flower, since], the points when it was asked
    shown,          \* this.state.temperature, .moisture, .light
    chart,          \* what is drawn: the state of the FlowerChart
    asked,          \* history: the flowers asked for since the charts last went,
                    \* or whose answers were on their way then
    alarms,         \* the server
    posts,          \* alarms being sent
    lists,          \* lists of alarms asked for: how many alarms there were
    listed,         \* this.state.alarms
    disturbed       \* a list was lost, or came after one asked for later

pulse == <<points, selection, fetches, shown, chart, asked>>
manager == <<alarms, posts, lists, listed, disturbed>>
pulseVars == <<pulse, manager>>

Nothing == [k \in Kind |-> NONE]

Init ==
    /\ points = [f \in Flower |-> [k \in Kind |-> 0]]
    /\ selection = NONE /\ fetches = << >> /\ shown = Nothing /\ chart = Nothing
    /\ asked = {}
    /\ alarms = 0 /\ posts = 0 /\ lists = <<0>> /\ listed = 0 /\ disturbed = FALSE

Series(f, k) == [kind |-> k, flower |-> f, since |-> points[f][k]]

\* mutant: what is there stays when nothing is selected
KeepsCharts(f) ==
    /\ fetches' = fetches \o SetToSeq({Series(f, k) : k \in IF f = NONE THEN {} ELSE Kind})
    /\ asked' = asked \cup ({f} \ {NONE})
    /\ UNCHANGED <<shown, chart>>

\* Without a selection the charts go, and with them the state of the FlowerCharts.
obtainFlowerData(f) ==
    \/ /\ f # NONE
       /\ Len(fetches) + Cardinality(Kind) <= MaxFetches
       /\ fetches' = fetches \o SetToSeq({Series(f, k) : k \in Kind})
       /\ asked' = asked \cup {f}
       /\ UNCHANGED <<shown, chart>>
    \/ /\ f = NONE
       /\ shown' = Nothing /\ chart' = Nothing
       /\ asked' = {fetches[i].flower : i \in DOMAIN fetches}
       /\ UNCHANGED fetches

handleSelection(f) ==
    /\ selection' = f
    /\ obtainFlowerData(f)
    /\ UNCHANGED <<points, manager>>

\* setInterval
Refresh ==
    /\ obtainFlowerData(selection)
    /\ UNCHANGED <<points, selection, manager>>

\* The answer was worked out at some time since it was asked for.  An empty one changes
\* nothing; a chart that is there keeps the data it was constructed with.
receiveSeries(i) ==
    /\ i \in DOMAIN fetches
    /\ fetches' = RemoveAt(fetches, i)
    /\ LET answer == fetches[i]
           k == answer.kind
       IN \E n \in answer.since .. points[answer.flower][k] :
             IF n = 0 THEN UNCHANGED <<shown, chart>>
             ELSE LET data == [flower |-> answer.flower, points |-> n] IN
                  /\ shown' = [shown EXCEPT ![k] = data]
                  /\ chart' = [chart EXCEPT ![k] = IF @ = NONE THEN data ELSE @]
    /\ UNCHANGED <<points, selection, asked, manager>>

FetchFails(i) ==
    /\ i \in DOMAIN fetches
    /\ fetches' = RemoveAt(fetches, i)
    /\ UNCHANGED <<points, selection, shown, chart, asked, manager>>

Measurement(f, k) ==
    /\ points[f][k] < MaxPoints
    /\ points' = [points EXCEPT ![f][k] = @ + 1]
    /\ UNCHANGED <<selection, fetches, shown, chart, asked, manager>>

sendAlarm ==
    /\ alarms + posts < MaxAlarms
    /\ posts' = posts + 1
    /\ UNCHANGED <<pulse, alarms, lists, listed, disturbed>>

\* The alarm is stored and answered; only then is the list asked for.
AlarmSent ==
    /\ posts > 0
    /\ posts' = posts - 1 /\ alarms' = alarms + 1
    /\ lists' = Append(lists, alarms')
    /\ UNCHANGED <<pulse, listed, disturbed>>

receiveAlarms(i) ==
    /\ i \in DOMAIN lists
    /\ lists' = RemoveAt(lists, i)
    /\ listed' \in lists[i] .. alarms
    /\ disturbed' = (disturbed \/ i > 1)
    /\ UNCHANGED <<pulse, alarms, posts>>

ListFails(i) ==
    /\ i \in DOMAIN lists
    /\ lists' = RemoveAt(lists, i)
    /\ disturbed' = TRUE
    /\ UNCHANGED <<pulse, alarms, posts, listed>>

Next ==
    \/ \E f \in Flower \cup {NONE} : handleSelection(f)
    \/ Refresh
    \/ \E i \in 1 .. MaxFetches : receiveSeries(i) \/ FetchFails(i)
    \/ \E f \in Flower, k \in Kind : Measurement(f, k)
    \/ sendAlarm \/ AlarmSent
    \/ \E i \in 1 .. MaxAlarms + 1 : receiveAlarms(i) \/ ListFails(i)

\* The interval keeps coming.  Every fetch ends, and not every one of the selected
\* flower fails.
Fairness ==
    /\ WF_pulseVars(Refresh)
    /\ WF_pulseVars(receiveSeries(1) \/ FetchFails(1))
    /\ \A f \in Flower, k \in Kind :
          SF_pulseVars(\E i \in 1 .. MaxFetches :
              i \in DOMAIN fetches /\ fetches[i].flower = f /\ fetches[i].kind = k
              /\ receiveSeries(i))

Spec == Init /\ [][Next]_pulseVars /\ Fairness
-----------------------------------------------------------------------------
Data(f, n) == [flower : f, points : 1 .. n]
TypeOK ==
    /\ points \in [Flower -> [Kind -> 0 .. MaxPoints]]
    /\ selection \in Flower \cup {NONE}
    /\ asked \subseteq Flower
    /\ \A i \in DOMAIN fetches : fetches[i].since <= points[fetches[i].flower][fetches[i].kind]
    /\ \A k \in Kind : (shown[k] = NONE) = (chart[k] = NONE)
    /\ {shown[k] : k \in Kind} \ {NONE} \subseteq Data(Flower, MaxPoints)
    /\ listed <= alarms /\ alarms + posts <= MaxAlarms

\* With every request answered, the list has every alarm, unless a list was lost or
\* overtaken by another: nothing asks for it again.
AlarmsListed == lists = << >> /\ posts = 0 /\ ~disturbed => listed = alarms

\* However late the answers for flowers selected before: when the selection stays, the
\* data of the page end up being those of the selected flower, in each series it has.
\* What is drawn is this flower only if no other was asked for since the charts last
\* went: a chart of another flower stays, as App.js:14 copies its data once, until the
\* selection is cleared.  With nothing selected nothing is drawn in the end.
SelectionPrevails ==
    \A k \in Kind :
        /\ \A f \in Flower :
              LET stays == selection = f /\ points[f][k] > 0 IN
              /\ <>[]stays => <>[](shown[k] # NONE /\ shown[k].flower = f)
              /\ <>[](stays /\ asked = {f}) => <>[](chart[k] # NONE /\ chart[k].flower = f)
        /\ <>[](selection = NONE) => <>[](shown[k] = NONE /\ chart[k] = NONE)
=============================================================================
