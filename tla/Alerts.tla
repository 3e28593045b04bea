-------------------------------- MODULE Alerts --------------------------------
(***************************************************************************)
(* JNP II: the stock service stores new prices and announces them; the     *)
(* consumer thread of the alert service fetches them, records which alerts *)
(* they set off and asks for notifications; the notifier sends mails.      *)
(* Both queues deliver a message once; no_ack leaves none to send again.   *)
(***************************************************************************)
EXTENDS Integers, SequencesExt, FiniteSets

CONSTANTS
    AlertId,
    Price,
    Condition,      \* alert |-> the prices it waits for
    alert_interval,
    MaxTime, MaxQueue, MaxCrashes   \* bounds: the clock, the ticks waiting, the crashes

AlertConstants == alert_interval \in Nat /\ IsFiniteSet(AlertId)

VARIABLES
    now,
    price,              \* the row of StockPriceTick
    ticks,              \* messages in 'threshold-alert'
    alerts,             \* rows of BaseStockAlert
    occurred,           \* alerts with rows of StockAlertOccurrence
    notifications,      \* alert |-> the times of its rows of AlertNotification
    consumer,           \* [pc, data, todo] of the consumer thread
    notificationQueue,
    published, mails,   \* alert |-> how many notifications were published, mails sent
    crashes

alertVars == <<now, price, ticks, alerts, occurred, notifications, consumer,
               notificationQueue, published, mails, crashes>>
tables == <<alerts, occurred, notifications>>
notifier == <<notificationQueue, published, mails>>

Waiting == [pc |-> "wait"]
Dead == [pc |-> "dead"]

Init ==
    /\ now = 0 /\ ticks = 0 /\ crashes = 0
    /\ price \in Price
    /\ alerts = {} /\ occurred = {}
    /\ notifications = [a \in AlertId |-> {}]
    /\ consumer = Waiting
    /\ notificationQueue = << >>
    /\ published = [a \in AlertId |-> 0] /\ mails = [a \in AlertId |-> 0]

Tick == /\ now < MaxTime /\ now' = now + 1
        /\ UNCHANGED <<price, ticks, tables, consumer, notifier, crashes>>

\* obtain_stock_tick: the prices are replaced in one transaction, if the page could be
\* read, and the address of the prices is published in any case.
obtain_stock_tick ==
    /\ ticks < MaxQueue
    /\ price' \in Price /\ ticks' = ticks + 1
    /\ UNCHANGED <<now, tables, consumer, notifier, crashes>>

create_alert(a) ==
    /\ a \notin alerts /\ alerts' = alerts \cup {a}
    /\ UNCHANGED <<now, price, ticks, occurred, notifications, consumer, notifier, crashes>>

\* The foreign keys of the occurrences let only an alert go that never occurred.
delete_alert(a) ==
    /\ a \in alerts \ occurred /\ alerts' = alerts \ {a}
    /\ UNCHANGED <<now, price, ticks, occurred, notifications, consumer, notifier, crashes>>

\* process_tick takes a message and fetches the prices of now; an IOError drops the tick.
process_tick ==
    /\ consumer = Waiting /\ ticks > 0
    /\ ticks' = ticks - 1
    /\ consumer' \in {Waiting, [pc |-> "detect", data |-> price]}
    /\ UNCHANGED <<now, price, tables, notifier, crashes>>

\* get_alerts and the conditions; the occurrences keep the order of the rows.
detect_alert_situations ==
    /\ consumer.pc = "detect"
    /\ \E todo \in SetToSeqs({a \in alerts : consumer.data \in Condition[a]}) :
          consumer' = [pc |-> "save", todo |-> todo]
    /\ UNCHANGED <<now, price, ticks, tables, notifier, crashes>>

\* An occurrence of an alert deleted meanwhile violates its foreign key: the exception
\* ends the thread.
save_alert_occurrences ==
    /\ consumer.pc = "save"
    /\ IF ToSet(consumer.todo) \subseteq alerts
       THEN /\ occurred' = occurred \cup ToSet(consumer.todo)
            /\ consumer' = [consumer EXCEPT !.pc = "notify"]
       ELSE consumer' = Dead /\ UNCHANGED occurred
    /\ UNCHANGED <<now, price, ticks, alerts, notifications, notifier, crashes>>

\* mutant: an interval that has just passed counts
WasRecent(a) == \E t \in notifications[a] : now - t < alert_interval

is_recent(a) == \E t \in notifications[a] :
                    /\ \A s \in notifications[a] : s <= t
                    /\ now - t <= alert_interval

\* One round of the loop of perform_notify: publish ...
notify ==
    /\ consumer.pc = "notify" /\ consumer.todo # << >>
    /\ LET a == Head(consumer.todo) IN
       IF is_recent(a)
       THEN /\ consumer' = [consumer EXCEPT !.todo = Tail(@)]
            /\ UNCHANGED notifier
       ELSE /\ notificationQueue' = Append(notificationQueue, a)
            /\ published' = [published EXCEPT ![a] = @ + 1]
            /\ consumer' = [consumer EXCEPT !.pc = "record"]
            /\ UNCHANGED mails
    /\ UNCHANGED <<now, price, ticks, tables, crashes>>

\* ... and then record it, with the time of the record.
record ==
    /\ consumer.pc = "record"
    /\ notifications' = [notifications EXCEPT ![Head(consumer.todo)] = @ \cup {now}]
    /\ consumer' = [pc |-> "notify", todo |-> Tail(consumer.todo)]
    /\ UNCHANGED <<now, price, ticks, alerts, occurred, notifier, crashes>>

perform_notify_ends ==
    /\ consumer.pc = "notify" /\ consumer.todo = << >>
    /\ consumer' = Waiting
    /\ UNCHANGED <<now, price, ticks, tables, notifier, crashes>>

\* Nothing catches an exception of the database or of RabbitMQ: it ends the thread, and
\* the process goes on without it.
consume_fails ==
    /\ consumer \notin {Waiting, Dead} /\ consumer' = Dead
    /\ UNCHANGED <<now, price, ticks, tables, notifier, crashes>>

\* The process is killed, or only its thread is dead, and it is started again: the ticks
\* it was sent go with it, as no_ack leaves nothing to send again.
Restart ==
    /\ crashes < MaxCrashes /\ crashes' = crashes + 1
    /\ consumer' = Waiting /\ ticks' \in 0 .. ticks
    /\ UNCHANGED <<now, price, tables, notifier>>

\* The notifier: one mail for a message, or none when the user or the mail server fails.
consume ==
    /\ notificationQueue # << >>
    /\ notificationQueue' = Tail(notificationQueue)
    /\ \/ mails' = [mails EXCEPT ![Head(notificationQueue)] = @ + 1]
       \/ UNCHANGED mails
    /\ UNCHANGED <<now, price, ticks, tables, consumer, published, crashes>>

Next == \/ Tick \/ obtain_stock_tick \/ process_tick \/ detect_alert_situations
        \/ save_alert_occurrences \/ notify \/ record \/ perform_notify_ends
        \/ consume_fails \/ Restart \/ consume
        \/ \E a \in AlertId : create_alert(a) \/ delete_alert(a)

Spec == Init /\ [][Next]_alertVars
-----------------------------------------------------------------------------
TypeOK ==
    /\ now \in 0 .. MaxTime /\ price \in Price /\ ticks \in 0 .. MaxQueue
    /\ alerts \cup occurred \subseteq AlertId
    /\ \A a \in AlertId : notifications[a] \subseteq 0 .. MaxTime
    /\ consumer.pc \in {"wait", "dead", "detect", "save", "notify", "record"}

\* Nobody is asked twice within alert_interval: the recorded notifications of an alert
\* are further apart, and every published one is recorded but for one that each restart
\* (or the step in progress, or the dead thread) may leave unrecorded; a mail was published
\* before, and only of an alert that occurred and still exists.
AlertsAreQuiet ==
    \A a \in AlertId :
        /\ \A s, t \in notifications[a] : s < t => t - s > alert_interval
        /\ published[a] <= Cardinality(notifications[a]) + crashes
                           + (IF consumer.pc \in {"record", "dead"} THEN 1 ELSE 0)
        /\ mails[a] <= published[a]
        /\ published[a] > 0 => a \in occurred \cap alerts
=============================================================================
