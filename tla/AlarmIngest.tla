----------------------------- MODULE AlarmIngest -----------------------------
(***************************************************************************)
(* The alarms of a device. Each report, that an alarm is raised or that it *)
(* is over, takes two ways: over the bridge and Kafka, where the alert     *)
(* consumer handles the reports in order and retries each until it is      *)
(* delivered, and over MQTT, where a callback posts it a few times at      *)
(* most. Both post the same envelope to business-api, which stores the     *)
(* event, projects it on the table alarms and then notifies the owner.     *)
(*                                                                         *)
(* One alarm, that is, one source and code of one device: the transaction  *)
(* locks by these, and nothing joins two of them. An event is known by its *)
(* state and its time in seconds. Consumer and loop are those of           *)
(* IngestConsumer; here they are one loop that may restart. A database     *)
(* that fails is answered with HTTP 200 and an error in the body, which    *)
(* the poster takes for a delivery. The formats of older devices, which    *)
(* end in the same post, and what users do with an alarm are left out.     *)
(***************************************************************************)
EXTENDS Naturals, Sequences, FiniteSets

CONSTANTS
    MaxReports,   \* bound: reports of the device
    MaxMishaps    \* bound: failed transactions, lost answers and restarts, together

ASSUME AlarmAssumption == MaxReports \in Nat /\ MaxMishaps \in Nat

AlarmStates == {"active", "recovered"}
AlarmEvents == [state : AlarmStates, time : 1 .. MaxReports]

VARIABLES
    reports,     \* what the device reported: the partition of Kafka
    handled,     \* reports whose offset the consumer committed
    delivered,   \* the consumer takes the next report for delivered
    marked,      \* the next report has its alert:dedup key
    callbacks,   \* reports that an MQTT callback is posting
    events,      \* device_alarm_events, in the order of their insertion
    rows,        \* the rows of alarms, each with the time of its event
    toNotify,    \* events stored whose notice is not yet written
    notices,     \* notices[e]: how many notices event e has
    swallowed,   \* events whose transaction failed and whose poster was told otherwise
    mishaps      \* failures and restarts so far

stored    == <<events, rows, toNotify>>
routes    == <<reports, handled, delivered, marked, callbacks>>
alarmVars == <<reports, handled, delivered, marked, callbacks, events, rows, toNotify,
               notices, swallowed, mishaps>>

AlarmInit ==
    /\ reports = << >> /\ handled = 0 /\ delivered = FALSE /\ marked = FALSE
    /\ callbacks = {}
    /\ events = << >> /\ rows = << >> /\ toNotify = {} /\ notices = [e \in AlarmEvents |-> 0]
    /\ swallowed = {} /\ mishaps = 0

Holds(seq, x) == \E i \in DOMAIN seq : seq[i] = x
Latest == IF reports = << >> THEN 1 ELSE reports[Len(reports)].time

\* The device reports; two reports may fall into one second.
Report(state, time) ==
    /\ Len(reports) < MaxReports
    /\ time \in {Latest, Latest + 1} \cap (1 .. MaxReports)
    /\ reports' = Append(reports, [state |-> state, time |-> time])
    /\ callbacks' = callbacks \cup {Len(reports')}
    /\ UNCHANGED <<handled, delivered, marked, stored, notices, swallowed, mishaps>>

-----------------------------------------------------------------------------
(* business-api.                                                           *)

IsActive(row) == row.state = "active"

\* An active row takes up a report that is raised; if there is none, a new row does.
Raised(e) ==
    IF \E i \in DOMAIN rows : IsActive(rows[i])
    THEN rows ELSE Append(rows, [state |-> "active", occurred |-> e.time])

\* Mutant: a report that the alarm is over closes rows that occurred before it only.
RecoveredBefore(e) ==
    [i \in DOMAIN rows |->
        IF IsActive(rows[i]) /\ rows[i].occurred < e.time
        THEN [rows[i] EXCEPT !.state = "recovered"] ELSE rows[i]]

\* The rows that occurred no later than the report are over.
Recovered(e) ==
    [i \in DOMAIN rows |->
        IF IsActive(rows[i]) /\ rows[i].occurred <= e.time
        THEN [rows[i] EXCEPT !.state = "recovered"] ELSE rows[i]]

\* Mutant: the projection does not stop at an event that is stored already.
TransactionAlways(e) ==
    /\ events' = Append(events, e)
    /\ rows' = IF e.state = "active" THEN Raised(e) ELSE Recovered(e)
    /\ toNotify' = toNotify \cup {e}

\* IngestAlarm: the event is the barrier against a second delivery.
Transaction(e) ==
    \/ Holds(events, e) /\ UNCHANGED stored
    \/ /\ ~Holds(events, e)
       /\ events' = Append(events, e)
       /\ rows' = IF e.state = "active" THEN Raised(e) ELSE Recovered(e)
       /\ toNotify' = toNotify \cup {e}

\* notifyAlarmV1, after the transaction.
Notify(e) ==
    /\ toNotify' = toNotify \ {e}
    /\ notices' = [notices EXCEPT ![e] = @ + 1]
    /\ UNCHANGED <<routes, events, rows, swallowed, mishaps>>

-----------------------------------------------------------------------------
(* The posts, and what their poster is told.                               *)

\* The event is stored and the post answered.
Delivered(e) == Transaction(e) /\ UNCHANGED <<swallowed, mishaps>>

Mishap == mishaps < MaxMishaps /\ mishaps' = mishaps + 1

\* The transaction fails, and the answer is one of success.
Swallowed(e) == Mishap /\ swallowed' = swallowed \cup {e} /\ UNCHANGED stored

\* No answer, whether the event is stored or not.
NotAnswered(e) == Mishap /\ UNCHANGED swallowed /\ (Transaction(e) \/ UNCHANGED stored)

Pending == handled < Len(reports) /\ ~delivered

\* Mutant: the report counts as delivered after one attempt.
ConsumeOnce ==
    /\ Pending
    /\ LET e == reports[handled + 1] IN
       \/ ~marked /\ (Delivered(e) \/ Swallowed(e) \/ NotAnswered(e))
       \/ marked /\ UNCHANGED <<stored, swallowed, mishaps>>
    /\ delivered' = TRUE /\ marked' = TRUE
    /\ UNCHANGED <<reports, handled, callbacks, notices>>

\* deliverAlert: a report with a key is skipped, one without an answer tried again.
Consume ==
    /\ Pending
    /\ LET e == reports[handled + 1] IN
       \/ /\ \/ ~marked /\ (Delivered(e) \/ Swallowed(e))
             \/ marked /\ UNCHANGED <<stored, swallowed, mishaps>>
          /\ delivered' = TRUE /\ marked' = TRUE
       \/ ~marked /\ NotAnswered(e) /\ UNCHANGED <<delivered, marked>>
    /\ UNCHANGED <<reports, handled, callbacks, notices>>

\* The offset of a delivered report is committed.
Commit ==
    /\ delivered
    /\ handled' = handled + 1 /\ delivered' = FALSE /\ marked' = FALSE
    /\ UNCHANGED <<reports, callbacks, stored, notices, swallowed, mishaps>>

\* HandleMQTTAlarm. A dedup key, which lives for a minute, skips a report that was
\* taken for delivered; one that is stored changes nothing either way.
CallBack(i) ==
    /\ \/ Delivered(reports[i]) \/ Swallowed(reports[i])
       \/ reports[i] \in swallowed /\ UNCHANGED <<stored, swallowed, mishaps>>
    /\ callbacks' = callbacks \ {i}
    /\ UNCHANGED <<reports, handled, delivered, marked, notices>>

\* A post of a callback is not answered: it is tried again, or was the last.
CallBackFails(i) ==
    /\ NotAnswered(reports[i])
    /\ callbacks' = callbacks \/ callbacks' = callbacks \ {i}
    /\ UNCHANGED <<reports, handled, delivered, marked, notices>>

\* The dedup key lives for a minute, and outlives a restart.
MarkExpires ==
    /\ marked /\ marked' = FALSE
    /\ UNCHANGED <<reports, handled, delivered, callbacks, stored, notices, swallowed, mishaps>>

\* A restart of device-communication loses its callbacks and where the consumer
\* was, one of business-api the notices not yet written.
AlarmRestart ==
    /\ Mishap
    /\ \/ callbacks' = {} /\ delivered' = FALSE /\ UNCHANGED toNotify
       \/ toNotify' = {} /\ UNCHANGED <<callbacks, delivered>>
    /\ UNCHANGED <<reports, handled, marked, events, rows, notices, swallowed>>

AlarmNext ==
    \/ \E state \in AlarmStates, time \in 1 .. MaxReports : Report(state, time)
    \/ Consume \/ Commit
    \/ \E i \in callbacks : CallBack(i) \/ CallBackFails(i)
    \/ \E e \in toNotify : Notify(e)
    \/ MarkExpires \/ AlarmRestart

\* The loop of the consumer goes on.
AlarmFairness == WF_alarmVars(Consume \/ Commit)

AlarmSpec == AlarmInit /\ [][AlarmNext]_alarmVars /\ AlarmFairness

-----------------------------------------------------------------------------
\* The values the state can take: the routes, the tables and the notices.
AlarmTypeOK ==
    /\ reports \in Seq(AlarmEvents) /\ handled \in 0 .. Len(reports)
    /\ delivered \in BOOLEAN /\ marked \in BOOLEAN
    /\ callbacks \subseteq DOMAIN reports
    /\ events \in Seq(AlarmEvents)
    /\ rows \in Seq([state : AlarmStates, occurred : 1 .. MaxReports])
    /\ toNotify \subseteq AlarmEvents /\ notices \in [AlarmEvents -> Nat]
    /\ swallowed \subseteq AlarmEvents /\ mishaps \in 0 .. MaxMishaps

\* An event is stored once and its owner is told of it once at most, although both
\* ways deliver it, answers get lost and reports are posted again.
NotifiedOnce ==
    /\ \A e \in AlarmEvents : notices[e] + (IF e \in toNotify THEN 1 ELSE 0) <= 1
    /\ \A i, k \in DOMAIN events : events[i] = events[k] => i = k

StoredInOrder == \A i, k \in DOMAIN events : i < k => events[i].time <= events[k].time
AlarmIsActive == \E i \in DOMAIN rows : IsActive(rows[i])

\* As long as the two ways together store the events in the order of their times,
\* the table shows the alarm as the last event says, with one active row at most.
ShownAsStored ==
    StoredInOrder /\ events # << >> =>
        /\ AlarmIsActive <=> IsActive(events[Len(events)])
        /\ Cardinality({i \in DOMAIN rows : IsActive(rows[i])}) <= 1

Accounted(i) == Holds(events, reports[i]) \/ reports[i] \in swallowed

\* A report is behind the committed offset when it is stored, by whichever way, or its
\* transaction failed and the consumer was told otherwise: neither an answer that is lost
\* nor a restart with a key that outlives it lets the consumer pass over a report.
CommittedIsStored == \A i \in 1 .. handled : Accounted(i)

\* Every report that reached Kafka is stored in the end, or its transaction failed and
\* the consumer was told otherwise; a poster that gets no answer never drops it.
ReportsAreStored ==
    []<>(\A i \in DOMAIN reports : Accounted(i))
=============================================================================
