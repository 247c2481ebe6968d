----------------------------- MODULE OtaUpgrade -----------------------------
(***************************************************************************)
(* Firmware delivery in business-api: the tables device_upgrades and       *)
(* upgrade_tasks, the request handlers and timers that write them, and the *)
(* devices that run the commands and report back.                          *)
(*                                                                         *)
(* The database executes one statement at a time, so a statement is one    *)
(* step. A handler that reads, decides and then writes is several steps:   *)
(* what it has read and not yet written is an element of sends (a copy of  *)
(* SendUpgradeCommand at work) or of work (any other continuation), which  *)
(* a restart of the server loses. A message may be lost (its step is never *)
(* taken), late, repeated or out of order (its step stays enabled).        *)
(*                                                                         *)
(* Upgrades are numbered by their place in the delivery queue, that is by  *)
(* (created_at, id). Ages are abstracted: a minute since the last dispatch,*)
(* five minutes since the start and thirty since the last write to a task  *)
(* may have passed at any time; only the silence of a device is recorded.  *)
(***************************************************************************)
EXTENDS Integers, FiniteSets

CONSTANTS
    Upgrades,       \* rows of device_upgrades, as numbers in queue order
    Devices,        \* device serial numbers
    Tasks,          \* rows of upgrade_tasks
    DeviceOf,       \* DeviceOf[u]: column device_sn
    ChipOf,         \* ChipOf[u]: column target_chip
    TaskOf,         \* TaskOf[u]: column task_id
    AppTasks,       \* tasks of the App's independent flow: one upgrade each
    ScheduledTasks, \* tasks whose execute_mode is scheduled
    LegacyDevices,  \* devices whose firmware does not echo the task token
    MaxAttempt,     \* bound on retry_count
    MaxSends,       \* bound on concurrent copies of SendUpgradeCommand
    MaxWork         \* bound on other concurrent continuations

ASSUME OtaAssumption ==
    /\ Upgrades \subseteq Nat
    /\ DeviceOf \in [Upgrades -> Devices]
    /\ TaskOf \in [Upgrades -> Tasks]
    /\ AppTasks \subseteq Tasks
    /\ ScheduledTasks \subseteq Tasks \ AppTasks
    /\ \A u, v \in Upgrades : TaskOf[u] = TaskOf[v] /\ TaskOf[u] \in AppTasks => u = v
    /\ MaxAttempt \in Nat

VARIABLES
    status,       \* status[u]: device_upgrades.status, "none" before the insert
    attempt,      \* attempt[u]: retry_count
    dispatched,   \* dispatched[u]: last_dispatched_at is not NULL
    fresh,        \* fresh[u]: u is upgrading and was reported on within the silence
                  \* window (updated_at)
    taskStatus,   \* taskStatus[t]: upgrade_tasks.status, "none" before the insert
    online,       \* devices whose status column says online
    sent,         \* command tokens <<u, k>> handed to the device server
    outcome,      \* outcome[<<u, k>>]: how the device ended that command
    sends,        \* copies of SendUpgradeCommand: <<stage, u, k>>
    work          \* other continuations: <<operation, upgrade or task, argument>>

rows == <<status, attempt, dispatched, fresh>>
vars == <<status, attempt, dispatched, fresh, taskStatus, online, sent, outcome,
          sends, work>>

Attempts == 0 .. MaxAttempt
Tokens   == Upgrades \X Attempts          \* OTACommandTaskID: "id" or "id-rN"
Terminal == {"success", "failed", "cancelled"}
Statuses == Terminal \cup {"none", "pending", "upgrading"}
TaskEnds == {"completed", "partial_success", "failed", "cancelled"}
TaskStatuses == TaskEnds \cup {"none", "pending", "scheduled", "running", "deleted"}
Outcomes == Terminal \cup {"none"}

\* The stages of SendUpgradeCommand, and the operations left half done.
Stages     == {"claim", "post"}
UpgradeOps == {"insert", "sweep", "expire", "settle", "reconcile"}
TaskOps    == {"due", "abort", "execute", "start", "rerun", "tally", "close",
               "failRows", "cancelRows", "delete"}
Args       == Statuses \cup TaskStatuses \cup {"-", "report", "cleanup", "sync"}
WorkItems  == (UpgradeOps \X Upgrades \X Args) \cup (TaskOps \X Tasks \X Args)

RowsOf(t)   == {u \in Upgrades : TaskOf[u] = t /\ status[u] # "none"}
Siblings(u) == {v \in Upgrades : DeviceOf[v] = DeviceOf[u]}
Set(f, S, v) == [x \in DOMAIN f |-> IF x \in S THEN v ELSE f[x]]
Put(t, st)  == IF taskStatus[t] = "deleted" THEN taskStatus
               ELSE [taskStatus EXCEPT ![t] = st]
\* Upgrades are closed with status st.
EndAsTimeout(S, st) == status' = Set(status, S, "timeout") /\ fresh' = Set(fresh, S, FALSE)
End(S, st)  == /\ status' = Set(status, S, st)
               /\ fresh' = Set(fresh, S, FALSE)
Room(new)   == Cardinality(work \cup new) <= MaxWork
SendRoom(new) == Cardinality(sends \cup new) <= MaxSends

\* The upgrades with a successful command behind them: their own, or one that
\* the server cannot tell from it. Without tokens it cannot tell the upgrades of
\* a device apart; from a version that changed, not those of the same chip.
Concerns(tok, u) == \/ tok[1] = u
                    \/ /\ tok[1] \in Siblings(u)
                       /\ DeviceOf[u] \in LegacyDevices \/ ChipOf[tok[1]] = ChipOf[u]
Installed == {u \in Upgrades : \E tok \in Tokens :
                 Concerns(tok, u) /\ outcome[tok] = "success"}

-----------------------------------------------------------------------------
(* The delivery queue (pendingDeliveryCondition).                           *)

\* An owning task that can still make progress.
Live(t) == taskStatus[t] \in {"pending", "scheduled", "running"}

\* Another upgrade of the same device is in flight.
BusyNever(u) == FALSE
Busy(u) == \E v \in Siblings(u) : status[v] = "upgrading" /\ Live(TaskOf[v])

Deliverable(u) == status[u] = "pending" /\ taskStatus[TaskOf[u]] = "running" /\ ~Busy(u)

\* The oldest deliverable upgrade of its device.
Head(u) == Deliverable(u) /\ \A v \in Siblings(u) : Deliverable(v) => u <= v

\* The jobs that send the commands of the upgrades in S.
Jobs(S) == {<<"claim", u, attempt[u]>> : u \in S}

-----------------------------------------------------------------------------
Init ==
    /\ status = [u \in Upgrades |-> "none"]
    /\ attempt = [u \in Upgrades |-> 0]
    /\ dispatched = [u \in Upgrades |-> FALSE]
    /\ fresh = [u \in Upgrades |-> FALSE]
    /\ taskStatus = [t \in Tasks |-> "none"]
    /\ online = Devices
    /\ sent = {}
    /\ outcome = [tok \in Tokens |-> "none"]
    /\ sends = {}
    /\ work = {}

(* Creation. *)

\* An upgrade that is inserted later than those of its device is the newest.
Newest(d, S) == \A u \in S, v \in Upgrades :
                   DeviceOf[v] = d /\ status[v] # "none" => v < u

\* CreateIndependentFirmwareTasks: one transaction inserts a running task and a
\* pending upgrade per firmware; the device must be online. Requests for one
\* device may overlap, and then the rows need not be the newest, or be in order.
CreateIndependent(d, S, inOrder) ==
    /\ S # {} /\ d \in online
    /\ \A u \in S : DeviceOf[u] = d /\ TaskOf[u] \in AppTasks /\ status[u] = "none"
    /\ inOrder => Newest(d, S)
    /\ status' = Set(status, S, "pending")
    /\ taskStatus' = Set(taskStatus, {TaskOf[u] : u \in S}, "running")
    /\ UNCHANGED <<attempt, dispatched, fresh, online, sent, outcome, sends, work>>

\* CreateUpgradeTask: the task is inserted with its number of devices ...
CreateTask(t) ==
    /\ t \notin AppTasks /\ taskStatus[t] = "none"
    /\ taskStatus' = [taskStatus EXCEPT
          ![t] = IF t \in ScheduledTasks THEN "scheduled" ELSE "pending"]
    /\ work' = work \cup {<<"insert", u, "-">> : u \in {v \in Upgrades : TaskOf[v] = t}}
    /\ UNCHANGED <<rows, online, sent, outcome, sends>>

\* ... and then its upgrades, each by a statement of its own.
InsertRow(u) ==
    /\ <<"insert", u, "-">> \in work
    /\ status' = [status EXCEPT ![u] = "pending"]
    /\ work' = work \ {<<"insert", u, "-">>}
    /\ UNCHANGED <<attempt, dispatched, fresh, taskStatus, online, sent, outcome, sends>>

(* SendUpgradeCommand, from each of its callers to the device server. *)

\* dispatchHeadPending: every 30 seconds for each online device, and after a
\* trigger or a rejection, which do not ask whether the device is online.
DispatchHead(d) ==
    /\ \E u \in Upgrades :
          /\ DeviceOf[u] = d /\ Head(u)
          /\ sends' = sends \cup Jobs({u})
    /\ UNCHANGED <<rows, taskStatus, online, sent, outcome, work>>

\* ResendPendingUpgradeCommand does not look at the queue, only at the status.
Resend(u) ==
    /\ status[u] = "pending" /\ SendRoom(Jobs({u}))
    /\ sends' = sends \cup Jobs({u})
    /\ UNCHANGED <<rows, taskStatus, online, sent, outcome, work>>

\* The firmware, the hardware snapshot or the URL is refused: the upgrade is
\* failed by its id alone, and its task is brought up to date.
SendReject(u, k) ==
    LET next == {<<"tally", TaskOf[u], "sync">>}
    IN /\ <<"claim", u, k>> \in sends
       /\ Room(next)
       /\ End({u}, "failed")
       /\ work' = work \cup next
       /\ sends' = sends \ {<<"claim", u, k>>}
       /\ UNCHANGED <<attempt, dispatched, taskStatus, online, sent, outcome>>

\* ClaimUpgradeDelivery: only the head of the queue, at the attempt this copy
\* was started for, on an online device.
Claimable(u, k) == Head(u) /\ attempt[u] = k /\ DeviceOf[u] \in online

\* The claim is won; a row dispatched before is claimed again after a minute.
SendClaim(u, k) ==
    /\ <<"claim", u, k>> \in sends
    /\ Claimable(u, k)
    /\ dispatched' = [dispatched EXCEPT ![u] = TRUE]
    /\ sends' = (sends \ {<<"claim", u, k>>}) \cup {<<"post", u, k>>}
    /\ UNCHANGED <<status, attempt, fresh, taskStatus, online, sent, outcome, work>>

\* Nothing is sent: the device is offline (asked before the claim, and by it),
\* the row is not at the head any more, is at another attempt, or is throttled.
SendGiveUp(u, k) ==
    /\ <<"claim", u, k>> \in sends
    /\ ~Claimable(u, k) \/ dispatched[u]
    /\ sends' = sends \ {<<"claim", u, k>>}
    /\ UNCHANGED <<rows, taskStatus, online, sent, outcome, work>>

\* The POST to the device server arrives, or is lost.
SendPost(u, k) ==
    /\ <<"post", u, k>> \in sends
    /\ sends' = sends \ {<<"post", u, k>>}
    /\ sent' \in {sent, sent \cup {<<u, k>>}}
    /\ UNCHANGED <<rows, taskStatus, online, outcome, work>>

(* The devices, and the messages they send. *)

\* A device ends the command it received, once.
DeviceEnds(u, k, o) ==
    /\ <<u, k>> \in sent /\ outcome[<<u, k>>] = "none"
    /\ outcome' = [outcome EXCEPT ![<<u, k>>] = o]
    /\ UNCHANGED <<rows, taskStatus, online, sent, sends, work>>

\* The command tokens a message about attempt k of u may come from. A device
\* that echoes the token speaks of that attempt only. Without a token the server
\* picks an upgrade of the device at attempt 0 (the latest written one).
OriginsAnyAttempt(u, k) == {tok \in sent : tok[1] = u}
Origins(u, k) ==
    IF DeviceOf[u] \in LegacyDevices
    THEN {tok \in sent : k = 0 /\ tok[1] \in Siblings(u)}
    ELSE sent \cap {<<u, k>>}

\* OTACmdAck: a pending upgrade is now running on the device.
Ack(u, k) ==
    /\ Origins(u, k) # {}
    /\ status[u] = "pending" /\ attempt[u] = k
    /\ status' = [status EXCEPT ![u] = "upgrading"]
    /\ fresh' = [fresh EXCEPT ![u] = TRUE]
    /\ UNCHANGED <<attempt, dispatched, taskStatus, online, sent, outcome, sends, work>>

\* What a device may say after the outcome o of a command (mapDeviceOTAStatus):
\* progress words at any time, since they may be late, and how it ended.
MappedAnything(o) == {"upgrading", "success", "failed", "cancelled"}
Mapped(o) == {"upgrading"} \cup ({o} \ {"none"})

\* OTAStatus: the row is updated unless it is closed or at another attempt, and
\* every result but a cancellation starts the background part of the handler.
Report(u, k, st) ==
    LET next == IF st = "cancelled" THEN {} ELSE {<<"sweep", u, st>>}
    IN /\ \E tok \in Origins(u, k) : st \in Mapped(outcome[tok])
       /\ status[u] \in {"pending", "upgrading"} /\ attempt[u] = k
       /\ Room(next)
       /\ status' = [status EXCEPT ![u] = st]
       /\ fresh' = [fresh EXCEPT ![u] = st = "upgrading"]
       /\ work' = work \cup next
       /\ UNCHANGED <<attempt, dispatched, taskStatus, online, sent, outcome, sends>>

(* The background part of OTAStatus. *)

\* It first reads the stale upgrades of the device ...
Sweep(u, st) ==
    LET me == <<"sweep", u, st>>
        stale == {v \in Siblings(u) : status[v] = "upgrading" /\ ~fresh[v]}
        next == {<<"expire", v, "-">> : v \in stale} \cup {<<"settle", u, st>>}
    IN /\ me \in work
       /\ work' = (work \ {me}) \cup next
       /\ UNCHANGED <<rows, taskStatus, online, sent, outcome, sends>>

\* ... then fails each of them by its id alone ...
Expire(v) ==
    LET me == <<"expire", v, "-">>
    IN /\ me \in work
       /\ End({v}, "failed")
       /\ work' = (work \ {me}) \cup {<<"tally", TaskOf[v], "report">>}
       /\ UNCHANGED <<attempt, dispatched, taskStatus, online, sent, outcome, sends>>

\* ... then reads the task of the reported upgrade, to start it and, after a
\* final report, to close it.
Settle(u, st) ==
    LET me == <<"settle", u, st>>
        t == TaskOf[u]
        start == IF taskStatus[t] \in {"pending", "scheduled"}
                 THEN {<<"start", t, "-">>} ELSE {}
        tally == IF st \in {"success", "failed"} THEN {<<"tally", t, "report">>} ELSE {}
    IN /\ me \in work
       /\ \A v \in Siblings(u) : <<"expire", v, "-">> \notin work
       /\ work' = (work \ {me}) \cup start \cup tally
       /\ UNCHANGED <<rows, taskStatus, online, sent, outcome, sends>>

\* UpdateUpgradeTaskStatus to running, after a decision op made earlier.
Run(t, op) ==
    /\ <<op, t, "-">> \in work
    /\ taskStatus' = Put(t, "running")
    /\ work' = work \ {<<op, t, "-">>}
    /\ UNCHANGED <<rows, online, sent, outcome, sends>>

(* Closing a task. *)

Count(t, st) == Cardinality({u \in RowsOf(t) : status[u] = st})

\* The status each of the three bookkeepers wants for task t, none when the
\* task is not over: OTAStatus, runOTATimeoutCleanup and syncUpgradeTaskStatus.
\* The first two compare with total_devices, the third looks at the rows.
Verdict(t, how) ==
    LET total == Cardinality({u \in Upgrades : TaskOf[u] = t})
        ok == Count(t, "success")
        bad == Count(t, "failed")
        open == \E u \in RowsOf(t) : status[u] \in {"pending", "upgrading"}
        over == IF how = "sync" THEN ~open ELSE ok + bad >= total
        verdict == IF how = "report"
                   THEN IF ok = total THEN "completed"
                        ELSE IF bad = total THEN "failed" ELSE "partial_success"
                   ELSE IF bad > 0 THEN "partial_success" ELSE "completed"
    IN IF over /\ taskStatus[t] # "deleted" THEN {verdict} ELSE {}

\* The counts are recomputed and read, and the verdict taken from them ...
Tally(t, how) ==
    LET me == <<"tally", t, how>>
    IN /\ me \in work
       /\ <<"start", t, "-">> \notin work
       /\ work' = (work \ {me}) \cup {<<"close", t, v>> : v \in Verdict(t, how)}
       /\ UNCHANGED <<rows, taskStatus, online, sent, outcome, sends>>

\* ... and the task is then set to it, whatever it has become meanwhile.
Close(t, v) ==
    /\ <<"close", t, v>> \in work
    /\ taskStatus' = Put(t, v)
    /\ work' = work \ {<<"close", t, v>>}
    /\ UNCHANGED <<rows, online, sent, outcome, sends>>

(* Device information (reconcileOTAStatus). *)

\* A device that boots reports its versions: the target version, or any other
\* than the one it had, means success; the old one, or none, means failure once
\* five minutes have passed since the start. The chip has a new version only if
\* an upgrade of that chip was installed.
Reconcile(u) ==
    LET changed == \E tok \in Tokens : /\ tok[1] \in Siblings(u) /\ ChipOf[tok[1]] = ChipOf[u]
                                       /\ outcome[tok] = "success"
    IN /\ status[u] = "upgrading"
       /\ \E v \in IF changed THEN {"success", "failed"} ELSE {"failed"} :
             /\ Room({<<"reconcile", u, v>>})
             /\ work' = work \cup {<<"reconcile", u, v>>}
       /\ UNCHANGED <<rows, taskStatus, online, sent, outcome, sends>>

\* ReconcileUpgradeStatusByID writes only an upgrade that is still running.
ReconcileWrite(u, v) ==
    LET me == <<"reconcile", u, v>>
        hit == status[u] = "upgrading"
    IN /\ me \in work
       /\ End(IF hit THEN {u} ELSE {}, v)
       /\ work' = (work \ {me}) \cup (IF hit THEN {<<"tally", TaskOf[u], "sync">>} ELSE {})
       /\ UNCHANGED <<attempt, dispatched, taskStatus, online, sent, outcome, sends>>

(* Timers. *)

\* The silence window of an upgrade runs out.
Silence(u) ==
    /\ status[u] = "upgrading" /\ fresh[u]
    /\ fresh' = [fresh EXCEPT ![u] = FALSE]
    /\ UNCHANGED <<status, attempt, dispatched, taskStatus, online, sent, outcome, sends, work>>

\* runOTATimeoutCleanup: one statement fails every silent upgrade.
FailStale ==
    LET stale == {u \in Upgrades : status[u] = "upgrading" /\ ~fresh[u]}
        next == {<<"tally", TaskOf[u], "cleanup">> : u \in stale}
    IN /\ stale # {}
       /\ Room(next)
       /\ End(stale, "failed")
       /\ work' = work \cup next
       /\ UNCHANGED <<attempt, dispatched, taskStatus, online, sent, outcome, sends>>

\* MarkTimedOutUpgradeTasks: the task is failed, unless it has an upgrade that
\* was never dispatched ...
TimesOutPending(t) == taskStatus[t] = "pending"
TimesOut(t) == /\ taskStatus[t] \in {"pending", "running"}
               /\ \A u \in RowsOf(t) : status[u] = "pending" => dispatched[u]

TaskTimeout(t) ==
    /\ TimesOut(t)
    /\ taskStatus' = [taskStatus EXCEPT ![t] = "failed"]
    /\ work' = work \cup {<<"failRows", t, "-">>}
    /\ UNCHANGED <<rows, online, sent, outcome, sends>>

\* ... and a second statement fails its open upgrades.
FailRows(t) ==
    LET me == <<"failRows", t, "-">>
        open == {u \in RowsOf(t) : status[u] \in {"pending", "upgrading"}}
    IN /\ me \in work
       /\ End(open, "failed")
       /\ work' = work \ {me}
       /\ UNCHANGED <<attempt, dispatched, taskStatus, online, sent, outcome, sends>>

(* Administration. *)

\* The scheduler claims a due task, or one it left pending, to execute it.
SchedulerClaim(t) ==
    LET next == {<<"due", t, "-">>}
    IN /\ t \in ScheduledTasks /\ taskStatus[t] \in {"scheduled", "pending"}
       /\ Room(next)
       /\ taskStatus' = [taskStatus EXCEPT ![t] = "pending"]
       /\ work' = work \cup next
       /\ UNCHANGED <<rows, online, sent, outcome, sends>>

\* ExecuteTask: the status is checked ...
Executable(t) == taskStatus[t] \in {"pending", "scheduled"}

ExecuteRead(t) ==
    LET next == {<<"execute", t, "-">>}
    IN /\ Executable(t)
       /\ Room(next)
       /\ work' = work \cup next
       /\ UNCHANGED <<rows, taskStatus, online, sent, outcome, sends>>

\* ... by the scheduler too, which fails the task if it was refused.
ExecuteDue(t) ==
    LET me == <<"due", t, "-">>
        next == {<<IF Executable(t) THEN "execute" ELSE "abort", t, "-">>}
    IN /\ me \in work
       /\ work' = (work \ {me}) \cup next
       /\ UNCHANGED <<rows, taskStatus, online, sent, outcome, sends>>

Abort(t) ==
    LET me == <<"abort", t, "-">>
    IN /\ me \in work
       /\ taskStatus' = IF taskStatus[t] \in {"pending", "running"}
                        THEN [taskStatus EXCEPT ![t] = "failed"] ELSE taskStatus
       /\ work' = work \ {me}
       /\ UNCHANGED <<rows, online, sent, outcome, sends>>

\* ... then the task is set running and its pending upgrades are sent.
Execute(t) ==
    LET me == <<"execute", t, "-">>
        new == Jobs({u \in RowsOf(t) : status[u] = "pending"})
    IN /\ me \in work
       /\ SendRoom(new)
       /\ taskStatus' = Put(t, "running")
       /\ sends' = sends \cup new
       /\ work' = work \ {me}
       /\ UNCHANGED <<rows, online, sent, outcome>>

\* CancelTask: the status is checked, the open upgrades are cancelled, and then
\* the task is (Close).
CancelRead(t) ==
    LET next == {<<"cancelRows", t, "-">>}
    IN /\ taskStatus[t] \notin {"none", "deleted", "completed", "cancelled"}
       /\ Room(next)
       /\ work' = work \cup next
       /\ UNCHANGED <<rows, taskStatus, online, sent, outcome, sends>>

CancelRows(t) ==
    LET me == <<"cancelRows", t, "-">>
        open == {u \in RowsOf(t) : status[u] \in {"pending", "upgrading"}}
    IN /\ me \in work
       /\ End(open, "cancelled")
       /\ work' = (work \ {me}) \cup {<<"close", t, "cancelled">>}
       /\ UNCHANGED <<attempt, dispatched, taskStatus, online, sent, outcome, sends>>

\* DeleteUpgradeTask: the status is checked, then the task is deleted; its
\* upgrades stay, without a task.
DeleteRead(t) ==
    LET next == {<<"delete", t, "-">>}
    IN /\ taskStatus[t] \notin {"none", "deleted", "running"}
       /\ Room(next)
       /\ work' = work \cup next
       /\ UNCHANGED <<rows, taskStatus, online, sent, outcome, sends>>

Delete(t) ==
    LET me == <<"delete", t, "-">>
    IN /\ me \in work
       /\ taskStatus' = [taskStatus EXCEPT ![t] = "deleted"]
       /\ work' = work \ {me}
       /\ UNCHANGED <<rows, online, sent, outcome, sends>>

\* CancelUpgrade withdraws a pending upgrade.
CancelUpgrade(u) ==
    /\ status[u] = "pending"
    /\ status' = [status EXCEPT ![u] = "cancelled"]
    /\ UNCHANGED <<attempt, dispatched, fresh, taskStatus, online, sent, outcome, sends, work>>

\* A retry opens a new attempt of each failed upgrade in S, and sends it.
NextAttempt(S) == [u \in DOMAIN attempt |-> IF u \in S THEN attempt[u] + 1 ELSE attempt[u]]
RetryRows(S) ==
    /\ \A u \in S : attempt[u] < MaxAttempt
    /\ status' = Set(status, S, "pending")
    /\ attempt' = NextAttempt(S)
    /\ dispatched' = Set(dispatched, S, FALSE)

\* RetryUpgrade leaves the task as it is.
RetryUpgrade(u) ==
    LET new == {<<"claim", u, attempt[u] + 1>>}
    IN /\ status[u] = "failed"
       /\ RetryRows({u})
       /\ SendRoom(new)
       /\ sends' = sends \cup new
       /\ UNCHANGED <<fresh, taskStatus, online, sent, outcome, work>>

\* RetryTaskFailed sends every pending upgrade of the task, and sets the task
\* running at the end (Run).
RetryTask(t) ==
    LET S == {u \in RowsOf(t) : status[u] = "failed"}
        new == Jobs({u \in RowsOf(t) : status[u] = "pending"})
               \cup {<<"claim", u, attempt[u] + 1>> : u \in S}
        next == {<<"rerun", t, "-">>}
    IN /\ taskStatus[t] \notin {"none", "deleted"}
       /\ RetryRows(S)
       /\ SendRoom(new) /\ Room(next)
       /\ sends' = sends \cup new
       /\ work' = work \cup next
       /\ UNCHANGED <<fresh, taskStatus, online, sent, outcome>>

(* Connectivity, and the restart of business-api. *)

GoOnline(d)  == /\ d \notin online /\ online' = online \cup {d}
                /\ UNCHANGED <<rows, taskStatus, sent, outcome, sends, work>>
GoOffline(d) == /\ d \in online /\ online' = online \ {d}
                /\ UNCHANGED <<rows, taskStatus, sent, outcome, sends, work>>
Restart      == /\ sends \cup work # {}
                /\ sends' = {} /\ work' = {}
                /\ UNCHANGED <<rows, taskStatus, online, sent, outcome>>

-----------------------------------------------------------------------------
Sending == \/ \E d \in Devices : DispatchHead(d)
           \/ \E u \in Upgrades, k \in Attempts :
                 \/ SendReject(u, k) \/ SendClaim(u, k) \/ SendGiveUp(u, k) \/ SendPost(u, k)

Reporting ==
    \/ \E u \in Upgrades, k \in Attempts :
          \/ \E o \in Terminal : DeviceEnds(u, k, o)
          \/ Ack(u, k)
          \/ \E st \in Terminal \cup {"upgrading"} : Report(u, k, st)
    \/ \E u \in Upgrades : Reconcile(u) \/ \E v \in {"success", "failed"} : ReconcileWrite(u, v)

Bookkeeping ==
    \/ \E u \in Upgrades : \/ Expire(u)
                           \/ \E st \in {"upgrading", "success", "failed"} :
                                 Sweep(u, st) \/ Settle(u, st)
    \/ \E t \in Tasks : \/ Run(t, "start")
                        \/ \E how \in {"report", "cleanup", "sync"} : Tally(t, how)
                        \/ \E v \in TaskEnds : Close(t, v)

Timing == \/ \E u \in Upgrades : Silence(u)
          \/ FailStale
          \/ \E t \in Tasks : TaskTimeout(t) \/ FailRows(t)

Connecting == Restart \/ \E d \in Devices : GoOnline(d) \/ GoOffline(d)

Running == Sending \/ Reporting \/ Bookkeeping \/ Timing \/ Connecting

Admin ==
    \/ \E t \in Tasks : \/ CreateTask(t) \/ SchedulerClaim(t) \/ ExecuteRead(t)
                        \/ ExecuteDue(t) \/ Abort(t) \/ Execute(t)
                        \/ CancelRead(t) \/ CancelRows(t) \/ DeleteRead(t) \/ Delete(t)
                        \/ RetryTask(t) \/ Run(t, "rerun")
    \/ \E u \in Upgrades : InsertRow(u) \/ Resend(u) \/ CancelUpgrade(u) \/ RetryUpgrade(u)

Next == Running \/ Admin \/ \E d \in Devices, S \in SUBSET Upgrades : CreateIndependent(d, S, FALSE)

Spec == Init /\ [][Next]_vars

\* The App's flow on its own: what the delivery queue is built for. No task is
\* created, executed, retried or withdrawn by an administrator.
AppNext == \/ Running
           \/ \E d \in Devices, S \in SUBSET Upgrades : CreateIndependent(d, S, TRUE)

\* The delivery retry loop (30 s) and the task timeout watcher (60 s) run for
\* ever, and a copy of SendUpgradeCommand that has started goes on.
Fairness ==
    /\ \A d \in Devices : WF_vars(DispatchHead(d))
    /\ \A u \in Upgrades, k \in Attempts :
          WF_vars(SendClaim(u, k) \/ SendGiveUp(u, k) \/ SendReject(u, k))
    /\ \A t \in Tasks : WF_vars(TaskTimeout(t))

AppSafetySpec == Init /\ [][AppNext]_vars
AppSpec == AppSafetySpec /\ Fairness

-----------------------------------------------------------------------------
TypeOK ==
    /\ status \in [Upgrades -> Statuses]
    /\ attempt \in [Upgrades -> Attempts]
    /\ dispatched \in [Upgrades -> BOOLEAN]
    /\ fresh \in [Upgrades -> BOOLEAN]
    /\ taskStatus \in [Tasks -> TaskStatuses]
    /\ online \in SUBSET Devices
    /\ sent \in SUBSET Tokens
    /\ outcome \in [Tokens -> Outcomes]
    /\ sends \in SUBSET (Stages \X Upgrades \X Attempts)
    /\ work \in SUBSET WorkItems

\* An upgrade shown as running or successful has claimed its delivery and sent
\* the command of its current attempt, whatever late, repeated or foreign message
\* moved it there: a retry clears the claim, and retry_count keeps the messages
\* of earlier attempts out (OTACmdAck, OTAStatus, ClaimUpgradeDelivery).
RunningWasSent ==
    \A u \in Upgrades :
        DeviceOf[u] \notin LegacyDevices /\ status[u] \in {"upgrading", "success"} =>
            dispatched[u] /\ <<u, attempt[u]>> \in sent

\* The table implements OtaLedger: closed upgrades reopen only as a new attempt,
\* and success is recorded only for firmware that was installed.
Ledger == INSTANCE OtaLedger WITH installed <- Installed
LedgerSpec == Ledger!Spec

\* A device works on one upgrade at a time: among the upgrades of a device that
\* echoes tokens, at most one is in flight for a task that can still make
\* progress (pendingDeliveryCondition, ClaimUpgradeDelivery).
InFlight(u) == status[u] = "upgrading" /\ Live(TaskOf[u])
OneInFlight ==
    \A u \in Upgrades : \A v \in Siblings(u) :
        DeviceOf[u] \notin LegacyDevices /\ InFlight(u) /\ InFlight(v) => u = v

\* A success is final: no message of a device, no timer and no administrator
\* takes it back (OTAStatus, the timers, the administration).
SuccessIsFinal ==
    [][\A u \in Upgrades :
          UNCHANGED sends /\ status[u] = "success" => status'[u] = "success"]_vars

\* An upgrade whose device keeps reporting is failed by nothing but its device
\* saying so: not by a timeout, nor by the versions a device reports
\* (isOTAUpgradeRecordStale, runOTATimeoutCleanup, decideReconcileResult).
ProgressIsNotFailed ==
    [][\A u \in Upgrades :
          UNCHANGED sends /\ status[u] = "upgrading" /\ fresh[u] /\ status'[u] = "failed" =>
              \E k \in Attempts : outcome[<<u, k>>] = "failed"]_vars

\* If a device stays online and business-api stops restarting, each running task
\* of the App ends, whatever is lost: the queue moves on past a silent upgrade.
TasksEnd ==
    \A t \in Tasks :
        (\A u \in Upgrades : TaskOf[u] = t => <>[](DeviceOf[u] \in online)) /\ <>[][~Restart]_vars
        => [](taskStatus[t] = "running" => <>(taskStatus[t] # "running"))
=============================================================================
