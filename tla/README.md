# TLA+ models of the inverter monitoring backend

This directory holds TLA+ specifications of the parts of the backend whose
correctness depends on the order of events: firmware delivery, the path of device
messages through Kafka, the delivery of control commands, the presence of devices,
and eleven smaller services, from alarms and stored telemetry to the tree of
organizations and the records of hardware. Each is model-checked with TLC on small
instances. The safety invariants and action properties of the passing runs are proved
with TLAPS for every value of the constants; liveness is model-checked.

`PROJECT.json` lists the components, the runs, the mutants that each property is
tried against, the code lines every definition stands for (`map`), the disagreements
between code and documentation that the models show (`findings`), the hazards of the
code, and the theorems.

    tlc -config OtaPlan.cfg MCOtaUpgrade        # model-check a run
    tlapm OtaUpgradeProofs.tla                  # check the proofs of a module

Paths below are relative to the root of the repository. BA is `business-api`, DC is
`device-communication`, both Go services.

## 1. The system

An inverter's communication board publishes telemetry, alarms, replies to commands
and OTA progress over MQTT. EMQX delivers each message on two routes: by a webhook to
`mqtt-kafka-bridge`, which writes it to Kafka, where the consumers of DC read it; and
straight to the MQTT subscription of DC. DC keeps the state of devices in Redis and
posts to the internal endpoints of BA, which owns the PostgreSQL tables. Commands and
firmware notices go the other way: a request to BA inserts a row, posts to DC, and DC
publishes to the device.

    device --MQTT--> EMQX --webhook--> bridge --> Kafka --> DC consumers --HTTP--> BA --> Postgres
       ^               |                                       ^   |                ^        |
       |               +------------- MQTT callbacks ----------+   +--- Redis ------+        |
       +--------------------------- DC publisher <------------- HTTP --------- BA requests <-+

| Component | State | Operations | What makes it hard | What makes it correct |
|---|---|---|---|---|
| Firmware delivery (BA) | `device_upgrades` (status, retry_count, last_dispatched_at, updated_at), `upgrade_tasks` | create, execute, dispatch, claim, post, ack, report, reconcile, time-outs, cancel, delete, retry | four timers, the reports of devices and administrators write one row, mostly read-then-write; tokens name an attempt | attempts do not mix; success only of installed firmware; a device works on one upgrade; every running task ends |
| Kafka ingest (bridge, DC) | a partition, the group offset, a worker's message and its tries | webhook, fetch, handle, retry, give up, commit | restarts and rebalances between effect and commit; retries hold the partition; shared reader | nothing acknowledged is lost; effects in partition order; a message that always fails does not hold the partition |
| Commands (BA, DC) | `device_cmd_logs`, `device_commands`, `device_control_state`, the Redis list `device:cmd:queue`, the channel `cmdChan` | insert, post, mark, queue, flush, publish, result, notice, desired and reported state | the reply races the mark of the sender; replies come on two routes; a post may time out and still be done; the stop of a debug session is sent again | `device_commands` moves forward only; history and notices agree with it; what a request sends goes out once; "synced" is true |
| Device presence (DC, BA) | Redis state, online set and heartbeat key, the cache of `DeviceStateManager`, `devices.status` | heartbeat, telemetry, information, last will, state change, rebuild, reconcile, stale sweep | one shared manager decides from a cache and writes elsewhere; three handlers write the status past it; Redis and the database disagree after an error | a silent device is shown offline in the end, one that reports online, a faulty one faulty again and again; the set of devices online keeps a device that reports |
| Alarms (DC, BA) | dedup key in Redis, `device_alarm_events`, `alarms`, notices | report, post on two routes, store, project, notify | both routes deliver each report, answers are lost, failures are answered as success | an event is stored and told once; the table shows what was stored; nothing but a swallowed failure loses a report |
| Debug sessions (BA) | `device_debug_sessions`, its start and stop commands | start, stop, result, refresh, reap, expire | calls, results and the coordinator change one row without a lock | a session that ended stays so and is called stopped only when it was; sessions end |
| Sessions of users (BA) | `users.session_version`, the refresh keys, the time of the last revocation, the blacklist | login, refresh, change of context, logout, change of password | a refresh reads the database, then swaps in Redis, while others revoke | a token is redeemed once; a session that ended does not come back; a change of the password ends the sessions |
| Memberships (BA) | `organization_memberships`, `member_transfer_requests` | add, join, ensure, remove, change role, transfer | reads before the transaction, writes by id | a transfer happens as a whole, by one verdict |
| Claims and transfers of devices (BA) | `device_claim_tokens`, `device_transfer_requests`, `devices.status` | make a code, claim, ask, decide | as above; the status is shared with presence | a device is claimed once |
| Invitations (BA) | `invitations`, accounts | invite, ask to join, answer, revoke, expire, accept | as above | no account from an invitation that is not pending |
| Organization tree (BA, triggers of the schema) | `organizations`, their closure, `organization_quotas` | create, move, delete, set a quota | a closure kept by hand-written SQL beside the parents, by transactions that lock nothing first | the closure is that of the parents; limits descend |
| Binding of a device (BA, a trigger, DC) | `devices.user_id`, `deleted_at`, `binding_state_revisions`, `device_unbind_requests` | register, bind, import, unbind, ask and decide, delete, migrate, answer a query | many statements change the owner, on rows that are deleted and made again; the trigger may be rolled back; answers come late | a revision names one state of the binding |
| Stored telemetry (DC, a trigger, BA) | `device_telemetry_3min`, `device_latest_state`, `device_energy_day` | store a heartbeat, derive, store a modular report | heartbeats come again and late; two workers; a second route without the lock | the newest state and the energy of a day agree with the facts |
| Parallel groups (BA) | `device_parallel_state`, `device_parallel_events` | read and lock, write, move the master | overlapping reports, and no row to lock at first | the group goes forward only, with an event for each change |
| Hardware records (BA) | `device_hardware_registry` with modules and history, observations, `hardware_import_*`, `firmware_board_types`, `ota_compatibility_windows` | verify, correct, change, freeze, observe, import, set the scope of a firmware, open a window | administrators change what they read earlier; reports contradict it meanwhile; imports are resumed | the audit explains each record; a window is right for its revision; imported once, as committed |
| Outbox, RBAC cache (BA) | rows; keys | insert | nothing reads either | - |
| DLQ, Kafka probe, MQTT client, jobs and e-mail queue | a Redis list; two atomics; subscriptions; a map and a channel | push, list, replay; probe; connect | small or unused | - |
| Energy schedules, channel backfill, API gateway, frontends, deployment | - | guarded statements, batches, proxying, pages, scripts | - | - |

The last rows, and why they are left out, are components with status `not_modelled` in
`PROJECT.json`.

## 2. The plan

Most important behaviour first. Steps 1 to 9 are done.

1. **Firmware delivery**: `OtaLedger` (abstract), `OtaUpgrade`, `OtaUpgradeProofs`.
2. **Ingest**: `PartitionLog` (abstract), `IngestConsumer`, `IngestProofs`.
3. **Commands**: `CommandLedger` (abstract), `CommandDelivery`, `CommandProofs`.
4. **Device presence**: `DevicePresence`, with its liveness.
5. **Alarms** on their two routes, and **debug sessions**: `AlarmIngest`,
   `DebugSession`.
6. **The services of users and organizations**: `AuthSession`, `MemberLifecycle`,
   `DeviceClaim`, `Invitations`, `OrganizationTree`.
7. **The tables devices write**: `DeviceBinding`, `TelemetryStore`, `ParallelTopology`;
   and those that say what a device is: `HardwareRegistry`, `HardwareImport`.
8. **Proofs** of the modules of steps 4 to 7: `HardwareProofs`, `AccountProofs`,
   `DeviceProofs`, `PresenceProofs`, of each service and of the services together.
9. **What liveness rests on**, as safety properties with proofs, so that TLC is left with
   the part that needs fairness: of presence (`RightStays`) and of alarms
   (`CommittedIsStored`).
10. Next, where a reader would look for more: the same of `TasksEnd` (which steps close a
   task) and `SessionsEnd`; an abstract specification each of the binding and of the
   audit, which the theorems of section 5 come close to; and the behaviour that section 6
   names as not modelled yet.

| Module | Models | Composition |
|---|---|---|
| `OtaLedger` | what `device_upgrades` promises | implemented by `OtaUpgrade`, with `installed` read off the outcomes of commands |
| `OtaUpgrade` | rows, tasks, handlers, timers, devices of firmware delivery | - |
| `PartitionLog` | at-least-once, in-order handling of a partition | implemented by `IngestConsumer`, with `finished` the union of three fates |
| `IngestConsumer` | bridge, log, workers of a consumer | - |
| `CommandLedger` | what `device_commands` promises | implemented by `CommandDelivery` |
| `CommandDelivery` | sender, queue, channel, device, results, control state | - |
| `DevicePresence` | state manager, Redis, the sweep, one device | - |
| `DebugSession` | sessions, their calls, results and coordinator | takes commands and results as `CommandDelivery` shows them |
| `AlarmIngest` | both routes of an alarm, its tables and notices | its consumer is the one of `IngestConsumer` |
| `AuthSession` | logins of one user | - |
| `MemberLifecycle` | memberships and transfers of one user | - |
| `DeviceClaim` | codes and transfer requests of one device | its status is the one of `DevicePresence` |
| `Invitations` | invitations, join requests, accounts | makes memberships of `MemberLifecycle`, not followed |
| `OrganizationTree` | parents, closure and quota limits of one tenant | - |
| `DeviceBinding` | owner, revision and signed answers of one device | writes the row whose owner `DeviceClaim` and its transfers change too |
| `TelemetryStore` | facts of one device and what is derived | its handler is one of `IngestConsumer`: a message may come again |
| `ParallelTopology` | the group of one master | as above |
| `HardwareRegistry` | the records of devices' boards, the scope and windows of a firmware | - |
| `HardwareImport` | staging and committing a file of records | extends `HardwareRegistry`, whose records change meanwhile |
| `MCAccounts` | the instances of `AuthSession`, `MemberLifecycle`, `Invitations`, `OrganizationTree` | extends these; one of them acts |
| `MCDevices` | the instances of `DebugSession`, `AlarmIngest`, `DeviceClaim`, `DeviceBinding`, `TelemetryStore`, `ParallelTopology` | extends these; one of them acts |
| `MCHardware` | the records with all that writes them (`RecordsSpec`), and the two parts of it that TLC looks at | extends `HardwareImport` |
| `MCServices` | the instances of the three above | extends them; one of them acts |
| other `MC...` | the instances TLC checks | extend the module they are named after |
| `OtaUpgradeProofs`, `IngestProofs`, `CommandProofs`, `PresenceProofs` | theorems | extend the module they are named after |
| `AccountProofs` | theorems about the services of `MCAccounts`, each and together | extends `MCAccounts` |
| `DeviceProofs` | theorems about those of `MCDevices` | extends `MCDevices` |
| `HardwareProofs` | theorems about `HardwareRegistry`, `HardwareImport`, and both at once | extends `MCHardware` |
| `ServicesProofs` | all these together | extends `MCServices` and the three above |

## 3. The modules and the code

In every module a database statement, a Redis command or a message is one step. A
handler that reads and then writes is several steps, and what it holds between them is
part of the state, which a restart loses. An operator defined directly before another
one, with the same parameters and a name that says what is wrong (`BusyNever`,
`FetchCommitting`, `PredecessorsAnyResult`), is a wrong version of the one that
follows. The specifications do not use it; `PROJECT.json` ("mutants") names the
property it violates when it takes the place of the right one.

### 3.1 Firmware delivery: `OtaUpgrade`

| Variables | Code |
|---|---|
| `status`, `attempt`, `dispatched` | columns status, retry_count, last_dispatched_at of `device_upgrades` |
| `fresh` | updated_at is within the silence window |
| `taskStatus` | `upgrade_tasks.status` |
| `online` | `devices.status` |
| `sent`, `outcome` | command tokens (`id`, `id-rN`) handed to DC, and how the device ended each |
| `sends` | goroutines that run `SendUpgradeCommand`, before the claim or before the POST |
| `work` | the rest of handlers that have read and not yet written |

| Actions | Code |
|---|---|
| `CreateIndependent`; `CreateTask`, `InsertRow` | `CreateIndependentFirmwareTasks` (one transaction); `CreateUpgradeTask` (one statement per row) |
| `DispatchHead`, `Resend` | `dispatchHeadPending`, `ResendPendingUpgradeCommand` |
| `SendReject`, `SendClaim`, `SendGiveUp`, `SendPost` | `SendUpgradeCommand` with `ClaimUpgradeDelivery` |
| `DeviceEnds` | the device (external) |
| `Ack`, `Report` | `OTACmdAck`, `OTAStatus` |
| `Sweep`, `Expire`, `Settle`, `Run` | the background part of `OTAStatus` |
| `Tally`, `Close` | the counts of a task, and the verdict written afterwards |
| `Reconcile`, `ReconcileWrite` | `reconcileOTAStatus` on device information |
| `FailStale`, `TaskTimeout`, `FailRows`, `Silence` | `runOTATimeoutCleanup`, `MarkTimedOutUpgradeTasks`, the passing of time |
| `SchedulerClaim`, `ExecuteRead`, `ExecuteDue`, `Abort`, `Execute` | the scheduler and `ExecuteTask` |
| `CancelRead`, `CancelRows`, `DeleteRead`, `Delete`, `CancelUpgrade`, `RetryUpgrade`, `RetryTask` | administration |
| `Restart`, `GoOnline`, `GoOffline` | the process, the connection |

What is abstracted:

- Time. A minute since the last dispatch, five since the start, thirty since the last
  write to a task may have passed at any step. Only the silence of a device is
  recorded, because one property speaks of it.
- The upgrades of a device are of distinct firmware that it does not have already. The
  version table is folded into the verdict of `Reconcile`, which may take more verdicts
  than the code can: it needs a change of version only where the code needs one.
- The stored counters are recomputed by `Tally`; `total_devices` is the number of
  upgrades planned for the task.
- `Execute` sets the task running and lists its rows in one step; the immediate mode
  is `ExecuteRead` at any time. `RetryTask` reopens all failed rows in one step. What
  the cleanup counts for a task may be written before or after what `Settle` counts.
- The status `downloading` is in the enumeration of the code and written by none of
  its statements, so no action sets it.
- `Next` lets the requests of one device overlap (`inOrder = FALSE`). `AppNext`, the
  flow of the App alone, takes them one after the other: the rows of a later request are
  newer. That is an assumption about the users of a device.
- Devices in `LegacyDevices` do not echo tokens. `Origins` has their branch; the runs
  use devices that do, the theorems hold of any mixture, and the properties that need
  tokens exclude the others explicitly.

Not in it: package tasks, the retired `PushUpgrade`, `DeleteUpgradesByFirmware`,
`CreateTaskFromLocalOTA`, and `UpdateDeviceUpgradeStatus`, which nothing calls.

### 3.2 Ingest: `IngestConsumer`

| Variables | Code |
|---|---|
| `loop` | which of the loops runs: `runOrderedKafkaConsumer` ("ordered", alarms), `runOrderedKafkaConsumerWithRetry` without ("bounded", protocol parser) or with ("dlq") a dead letter queue |
| `log`, `committed`, `next` | the partition, the offset of the group, the position of the reader |
| `acked` | events whose webhook was answered with 204 |
| `pc`, `held`, `tries` | the loop of each worker |
| `applied`, `settled`, `dead`, `dropped` | what became of each message |

| Actions | Code |
|---|---|
| `Webhook` | `handleWebhook`; EMQX posts an unanswered event again |
| `Fetch`, `Succeed`, `Fail`, `GiveUp` | `FetchMessage`, the handler and its retries, `sendToDLQ` |
| `Commit`, `CommitUnanswered` | `CommitMessages`, the second when its answer is lost |
| `Rebalance`, `Restart` | the group, the process |

What is abstracted: the handlers. One attempt may have its effect and still fail; a
permanent refusal is written to `device_ingest_errors` by the handler, which then
returns no error. One process holds the partition: a rebalance gives it back to the
same reader, and workers go on with what they hold. The dead letter queue is what the
code offers, but no caller supplies one. `MaxRetries` stands for the 5 of
`DefaultMaxRetries`; the count does not grow in the ordered loop, which has no bound.

### 3.3 Commands: `CommandDelivery`

| Variables | Code |
|---|---|
| `debug`, `stops` | the commands that `sendDebugCommand` sends, and those of them that stop a session |
| `status` | `device_commands`, one row for a command |
| `history` | `device_cmd_logs`, one row for every request that sends the command: the statuses of these rows |
| `pc` | each request: `SendCommand`, `SendPreparedCommand`, `sendDebugCommand` |
| `queue`, `channel` | the Redis list for an offline device, `cmdChan` of DC |
| `reached`, `said`, `applied` | the device (external) |
| `control` | `device_control_state` |
| `owed`, `told` | results recorded without a notice yet, notices |

| Actions | Code |
|---|---|
| `Insert` (`Created`, `Repeated`), `PostTaken`, `PostRefused`, `PostOffline`, `Mark`, `Push`, `Desire`, `Tell` | one request, statement by statement |
| `Flush`, `QueueExpires`, `Publish`, `RestartServer` | DC |
| `DeviceSays` | the device |
| `Result`, `Notify` | `DeviceCmdResult`, for any reply ever given, any number of times, in any order: this stands for both routes, repetition and delay |
| `ReportConfig` | `SaveReportedConfigV2` |
| `RestartApi` | BA |

A command is sent by one request, except the stop of a debug session. `StopSession` fails
with "retry is safe", and while the session is stopping any call of it sends the stop
again, under the id the session keeps (`BeginDebugSessionStop`). `Repeated` is the insert
of such a request: `device_commands` does nothing on the conflict, `device_cmd_logs` gets
another "pending" row, and the command is posted again. From there the two tables may
differ: the new row is pending after the stop ended, and a result that comes again is
recorded in it and told again. So `Requests` are pairs of a command and a number, queue
and channel hold what a request has sent, and the properties say of a stop what is true of
it.

What is abstracted: one device; queue and channel are sets, since no property depends
on their order; all commands set one parameter, so that each one competes with the
others for desired and reported state; `Flush` takes from the list and pushes to the
channel in one step, with the loss in between as its second outcome. The device does a
command once, by its task_id, and ends it with one verdict; replies that name a stage
carry success, as the protocol document shows them. An error of the database or a cut
request leaves the status as it was (`Mark`). Left out: the checks before a command is
recorded, the cooldown, results without a task id, the `query_config` that follows a
success. Debug sessions are in 3.5 (their commands are in this model). The
code sends a stop again only while its session is stopping; here it may always be.

### 3.4 Device presence: `DevicePresence`

| Variables | Code |
|---|---|
| `mode`, `backlog`, `will` | the device and its broker: healthy, faulty or silent; samples kept from a time without connection; a last will to deliver |
| `heartbeat`, `onlineSet`, `state`, `debounce` | `device:heartbeat:<sn>`, `device:online_set`, `device:state:<sn>`, the `device:debounce` keys |
| `cache` | `stateCache` of the manager |
| `info` | information of the device that the registry has yet to post |
| `job`, `up` | what each worker, callback, the reconciliation and the rebuild does next; whether the process has started its handlers |
| `status`, `recent`, `sweep` | `devices.status`, whether `last_online_at` is young, where the device is in the sweep |

| Actions | Code |
|---|---|
| `Turn` | the device changes its mode (external) |
| `Heartbeat`, `Uplink`, `Backfill`, `Goodbye`, `LastWill` | `handleHeartbeat`, `markValidUplink`, `handleOnline`, `HandleLWTOffline` |
| `Sample`, `Telemetry` | `handleTelemetry`, and at its end `DeviceDataBatch`, which sets a device with another status online, at most every 30 seconds |
| `Inform`, `Register` | `handleInfo`, and the upsert of `DeviceInfo`, which sets it online unless it is faulty with a critical alarm |
| `Hear` | a message of another topic at the MQTT callback: a heartbeat and nothing else |
| `Decide`, `PostAnswered`, `PostFails`, `PostSwallowed`, `Store` | `HandleStateChange`: decide from the cached state, write Redis, post, store the cache and the debounce key |
| `DebounceExpires`, `HeartbeatExpires` | the times to live |
| `ReconcileList`, `Reconcile`, `RebuildScan`, `Rebuild`, `RedisRecovers`, `Restart`, `Started` | the reconciliation, the rebuild at start and after Redis came back, the process |
| `Ages`, `SweepList`, `SweepMark`, `MarkDeviceOffline` | the scan of `runHeartbeatCheck`: `MarkStaleDevicesOffline`, and then `MarkDeviceOffline` for each device it marked, which looks at the heartbeat again but not at the age |

The key of a heartbeat lives five minutes, and the topics of a device come every one to
six (`protocol_parser.go:1884`), so `HeartbeatExpires` may happen to a device that
reports. `last_online_at` is taken to have been set once. Whether a faulty device has a
critical alarm, which `DeviceInfo` asks for, is not modelled: `Register` takes either
outcome. An update of the status that fails is a mishap of `PostFails`, `PostSwallowed`
and `Telemetry`; the statements of the sweep do not fail, but the queries before the
second one may.

One device. The listener for expired heartbeats is left out, because the events it
subscribes to (keyspace) are not those it enables (`Ex`: keyevent). The notices of a
change and the status of the station are left out. So are two more handlers that write
the status: `DeviceAlarm` has no route, and nothing calls that of `DeviceData`, which does
what `DeviceDataBatch` does.

### 3.5 Debug sessions: `DebugSession`

`session` is the status of each row; `caller` what a request does next; `verdicts` the
results read against a row and not yet written; `due` a stop at expiry not yet sent;
`commands` and `results` the way to the device and back. `StartCheck`, `StartInsert`,
`StartSend`, `StartFail` are `StartSession`; `StopBegin`, `StopSend` are `StopSession`;
`ResultRead`, `ResultWrite` are `HandleCommandResult`; `Refresh`, `ReapStarting`,
`ReapActive`, `Expire`, `ExpirySend` are the statements of `coordinateOnce`. Times are
abstract: whatever may be due is due at any moment. A result stays in `results`, so it
may be handled again and again.

### 3.6 Alarms: `AlarmIngest`

One alarm, that is one source and code of one device, and the envelope of protocol V1.
`reports` is the partition, `handled`, `delivered` and `marked` the consumer and its
dedup key, `callbacks` the posts of the MQTT route; `events`, `rows`, `toNotify` and
`notices` are the tables and the notices. `Consume` is `deliverAlert`, `Commit` the
loop, `CallBack` and `CallBackFails` are `HandleMQTTAlarm` with its retries,
`Transaction` is `IngestAlarm`, `Notify` is `notifyAlarmV1`. A transaction that fails
is answered with HTTP 200 and an error in the body (`response.Error` sets no HTTP
status), which both posters take for a delivery: `swallowed` holds these events. The
consumer's own retries, rebalances and offsets are checked in `IngestConsumer`; here
they are a loop that may restart.

### 3.7 Sessions of users: `AuthSession`

One user. `version` and `enabled` are its row; `current` the refresh keys, `cutoff` and
`blacklist` the other keys of Redis; `tokens` and `access` what was given out; `request`
what each call does next. The middleware is the operator `Accepted`. `LoginResolve`,
`LoginStore` are every way to log in; `RefreshCheck`, `RefreshResolve`, `Swap`, `Revoke`
are `RefreshToken`, `ContextResolve` is `AuthorizationContext`; `ChangePassword`,
`RevokeCut`, `RevokeScan`, `RevokeDelete` are the three ways to change a password.
`RevokeAllUserTokens` goes through Redis in several scans, each followed by its
deletion; the model has one scan of all sessions, which for the single session of the
run is the same. The time of a token has seconds, that of a revocation milliseconds: a
token of the second of the revocation is refused, as in the code.

### 3.8 Memberships: `MemberLifecycle`

One user, the organizations of one tenant and the user's own. `member` are the rows,
`transfer` the requests, `admin` the calls. What a handler reads outside of its
transaction is a step of its own (`AddRead`, `RoleRead`, `InitiateRead`, `AcceptRead`,
`AcceptLook`, `EnsureRead`), its transaction another. `Conflicts` is the unique index
on active rows; a role that refers to a row keeps `DeleteMembership` from succeeding
(foreign key), so only members without a role can be transferred. `DeactivateMember`
and `ReactivateMember` write statuses that the table refuses, and change nothing.

### 3.9 Claims and transfers of devices: `DeviceClaim`

One device. `code` and `codeState` are its row of `device_claim_tokens`, `asked` its
`device_transfer_requests`, `shown` its status, which a claim sets from 0 to 1 and
which presence writes too (`ShowOnline`, `ShowOffline`). `claims` counts the claims since
the status was last 0. `DecideRequest` writes by id: a verdict may overwrite another, and
fails if another request of the device has it, by `UNIQUE (device_sn, status)`.

### 3.10 Invitations: `Invitations`

`invite` are the rows, `account` and `maker` who has an account and through which
invitation, `party` the calls. `CreateRead` and `Create`, `AcceptFind` and `Accept` or
`AcceptExpires` are the reads and writes of `Create` and `Accept`; the rest are single
statements. A request to join is a row of the same table.

### 3.11 The tree of organizations: `OrganizationTree`

`standing` and `parent` are `organizations`, `closure` the rows of ancestors, `limit`
and `inherited` one resource of `organization_quotas`. The transactions of `Create` and of
`governed_move_org` read first and write later, at READ COMMITTED, so each has its first
and last moment as actions, and others may commit in between. `CreateOrganization`
computes what `CreateCommit` makes visible. `MoveRead` is the checks of a move, the
temporary table of the subtree and the snapshot of its DELETE, which are taken as one
moment: `levels` is the subtree as read, `doomed` the rows to delete. `MoveCommit` deletes
them, sets the parent, whose trigger looks at it again, and inserts the rows above the new
parent. `MoveAborts` is an error, or the deadlock of two moves. No row is locked before
the DELETE, so moves of one organization overlap: the second one waits for the first to
commit, passes over the rows that it deleted (`doomed` loses them) and does not see those
that it inserted. `OutwardOf070` is the DELETE as migration 070 had it.

`moved` and `crossed` record what the two properties leave out. An organization that is
moved keeps its limit. And `Missed` names what a move leaves wrong: an organization that
was made below one while it was moved, and a distributor of which two moves overlapped,
with its installers. The rows of an agent are the same after any number of moves, because
the root is its only parent.

### 3.12 The binding of a device: `DeviceBinding`

| Variables | Code |
|---|---|
| `row` | the row of `devices`: whether it is there, `user_id`, whether `deleted_at` is set |
| `revision`, `phase` | `binding_state_revisions`; whether its trigger is installed (migration 130) |
| `asking` | a pending row of `device_unbind_requests` |
| `clerk` | what a call of BA has read and writes next |
| `told` | the last answer that was published |

`BindRead`, `EnsureDevice`, `BindReread`, `Bind` are `Bind` and `ImportExcel`; `OwnRead`
with `Unbind`, `RequestUnbind` or `DeleteDevice` the calls of an owner or administrator;
`RegisterRead` and `CreateDevice` are `Create`. `ApproveUnbind` decides in one statement
and unlinks in the next, as `Unbind` does, so the two share that step. `AssignStation`,
`Appear` and `Purge` are the other ways the row changes. `Writes` is the trigger.
`MigrateCounters` and `MigrateTrigger` are the two halves of the migration, between which
calls change rows; `RollBack` is the down migration; `Respond` is one turn of the
responder. It answers only while the trigger is installed, as
`device-communication/docs/binding-state-v1.md` prescribes. Queries have no queue: one
that is lost is asked again.

### 3.13 Stored telemetry: `TelemetryStore`

`facts`, `newest` and `energyDay` are `device_telemetry_3min`, `device_latest_state` and
`device_energy_day` of one device; `saver` the transactions of `SaveTelemetryV2`, from
the advisory lock (`SaveBegin`) to the commit (`SaveCommit`, with the insert and the
trigger `maintain_telemetry_v2_derived`) or the rollback (`SaveFails`). `StoreModular` is
the statement of `DeviceData` and `handleBatchEnergyData`, outside of the lock. A
heartbeat is its time and its energy counter; it may be stored at any moment, in any
order and any number of times, which is what Kafka and a device that was off line do.
Left out: months, maxima and minutes, which follow the same statement, the lifetime
total (see the hazards), the retention of 90 days, and the copies in Redis.

### 3.14 Parallel groups: `ParallelTopology`

`group` is the row of a station in `device_parallel_state`, `changes` are the events,
`ingest` the transactions of `IngestParallel` that have read (`IngestRead`) and not yet
committed (`IngestCommit`, `IngestFails`). `Unlocked` is FOR UPDATE, which locks a row
only if there is one. `IsKnown` is the unique key of an event, which does not name the
station, so a master that was moved may report what it did before (`MoveMaster`).

### 3.15 Records of hardware: `HardwareRegistry` and `HardwareImport`

`registry` is the row of a device with the board of its modules, `history` its audit,
`latest` the newest time of its observations, `boardTypes` the boards that exist,
`firmware` the status and scope of a release, `windows` what was permitted for one
revision. Every operation is one transaction that locks the row it changes, so each is
one step: `SetIdentity` is `mutateHardware` for verification, correction and service
change, `Freeze` its other branch; an import ends there too. What an administrator read
before is the argument `seen`, any revision there has been. `Observe` and
`SessionConflict` are what `DeviceInfo` does with a report; `time` is the lesser of the
time reported and the time received. `SetFirmwareBoards`, `Release` and `CreateWindow`
are the operations on a firmware. No operation makes a record "retired" or
"service_pending", which the table would allow.

In `HardwareImport`, `file` and `staged` are the rows of a batch, `saved` the choice an
idempotency key stands for, `todo` what a commit has left. `StageImport` previews,
`CommitImport` checks and saves the choice, `CommitChunk` is `commitImportChunk`,
`CommitStops` an error or a restart. Staging reads the records without a lock; since
`commitImportChunk` looks at each again under one, it is a step.

Left out: the revisions of modules (one that is dropped by a correction and comes back by
another starts again at 1), several boards of a device, evidence, the expiry of windows,
which only ends them, a device that is twice in a file, and two firmwares of a version.
Since migration 132 an upgrade asks for neither a verified record nor a window: they are
kept as a record, and `snapshot_trusted_ota_identity` copies the revision into the row of
the upgrade.

## 4. The runs

| Run | Instance | Distinct states | Shows |
|---|---|---|---|
| `ota_plan` | one upgrade of a scheduled task, one retry, two copies of `SendUpgradeCommand` and two other continuations at once | 2.2 million | under every operation: `TypeOK`; `RunningWasSent`: a row shown as running or successful was claimed and sent at its own attempt; `LedgerSpec`: `OtaLedger` is implemented |
| `ota_app` | two upgrades of one device (two chips, two tasks) of the App | 518 thousand | `OneInFlight`: one upgrade of a device at a time; `TasksEnd`: every running task ends, whatever is lost |
| `ingest` | one worker, two messages, one of them refused by BA, each of the three loops | 33 thousand | `TypeOK`; `InOrder`: effects in the order of the partition; `LogSpec`: offsets committed only over finished messages; `Drains`: a message does not hold the partition for ever |
| `commands` | two commands of one device, ordinary or debug, or a stop that two requests send, under symmetry | 2.7 million | `TypeOK`; `LedgerSpec`: `device_commands` goes forward only, and says only what the device said; `NoticesAgree`: history and notices agree with it; `OneCopy`: what a request sends is in one place; `SyncedIsApplied` |
| `presence` | one device that changes its mode once, a parser, a callback, the reconciliation, the rebuild, in three kinds: with an upset, with a last will of an earlier session, or with telemetry, information and a key that expires between reports | 925 thousand | `SilentGoesOffline`, `HealthyComesOnline`, `FaultIsShown`: the shown status follows the device; `StaysInSet`; `RightStays`: what is right, with nothing older under way, no step makes wrong while the mode and the key last, and the same of the set |
| `services` | each of four services of users and organizations and six of a device, and the records with windows or with an import, each acting alone | 742 thousand | 21 properties, below |
| `ota_one_in_flight` | a scheduled task and an App upgrade of one device | violation | the older row, executed late, overtakes the App's command that is sent and not acknowledged |
| `ota_success_is_final` | as `ota_plan`, no retry | violation | the sweep of `OTAStatus` fails by id a row that became a success since it was read |
| `ota_progress_is_not_failed` | as `ota_plan`, no retry | violation | the task time-out fails a row its device reported on a moment ago |
| `ingest_dropped` | the bounded loop without a dead letter queue | violation | an acknowledged message is dropped after the last retry, and committed |
| `ingest_order` | two workers on one reader | violation | a message is applied while an earlier one is being retried |
| `commands_failed` | as `commands` | violation | a post times out, the command is marked failed, and the device applies it |

Each violation contradicts a line of the repository's documents or comments, quoted
under "findings" in `PROJECT.json`. `SuccessIsFinal` and `ProgressIsNotFailed` look
only at steps that leave `sends` alone: a refused command (`SendReject`) also fails its
row by id, which is the hazard of `markUpgradeFailedBeforeDispatch` and would hide the
ones these runs are about.

`services` is one run of services that share no state. `MCAccounts`, `MCDevices` and
`MCHardware` choose the service that acts in the initial state, and `MCServices` which of
these three acts, so that the states of the services add up instead of multiplying, and
each is checked as if alone. The records meet either reports, the firmware and its
windows, or the import. `RecordsSpec` has all of these at once; TLC finds no error in its
1.1 million states with two changes, which is too large for a part of a run. The theorem
`RecordsAreSafe` is about it.

| Module | Properties |
|---|---|
| `DebugSession` | `StoppedIsConfirmed`: a session is called stopped only after the device carried out its stop; `SessionsMoveForward`: ends are final; `SessionsEnd`: the device becomes free again and again |
| `AlarmIngest` | `NotifiedOnce`: an event is stored and told at most once; `ShownAsStored`: while events are stored in the order of their times, the table shows the last one; `CommittedIsStored`: no offset is committed of a report that was neither stored nor answered as stored; `ReportsAreStored`: a report is lost only to a failure that was answered as success |
| `AuthSession` | `RedeemedOnce`, `EndedStaysEnded`, `ChangeEndsSessions` |
| `MemberLifecycle` | `TransferIsWhole`: a row is gone exactly if a request for it was approved |
| `DeviceClaim` | `ClaimedOnce` |
| `Invitations` | `NoLateAccount` |
| `OrganizationTree` | `ClosureIsTree`, `LimitsDescend` |
| `DeviceBinding` | `RevisionNamesState`: an answer with the present revision is the present state, one with another is older |
| `TelemetryStore` | `DerivedAgrees`: the shown state is the newest fact, the energy of a day the largest reported, and each fact counts once |
| `ParallelTopology` | `ParallelForward`: the group goes forward in time, and says something new only with its event |
| `HardwareRegistry` | `RecordIsAudited`: the audit has every revision, each made to what its author saw; `WindowIsLawful`: a window for the present revision is for a verified record that is not frozen, and a board of the firmware |
| `HardwareImport` | `ImportIsSettled`: a row called committed was verified, and imported once at most |

Some properties are narrower than a reader might wish, because the wider ones are false of
the code. After two overlapping moves of one distributor to different agents the closure
names both as its ancestors, and as those of its installers, though Move
(`organization_handler.go:728-730`) calls the rebuild atomic. Events stored out of order
show the wrong state until the next report (the comment at `protocol_ingest_v1.go:687-689`
takes the projection for correct). A report whose transaction failed is lost, although
`kafka_consumer.go:27-30` promises at-least-once. A user may end up in two organizations
(`member_lifecycle_service.go:208-209` and 359 intend one), if two additions overlap. The
limit of an organization that was moved may exceed its new parent's
(`organization_handler.go:311` says that the trigger prevents it). A stop that is sent
again may be told of twice. A device that reports more rarely than its key lives may leave
the set again and again, which `KeyLasts` excludes: TLC found an endless schedule in which
the key expires between reports and the reconciliation, which then stores "Offline" in the
cache, overtakes every event that would end a fault or put the device into the set. If the
responder ran on while the trigger is rolled back, two states would have one revision.

**Deadlock.** The OTA runs check for it. The others may really stop: the log is full and
handled, all commands are over, the device has fallen silent for good, the invitations
and codes of the bounds are used up.

**Bounds.**

- `MaxAttempt` = 1: one retry makes messages, claims and tokens of an old attempt meet
  a new one. A second retry only repeats this, since every guard compares for equality.
- `MaxSends` = 2 in `ota_plan`: a copy of `SendUpgradeCommand` started before a retry
  and one started after it are at work together. In the other OTA runs it is 1;
  `DispatchHead`, the only action of the App's flow that starts a copy, is exempt, so
  `ota_app` has copies for both upgrades.
- `MaxWork` = 2 in `ota_plan` lets two handlers be half done at once, the smallest
  number at which one overwrites the other's decision; a new handler waits for room,
  while `TaskTimeout` and the later steps of a handler at work are exempt, so that the
  bound starves nothing that liveness needs. It is 1 in `ota_app`, where the time-out
  still falls into every other handler.
- One device: rows of different devices share a task's verdict only.
- `MaxLog` = 2, `MaxRetries` = 1: an earlier and a later message, a first and a last
  attempt. EMQX's repetition is in: an event may be both messages.
- Two commands, and five of the six replies of a device ("executing" only adds
  a step between "acknowledged" and a final reply; the theorems have all six).
  The symmetry is sound: the run checks safety only and no constant tells the two apart.
  `Sends` = {1, 2}: a stop that is sent and sent again, both before and after its result.
  A stop is alone (`Bound`): it waits in no queue and sets no desired value, so it meets
  other commands only as the start of a session does, which the run has beside others.
- `presence`: one change of mode gives both a device that falls silent and one that
  comes back, before or after the one upset; two handlers of two kinds, beside the
  reconciliation and the rebuild, are enough for one to decide from a state that another
  replaced. The run has three kinds of behaviour
  (`kind`), which keeps the graph small enough for the liveness properties: one from a
  state with a last will left from before; one with an upset; and one in which the device
  also sends telemetry and information and its key expires between reports any number of
  times, with the second look of the sweep, but without MQTT callbacks and samples of an
  earlier time. `RightLasts` has all of it at once.
- `services`: two calls at once, the smallest number at which one acts between the read
  and the write of another. Of memberships two are under way only while one of them
  accepts a transfer (`Overlaps`), the call that looks at two rows before it writes.
  Calls and results being handled, commands and results of debug sessions are four
  together (`MaxUnderWay`): a start, its result, a stop and another call. Neither bound
  holds back the coordinator, which the liveness of sessions is about, and what is
  proved of each service is proved without them. Two requests, two reports and three
  events of trouble at most make an old result, report or answer meet a new one. One
  session with three tokens has two refreshes in sequence and two at once; two versions
  of the user have a before and an after. Three rows and one request let a transfer meet
  another row of the target (three requests of a device, so that one is refused its
  verdict by another's). The tree has every level and two agents, so that a subtree of
  two levels moves to and fro; two values of the limit are smaller and larger. Two moves are
  under way at once in a part of its own ("moves"), in which no organization is deleted and
  no limit set (`OnlyGrows`), as neither writes the closure; with one move at once TLC has
  everything. Three
  revisions have a rollback and a change on either side of it, two clerks a read before
  and a write after it. Three times of heartbeats on two days, two energies and four
  facts have a late, an equal and a repeated one on a day. Two reports at once of two
  times and two kinds, on two stations, have a first report that races an older one and
  a master that moves. Two changes of two devices have a record that is verified and
  disputed or corrected, one that is frozen and released, or one of each device; chunks
  of one row and two commits have one that is resumed or overtaken between its chunks. A
  report at the time of the latest stands for all that come too late.

**Fairness.** In `TasksEnd`: the delivery retry loop (every 30 seconds), the task time-out
watcher (every 60 seconds), both `for` loops over a ticker in `business-api/cmd/main.go`,
and a copy of `SendUpgradeCommand` that has started goes on. Nothing is assumed of devices,
messages, administrators or of the POST. The property supposes that the device stays online
and that BA stops restarting at last. In `Drains`: a worker fetches, its handler returns
(the HTTP client has a time-out of five seconds) and the broker answers a commit at last.
The property supposes that restarts and rebalances end, and for the ordered loop that the
handler succeeds if it can again and again; the bounded loops need no such hypothesis. In
`presence`: handlers that began go on (the post has a time-out), the registry posts what it
holds or gives up, debounce keys expire, a silent device loses its heartbeat and its age,
the tickers of the reconciliation and of the sweep fire, and a device that reports is heard
again and again; the last is strong fairness, because the parser is busy in between, and it
is what a device that reports every few seconds over a consumer that retries means.
`HealthyComesOnline`, `FaultIsShown` and `StaysInSet` suppose of a device that from some
time on its key does not expire between its reports (`KeyLasts`); before that it may, any
number of times, and what was decided then is still acted upon. What a silent device comes
to needs no such hypothesis. In `SessionsEnd`: the ticker of `RunCoordinator` only; nothing
of callers, devices or results. In `ReportsAreStored`: the loop of the alert consumer,
whose mishaps are bounded, so that an answer arrives at last.

## 5. The proofs

The theorems hold for every value of the constants that satisfies the named assumption
of the module. Most of these are typing: bounds are natural numbers (positive where there
is a first one), markers like "none" are not among the values they mark. Three say more.
`OtaAssumption`: upgrades are numbered in queue order, and a task of the App has one
upgrade. `TreeAssumption`: an organization has one type, as the column `type` has one
value. `HardwareAssumption`: there are finitely many devices, which are rows of a file.
The bounds of the models are among the constants, so a theorem holds for any length of a
log, any number of calls at once, any number of retries.

A proof has three parts: the invariant holds at first, every step keeps it, and it implies
the property. The invariant is stronger than the property, by what the code relies on
between the statements of a handler; below is what that is for each.

**`OtaUpgradeProofs`.** `TypeCorrect`, with one lemma per group of actions.
`Implementation`: every step moves every row as `OtaLedger` allows. The type invariant
is not enough, because a step acts on what an earlier one read. `JobsInv` says what may
be relied on: what was read and not yet written speaks of rows as they are (claims and
expiries of rows that exist, inserts of rows that do not), and a reconciliation that has
decided "success" speaks of installed firmware. `RunningOnlyIfSent` needs `HandedInv`
besides: no command was handed over, or is about to be, for an attempt to come, and one
of the present attempt only after its claim; so a message of the present attempt
proves the claim, and a retry, which clears the claim, leaves no such message behind.
`AppOneInFlight` needs the order of the queue, `AppInv`: in the App's flow
nothing is created, executed or retried by an administrator (`AppQuiet`), a claimed row
exists (`ClaimedExists`), and of two rows of a device a younger one is claimed only
after the older is settled, that is closed or of a task that is over (`QueueInv`).
Two upgrades in flight would both be claimed, and one is older. The assumption about
requests that do not overlap is used exactly there.

**`IngestProofs`.** `TypeCorrect` for any number of workers. For one worker, and a log
of any length, `EffectsInOrder` and `Implementation`. The invariant `Standing(w)`:
everything up to the committed offset is finished; the message the worker holds is the
one at, or just after, the committed offset, and is finished when it is to be
committed; and the reader stands at this message or at the next. It survives a restart
and a rebalance, because the reader goes back to the committed offset only. With two
workers it is false, which is what `ingest_order` shows.

**`CommandProofs`.** `TypeCorrect`, for any number of requests that send a command.
`NeverTwiceOnTheWay` from `CopyInv` and `RowInv`: the request, the queue, the channel and
the device hold what the request sends in turn, never two of them at once, and no request
of a debug command is about to queue it; and a request that has begun is the only one of
its command, unless that is a stop. `Implementation` needs the rest of `RowInv`: a request
that has begun has a row, and while it has not marked this row nobody else can have called
it queued or sent; so its mark follows "pending", or comes after a reply and changes
nothing. Not so for a stop, which another request may have marked; there it matters that a
debug command is never queued, so that a mark changes between pending, sent and failed as
the ledger allows (`FailAgain`: a stop taken by DC and refused the second time). With that,
the lemma `PredecessorsRank` (what a reply may overwrite ranks below what it means) gives
the step of the ledger for the row of `device_commands`; the rows of the history may be
behind it, and a reply that fits one of them alone leaves `device_commands` as it is.
`NoticesAreRight` needs `NoticesInv`: the device gave one verdict, and every row of the
history and every notice follows from what it said. `SyncedIsTrue`: what it states is
inductive with the type invariant.

**`HardwareProofs`.** `RecordsAreAudited` and `WindowsAreLawful`. What a change does is
proved of the history of one record, as a sequence (`Tells`, `AppendIsTold`): the row is
what the last entry says, entries have the revisions 1, 2, ..., each was made to the one
before it. From it follows the transaction that changes several records
(`AuditedIsTold`, for the import), and from that every action. Two facts are added.
`Vouches`: the board of a record was verified by an entry of its history, which an import
needs when it finds a record that is already what the file says. And
`WindowsAreSettled`: no window has a revision to come, and once there is a window the
firmware is not a draft and has boards, so that its boards are final; records only go to
later revisions (`RecordsAdvance`), so a window is either for a record as it was, or
for none. That the bound on the changes keeps revisions in their type needs the
cardinality of the set of all changes (`ChangesAreCounted`). `ImportsAreSettled`, while
records change: `CommitsAreStaged` (what a commit has left could be committed, so its
board is one of the file) and, per device, that an entry "import" comes with a row that is
committed, and is one.

**`AccountProofs`.** `TokensRedeemedOnce` and `EndedSessionsStayEnded` need that tokens
are numbered as they were given out, and `SessionInv`: a session that is being made has
no token yet and one request makes it, a refresh presents a token that was given out,
and the tokens of a session carry one version. `ExchangedIsSpent` says that a token that
was exchanged is current nowhere. `ChangedPasswordEndsSessions` is the hardest: between
the new version and the last deletion, refreshes go on. `CutInv` says that a session of
an older version is, at any time after the scan, among the keys that were found or
useless: ended, or with old access tokens only and no refresh under way. A login that
was slower than the change leaves a key behind which the scan did not find; it is
useless, since a refresh is refused when the version of its token is not the user's.
`TransfersAreWhole`: a call under way and a request are about rows that are there
(`CallsAreAbout`), so that the guards of the transaction see the row that was looked at.
`AccountsOfPendingInvites`: a call that accepts has found its row; the rest is the guard
that the transaction repeats. `TreesAreClosed` and `LimitsOfTreesDescend`:
`ClosureIsTree` says what the closure is by the closure of the parent, which is not
inductive. `Shape` says which rows an organization of each type has exactly, two levels
deep. `Prepared` says what a creation that has begun will write. `HasRead` and `Deletes`
say what a move that has begun knows: the subtree it read is of organizations that are
made, of the types that belong there, and it deletes only rows of agents and of the
manufacturer. A move of an agent deletes, of what is right, only rows of the
manufacturer, which it inserts again. A move of a distributor, unless it is `late`, deletes
the row of the agent that the distributor is below now, for it and for each installer it
read: a commit that changes that agent is one of a move of the same distributor, which
makes it late. Of what is `crossed` all that is kept is which rows there may be at most
(`AnyDistributorRows`, `AnyInstallerRows`), and that an installer has the row of its
distributor. `LimitsDescend` is kept with the tree, because a limit is compared along the
closure.

**`DeviceProofs`.** `StopsAreConfirmed`, `DebugSessionsMoveForward`: a verdict that was
decided and not yet written rests on a result that is still there (`VerdictsFollow`);
`RowMoves` says how rows move. `DevicesClaimedOnce`: a device that was claimed since it
was last set off line is shown on line, which the claim's condition excludes.
`RevisionsNameStates`: an answer never has a revision to come, and after the migration has
advanced the counters none has the present one (`AnswersAreOld`), so that the trigger's
first change after a rollback meets no answer. `GroupsGoForward`: a row that was found is
locked and stays as found. `DerivedFromFacts`: a heartbeat flagged as late is older than
what is shown (`LateIsOld`), which only gets newer; that the energy of a day is the
largest, and its count the number of its facts or one more, is kept by both routes.
`OwnersNotifiedOnce`, `AlarmsShownAsStored`: a notice that was written or is owed is of a
stored event, each row comes of a stored event and one is active at most; then, if the
events are in order, the one stored last decides what is shown.

An alarm is behind the committed offset only if it was stored or answered as stored
(`CommittedReportsAreStored`): the key that outlives a restart is set, like the mark of
the consumer, for such a report only (`AlarmPassed`).

**`PresenceProofs`.** `PresenceTypeCorrect`. The types are not inductive: a job takes the
head of its queue, so a job that handles an event, or will store a state, must have it
(`HasEvent`), through restarts and jobs of the set that carry none.

`RightLasts` is the part of the liveness properties that needs no fairness. Each of
these says that the system gets to what the mode asks for and stays there; the theorem
says that it stays. `Steady` is where it stays: Redis, database and cache agree with the
mode, the heartbeat says whether the device is heard, every event queued or begun is one
that this mode raises (`Raised`, `InLine`), and neither the sweep nor the reconciliation
has listed the device in another mode. No step leaves it while the mode lasts, with any
number of workers and callbacks. Four restrictions are true of the code. The
key of a device that reports must not expire. A faulty device is shown online by its
telemetry and its information, which the theorem allows, as `device_debug_repository.go:319`
says; the next report of the fault puts it right (`FaultIsShown`). It is set online by a
rebuild of the set too, in Redis and the cache, so the theorem asks that no rebuild is under
way. And a device that is heard
must have no last will being handled; one that the broker still holds is harmless, since
its handler looks for a heartbeat first (the mutant `LastWillAlways`). `Heard` is the
same of the set of devices online, for a device that reports, in either mode and with
rebuilds. That the system gets to `Steady` and `Heard` is left to TLC.

**The services together**, `ServicesProofs`. A step of `MCAccounts`, or of `MCDevices`, is
a step of each of its services or leaves its state alone, so a behaviour of them is one of
each (`AccountsAreParts`, `DevicesAreParts`); `AccountsAreSafe` and `DevicesAreSafe` state
their invariants and action properties together. `RecordsAreSafe` is not of this kind:
reports, windows and the import write one record. It needs that a report adds to the
audit and adds no import (`HardwareNextGrows`), so what was settled stays so, and that a
chunk only advances records and leaves the windows (`ChunkAdvances`), so a window stays
right or becomes void. `PartsAreRecords`: what the run looks at is part of that.
`ServicesAreParts` puts the three together, and `ServicesAreSafe` states every invariant
and action property of the run.

**Only model-checked.** The liveness properties `TasksEnd`, `Drains`,
`SilentGoesOffline`, `HealthyComesOnline`, `FaultIsShown`, `StaysInSet`, `SessionsEnd`
and `ReportsAreStored`: each needs fairness, and so ENABLED, which is out of the
prover's reach. The violations are runs by nature; those of `ota_one_in_flight` and
`ingest_order` mark the hypotheses of two theorems, the App's flow and a single worker.
`EffectsInOrder` and the refinement of `PartitionLog` are proved for one worker, because
with more they are false. Every other property of a passing run is also a theorem; the
run shows it on a small instance, and that the interesting states occur. The type
invariants of presence and of the services are theorems only (`PresenceTypeCorrect`,
`ServicesAreSafe`).

## 6. What is not modelled

The parts of modelled components named in section 3; several processes in one consumer
group; and these components:

- The outbox: `Enqueue` inserts rows that nothing in the repository reads. The RBAC
  cache: nothing writes or reads its entries.
- The dead letter queue's pages read other keys than the consumer writes, so they can do
  nothing to it. The Kafka probe is two atomics, the MQTT client a library's.
- Bulk jobs and the e-mail queue: a job gets its first status through a store without a
  client, and nothing makes an e-mail queue.
- The channel backfill, a command an operator runs alone, a transaction for a batch with
  its checkpoint.
- Energy schedules, a guarded statement each; the gateway, a proxy; the frontends;
  deployment and tools.

Much of the services' code is of these kinds, or consists of queries, validation,
formatting and permission checks of handlers whose state changes are modelled. The older
alarm formats and package firmware tasks are behaviour that could still be modelled. The
hazards that no property covers are listed with a note in `PROJECT.json`.
