--------------------------- MODULE DevicePresence ---------------------------
(***************************************************************************)
(* Whether a device is online, offline or faulty, as the system believes.  *)
(* device-communication keeps a state machine (DeviceStateManager): a      *)
(* state in Redis, a cache of it in the process, a heartbeat key with a    *)
(* time to live and the set of the devices online. Its Kafka workers and   *)
(* MQTT callbacks, the reconciliation of the set and the rebuild of it run *)
(* at once on one manager and take no lock: each decides from the cached   *)
(* state, writes Redis, posts the state to business-api and only then      *)
(* stores it in the cache. business-api keeps devices.status, and sweeps   *)
(* devices that it has not heard of off line on its own. Telemetry and the *)
(* information of a device reach it too, and set the status "online" past  *)
(* the state machine.                                                      *)
(*                                                                         *)
(* One device: nothing joins the states of two. Keys of Redis last; the    *)
(* listener for expired keys is left out, since the events it subscribes   *)
(* to are not the ones it enables. The notices of a change, and the status *)
(* of the station, which is recomputed from its devices, are left out. Two *)
(* more handlers write the status: DeviceAlarm, which is not routed, and   *)
(* DeviceData, which does what DeviceDataBatch does and is not called.     *)
(***************************************************************************)
EXTENDS Naturals, Sequences

CONSTANTS
    Parsers,      \* the Kafka workers of the protocol parser
    Callbacks,    \* the MQTT callbacks of the client
    MaxTurns,     \* bound: how often the device changes its mode
    MaxUpsets     \* bound: restarts, recoveries of Redis, failed posts and updates, together

ASSUME PresenceAssumption ==
    /\ MaxTurns \in Nat /\ MaxUpsets \in Nat
    /\ (Parsers \cup Callbacks) \cap {"reconciler", "rebuild"} = {}

States == {"Offline", "Online", "Fault"}
Debounced == {"OnlineReport", "OfflineReport", "FaultDetected", "FaultRecovered"}
Events == Debounced \cup {"LWTOffline"}
Work   == Events \cup {"Telemetry"}  \* what a handler has left to do
Modes  == {"healthy", "faulty", "silent"}
Sweeps == {"idle", "listed", "again", "gone"}
Jobs   == Parsers \cup Callbacks \cup {"reconciler", "rebuild"}

VARIABLES
    mode,       \* the device: reports no fault, reports a fault, reports nothing
    backlog,    \* the device has samples of the time without a connection to send
    will,       \* the broker has a last will of the device to deliver
    heartbeat,  \* device:heartbeat:<sn> exists
    onlineSet,  \* the device is in device:online_set
    state,      \* device:state:<sn>
    cache,      \* stateCache of the manager, or "none"
    debounce,   \* the events whose device:debounce key exists
    job,        \* job[j]: what j does next, what it has left to do, towards which state
    info,       \* the registry holds information of the device to post
    up,         \* the process has started: its handlers and tickers run
    status,     \* devices.status in the database
    recent,     \* last_online_at is younger than the threshold of the sweep
    sweep,      \* the device in the sweep: listed as stale, to be looked at again, found gone
    turns,      \* changes of mode so far
    upsets      \* restarts, recoveries, failed posts and updates so far

device == <<mode, backlog, will, turns>>
redis  == <<heartbeat, onlineSet, state, debounce>>
api    == <<status, recent, sweep>>
vars   == <<mode, backlog, will, heartbeat, onlineSet, state, cache, debounce, up, job, info,
            status, recent, sweep, turns, upsets>>

Idle == [pc |-> "idle", todo |-> << >>, to |-> "Offline", mark |-> FALSE]

\* What the system holds of a device whose mode has long been m.
Settled(m) == IF m = "silent" THEN "Offline" ELSE IF m = "healthy" THEN "Online" ELSE "Fault"

\* A running system and a device that has long been in its mode; the last will of one
\* that is silent may still be with the broker.
Init ==
    /\ mode \in Modes /\ will \in {FALSE, mode = "silent"} /\ backlog = FALSE
    /\ turns = 0 /\ upsets = 0
    /\ heartbeat = (mode # "silent") /\ onlineSet = heartbeat
    /\ state = Settled(mode) /\ cache = state /\ debounce = {}
    /\ up = TRUE /\ job = [j \in Jobs |-> Idle] /\ info = FALSE
    /\ status = Settled(mode) /\ recent = (mode = "healthy") /\ sweep = "idle"

-----------------------------------------------------------------------------
(* The state machine.                                                      *)

\* Mutant: a transition leads to another state.
TransitionsOfChange ==
    { <<"Offline", "OnlineReport",   "Online">>,  <<"Offline", "FaultDetected", "Fault">>,
      <<"Online",  "OfflineReport",  "Offline">>, <<"Online",  "FaultDetected", "Fault">>,
      <<"Online",  "LWTOffline",     "Offline">>, <<"Fault",   "OfflineReport", "Offline">>,
      <<"Fault",   "FaultRecovered", "Online">>,  <<"Fault",   "LWTOffline",    "Offline">> }

\* stateTransitionMatrix: the pairs that are missing are not allowed.
Transitions ==
    { <<"Offline", "OnlineReport",   "Online">>,  <<"Offline", "FaultDetected", "Fault">>,
      <<"Online",  "OfflineReport",  "Offline">>, <<"Online",  "FaultDetected", "Fault">>,
      <<"Online",  "LWTOffline",     "Offline">>, <<"Fault",   "OnlineReport",  "Fault">>,
      <<"Fault",   "OfflineReport",  "Offline">>, <<"Fault",   "FaultDetected", "Fault">>,
      <<"Fault",   "FaultRecovered", "Online">>,  <<"Fault",   "LWTOffline",    "Offline">> }

CanTransition(s, e) == \E t \in States : <<s, e, t>> \in Transitions
Target(s, e) == CHOOSE t \in States : <<s, e, t>> \in Transitions

\* GetDeviceState: the cache, else Redis.
Seen == IF cache = "none" THEN state ELSE cache

\* Mutant: a report that changes nothing is not posted.
RefreshesNever(s, e) == FALSE

\* A report of a device that is online already is posted all the same.
Refreshes(s, e) == s = "Online" /\ e = "OnlineReport"

Busy(j, pc) == job[j].pc = pc
Event(j)    == Head(job[j].todo)
AfterEvent(j) ==
    IF Len(job[j].todo) > 1
    THEN [Idle EXCEPT !.pc = "event", !.todo = Tail(job[j].todo)]
    ELSE Idle

\* executeStateChange, its writes to Redis.
WriteState(to) ==
    /\ state' = to
    /\ heartbeat' = (heartbeat /\ to # "Offline")
    /\ onlineSet' = (onlineSet /\ to # "Offline")

\* The first half of HandleStateChange: it looks at the state, the matrix and
\* the debounce key, and drops the event or writes the new state to Redis.
Decide(j) ==
    /\ Busy(j, "event") /\ Event(j) \in Events
    /\ cache' = Seen
    /\ LET e == Event(j)
           goes == Refreshes(Seen, e) \/ (CanTransition(Seen, e) /\ e \notin debounce)
           to == IF Refreshes(Seen, e) THEN "Online" ELSE Target(Seen, e)
       IN \/ /\ goes
             /\ WriteState(to)
             /\ job' = [job EXCEPT ![j].pc = "post", ![j].to = to, ![j].mark = ~Refreshes(Seen, e)]
          \/ /\ ~goes
             /\ job' = [job EXCEPT ![j] = AfterEvent(j)]
             /\ UNCHANGED <<heartbeat, onlineSet, state>>
    /\ UNCHANGED <<device, debounce, api, up, info, upsets>>

\* DeviceStatus of business-api.
DeviceStatus(to) ==
    /\ status' = to
    /\ recent' = (recent \/ to = "Online")
    /\ UNCHANGED sweep

\* executeStateChange posts the state. Without an error a transition goes on to
\* the cache; a refresh and a job of the set do not.
PostAnswered(j) ==
    /\ Busy(j, "post")
    /\ DeviceStatus(job[j].to)
    /\ job' = [job EXCEPT ![j] =
          IF job[j].mark THEN [@ EXCEPT !.pc = "store"] ELSE AfterEvent(j)]
    /\ UNCHANGED <<device, redis, cache, up, info, upsets>>

\* The retries are used up. The status may have been written or not, and the
\* cache and the debounce key stay as they were.
PostFails(j) ==
    /\ Busy(j, "post") /\ upsets < MaxUpsets
    /\ upsets' = upsets + 1
    /\ DeviceStatus(job[j].to) \/ UNCHANGED api
    /\ job' = [job EXCEPT ![j] = AfterEvent(j)]
    /\ UNCHANGED <<device, redis, cache, up, info>>

\* The update of the row fails. business-api answers with HTTP 200 and an error in
\* the body, which the poster takes for success.
PostSwallowed(j) ==
    /\ Busy(j, "post") /\ upsets < MaxUpsets
    /\ upsets' = upsets + 1
    /\ job' = [job EXCEPT ![j] =
          IF job[j].mark THEN [@ EXCEPT !.pc = "store"] ELSE AfterEvent(j)]
    /\ UNCHANGED <<device, redis, cache, api, up, info>>

\* The end of HandleStateChange; a last will has no debounce time.
Store(j) ==
    /\ Busy(j, "store")
    /\ cache' = job[j].to
    /\ debounce' = debounce \cup ({Event(j)} \cap Debounced)
    /\ job' = [job EXCEPT ![j] = AfterEvent(j)]
    /\ UNCHANGED <<device, heartbeat, onlineSet, state, api, up, info, upsets>>

DebounceExpires(e) ==
    /\ e \in debounce
    /\ debounce' = debounce \ {e}
    /\ UNCHANGED <<device, heartbeat, onlineSet, state, cache, job, api, up, info, upsets>>

\* The end of handleTelemetry, DeviceDataBatch: a device with another status is online, unless
\* it was so within the last 30 seconds. An update that fails is only logged.
Telemetry(j) ==
    /\ Busy(j, "event") /\ Event(j) = "Telemetry"
    /\ \/ status # "Online" /\ DeviceStatus("Online")
       \/ UNCHANGED api
    /\ job' = [job EXCEPT ![j] = AfterEvent(j)]
    /\ UNCHANGED <<device, redis, cache, up, info, upsets>>

-----------------------------------------------------------------------------
(* The device, its messages and its silence.                               *)

\* The device changes its mode; when it falls silent the broker may have a will.
Turn(m) ==
    /\ turns < MaxTurns /\ m # mode
    /\ turns' = turns + 1
    /\ mode' = m
    /\ backlog' = (backlog \/ mode = "silent")
    /\ will' = (will \/ m = "silent")
    /\ UNCHANGED <<redis, cache, job, api, up, info, upsets>>

\* Mutant: a heartbeat does not add the device to the set.
HandleKeyOnly(w, beat, todo) ==
    /\ up /\ Busy(w, "idle")
    /\ heartbeat' = (heartbeat \/ beat)
    /\ job' = [job EXCEPT ![w] = [Idle EXCEPT !.pc = "event", !.todo = todo]]
    /\ UNCHANGED <<onlineSet, state, cache, debounce, api, up, info, upsets>>

\* A worker takes a message: todo is the events that its handler will raise, one
\* after the other. Any message but a backfill counts as a heartbeat.
Handle(w, beat, todo) ==
    /\ up /\ Busy(w, "idle")
    /\ heartbeat' = (heartbeat \/ beat)
    /\ onlineSet' = (onlineSet \/ beat)
    /\ job' = [job EXCEPT ![w] = [Idle EXCEPT !.pc = "event", !.todo = todo]]
    /\ UNCHANGED <<state, cache, debounce, api, up, info, upsets>>

\* What a heartbeat says of faults: HandleFaultRecovery is called in state Fault
\* only, where the matrix asks the same.
Condition(faulty) == IF faulty THEN "FaultDetected" ELSE "FaultRecovered"

Heartbeat(w) ==
    /\ mode # "silent"
    /\ Handle(w, TRUE, <<"OnlineReport", Condition(mode = "faulty")>>)
    /\ UNCHANGED device

\* A status "online", or a heartbeat with a code that is only information.
Uplink(w) ==
    /\ mode # "silent"
    /\ Handle(w, TRUE, <<"OnlineReport">>)
    /\ UNCHANGED device

\* Telemetry of a topic of its own; only that of data/status says something of faults.
Sample(w) ==
    /\ mode # "silent"
    /\ \/ Handle(w, TRUE, <<"OnlineReport", "Telemetry">>)
       \/ Handle(w, TRUE, <<"OnlineReport", Condition(mode = "faulty"), "Telemetry">>)
    /\ UNCHANGED device

\* A message of any other topic counts as a heartbeat before a worker has it.
Hear(c) ==
    /\ up /\ Busy(c, "idle") /\ mode # "silent"
    /\ heartbeat' = TRUE /\ onlineSet' = TRUE
    /\ UNCHANGED <<device, state, cache, debounce, job, api, up, info, upsets>>

\* handleInfo gives the information to the registry, which posts it later.
Inform ==
    /\ up /\ mode # "silent" /\ info' = TRUE
    /\ UNCHANGED <<device, redis, cache, job, api, up, upsets>>

\* DeviceInfo of business-api: the device is online, unless it is faulty and has a critical
\* alarm. The post may fail for good, or be repeated although it was not lost.
Register ==
    /\ info /\ info' \in BOOLEAN
    /\ \/ /\ \E to \in {"Online"} \cup ({"Fault"} \cap {status}) : status' = to
          /\ recent' = TRUE /\ UNCHANGED sweep
       \/ UNCHANGED api
    /\ UNCHANGED <<device, redis, cache, job, up, upsets>>

\* A heartbeat kept by the device while it had no connection: only its faults count.
Backfill(w) ==
    /\ mode # "silent" /\ backlog
    /\ \E faulty \in BOOLEAN : Handle(w, FALSE, <<Condition(faulty)>>)
    /\ backlog' = FALSE
    /\ UNCHANGED <<mode, will, turns>>

\* handleOnline with online = false: the last message before the device falls
\* silent, which counts as a heartbeat like any other.
Goodbye(w) ==
    /\ turns < MaxTurns /\ mode # "silent"
    /\ turns' = turns + 1 /\ mode' = "silent" /\ UNCHANGED <<backlog, will>>
    /\ Handle(w, TRUE, <<"OfflineReport">>)

\* Mutant: a last will counts although the device is heard again.
LastWillAlways(w) ==
    /\ will /\ up /\ Busy(w, "idle")
    /\ will' = FALSE
    /\ Handle(w, FALSE, <<"LWTOffline">>)
    /\ UNCHANGED <<mode, backlog, turns>>

\* HandleLWTOffline: ignored while there is a heartbeat.
LastWill(w) ==
    /\ will /\ up /\ Busy(w, "idle")
    /\ will' = FALSE
    /\ \/ heartbeat /\ UNCHANGED <<redis, cache, job, api, up, info, upsets>>
       \/ ~heartbeat /\ Handle(w, FALSE, <<"LWTOffline">>)
    /\ UNCHANGED <<mode, backlog, turns>>

\* The key lives five minutes, and the topics of a device come every one to six
\* (protocol_parser.go:1884): it expires between reports as well as in silence.
HeartbeatExpires ==
    /\ heartbeat
    /\ heartbeat' = FALSE
    /\ UNCHANGED <<device, onlineSet, state, cache, debounce, job, api, up, info, upsets>>

-----------------------------------------------------------------------------
(* The jobs of device-communication on the set.                            *)

\* reconcileOnlineSet: it lists the devices of the set without a heartbeat, then
\* takes them out and posts them off line. It does not look again.
ReconcileList ==
    /\ up /\ Busy("reconciler", "idle")
    /\ onlineSet /\ ~heartbeat
    /\ job' = [job EXCEPT !["reconciler"].pc = "stale"]
    /\ UNCHANGED <<device, redis, cache, api, up, info, upsets>>

Reconcile ==
    /\ Busy("reconciler", "stale")
    /\ WriteState("Offline") /\ cache' = "Offline"
    /\ job' = [job EXCEPT !["reconciler"].pc = "post"]
    /\ UNCHANGED <<device, debounce, api, up, info, upsets>>

\* RebuildOnlineSet, after a start of the process or a recovery of Redis: the set
\* becomes the devices with a heartbeat, and each of them is posted online.
RebuildScan ==
    /\ Busy("rebuild", "start")
    /\ job' = [job EXCEPT !["rebuild"].pc = IF heartbeat THEN "found" ELSE "missing"]
    /\ UNCHANGED <<device, redis, cache, api, up, info, upsets>>

Rebuild ==
    \/ /\ Busy("rebuild", "found")
       /\ onlineSet' = TRUE /\ state' = "Online" /\ cache' = "Online"
       /\ job' = [job EXCEPT !["rebuild"] = [Idle EXCEPT !.pc = "post", !.to = "Online"]]
       /\ UNCHANGED <<device, heartbeat, debounce, api, up, info, upsets>>
    \/ /\ Busy("rebuild", "missing")
       /\ onlineSet' = FALSE
       /\ job' = [job EXCEPT !["rebuild"] = Idle]
       /\ UNCHANGED <<device, heartbeat, state, debounce, cache, api, up, info, upsets>>

RedisRecovers ==
    /\ upsets < MaxUpsets /\ Busy("rebuild", "idle")
    /\ upsets' = upsets + 1
    /\ job' = [job EXCEPT !["rebuild"].pc = "start"]
    /\ UNCHANGED <<device, redis, cache, up, info, api>>

\* A restart of device-communication loses the cache and what was under way; the
\* set is rebuilt before the handlers and tickers start.
Restart ==
    /\ upsets < MaxUpsets
    /\ upsets' = upsets + 1
    /\ cache' = "none" /\ up' = FALSE /\ info' = FALSE
    /\ job' = [j \in Jobs |-> IF j = "rebuild" THEN [Idle EXCEPT !.pc = "start"] ELSE Idle]
    /\ UNCHANGED <<device, redis, api>>

Started ==
    /\ ~up /\ Busy("rebuild", "idle")
    /\ up' = TRUE
    /\ UNCHANGED <<device, redis, cache, job, api, info, upsets>>

-----------------------------------------------------------------------------
(* The sweep of business-api: MarkStaleDevicesOffline, MarkDeviceOffline.  *)

Ages ==
    /\ recent
    /\ recent' = FALSE
    /\ UNCHANGED <<device, redis, cache, job, status, sweep, up, info, upsets>>

\* Mutant: the sweep looks at devices shown online only.
SweepListOnline ==
    /\ sweep = "idle" /\ status = "Online" /\ ~recent /\ ~heartbeat
    /\ sweep' = "listed"
    /\ UNCHANGED <<device, redis, cache, job, status, recent, up, info, upsets>>

SweepList ==
    /\ sweep = "idle" /\ status # "Offline" /\ ~recent /\ ~heartbeat
    /\ sweep' = "listed"
    /\ UNCHANGED <<device, redis, cache, job, status, recent, up, info, upsets>>

SweepMark ==
    /\ sweep = "listed"
    /\ sweep' \in {"again", "idle"} /\ status' = "Offline"
    /\ UNCHANGED <<device, redis, cache, job, recent, up, info, upsets>>

\* runHeartbeatCheck calls it for each device it marked, unless a query of it fails. If the
\* device is shown online again by then, this does not ask for its age.
MarkDeviceOffline ==
    /\ \/ /\ sweep = "again"
          /\ sweep' = IF status # "Offline" /\ ~heartbeat THEN "gone" ELSE "idle"
          /\ UNCHANGED status
       \/ sweep = "gone" /\ sweep' = "idle" /\ status' = "Offline"
    /\ UNCHANGED <<device, redis, cache, job, recent, up, info, upsets>>

-----------------------------------------------------------------------------
Parses(p) == Heartbeat(p) \/ Uplink(p) \/ Sample(p) \/ Backfill(p) \/ Goodbye(p)
CallsBack(c) == Uplink(c) \/ Hear(c) \/ LastWill(c)
Advance(j) ==
    Decide(j) \/ PostAnswered(j) \/ PostFails(j) \/ PostSwallowed(j) \/ Store(j) \/ Telemetry(j)

Next ==
    \/ \E m \in Modes : Turn(m)
    \/ \E p \in Parsers : Parses(p)
    \/ \E c \in Callbacks : CallsBack(c)
    \/ \E j \in Jobs : Advance(j)
    \/ \E e \in Debounced : DebounceExpires(e)
    \/ Inform \/ Register
    \/ HeartbeatExpires \/ Ages \/ SweepList \/ SweepMark \/ MarkDeviceOffline
    \/ ReconcileList \/ Reconcile \/ RebuildScan \/ Rebuild \/ RedisRecovers \/ Restart \/ Started

\* Jobs and the registry go on, debounce keys expire, and the tickers of the reconciliation
\* and of the sweep fire. A device that reports is heard again and again; one that does not
\* loses its key and its age.
Fairness ==
    /\ \A j \in Jobs : WF_vars(Advance(j))
    /\ \A e \in Debounced : WF_vars(DebounceExpires(e))
    /\ SF_vars(\E p \in Parsers : Heartbeat(p))
    /\ WF_vars(Register /\ ~info')
    /\ WF_vars(mode = "silent" /\ HeartbeatExpires) /\ WF_vars(mode = "silent" /\ Ages)
    /\ WF_vars(SweepList \/ SweepMark \/ MarkDeviceOffline)
    /\ WF_vars(ReconcileList \/ Reconcile) /\ WF_vars(RebuildScan \/ Rebuild \/ Started)

Spec == Init /\ [][Next]_vars /\ Fairness

-----------------------------------------------------------------------------
\* The values the state can take: keys of Redis, the cache, the jobs and the row
\* of the device.
TypeOK ==
    /\ mode \in Modes /\ backlog \in BOOLEAN /\ will \in BOOLEAN
    /\ turns \in 0 .. MaxTurns /\ upsets \in 0 .. MaxUpsets
    /\ heartbeat \in BOOLEAN /\ onlineSet \in BOOLEAN
    /\ state \in States /\ cache \in States \cup {"none"} /\ debounce \subseteq Debounced
    /\ job \in [Jobs -> [pc : {"idle", "event", "post", "store", "stale", "start",
                               "found", "missing"},
                         todo : Seq(Work), to : States, mark : BOOLEAN]]
    /\ up \in BOOLEAN /\ info \in BOOLEAN /\ status \in States
    /\ recent \in BOOLEAN /\ sweep \in Sweeps

\* A device that falls silent for good is shown off line in the end, whatever was
\* still being handled, whatever posts failed, and whatever the process and its
\* reconciliation did meanwhile.
SilentGoesOffline == <>[](mode = "silent") => <>[](status = "Offline")

\* From some time on the key of the device does not expire between its reports.
KeyLasts == <>[][~HeartbeatExpires]_vars

\* A device that reports no fault for good, often enough for its key, is shown online again
\* and again: no order of handlers, no job of a time when the key had expired, no lost post
\* and no restart leaves it off line or faulty for ever.
HealthyComesOnline == <>[](mode = "healthy") /\ KeyLasts => []<>(status = "Online")

\* A device that reports a fault for good, often enough for its key, is shown faulty again and
\* again. It is not shown so for ever: its telemetry and information set it online in between
\* ("故障但在线，遥测会拉回 1", device_debug_repository.go:319 says so), and the next report
\* of the fault puts that right.
FaultIsShown == <>[](mode = "faulty") /\ KeyLasts => []<>(status = "Fault")

\* A device that reports for good, often enough for its key, is in the set of devices online
\* in the end and stays there, although the reconciliation and the rebuild write the set from
\* what they read before, and keys that had expired earlier are still being acted upon.
StaysInSet == <>[](mode # "silent") /\ KeyLasts => <>[]onlineSet

-----------------------------------------------------------------------------
(* What a running system keeps while the mode of the device lasts.         *)

\* The events that a device in mode m, or its silence, raises.
Raised(m) ==
    CASE m = "healthy" -> {"OnlineReport", "FaultRecovered", "Telemetry"}
      [] m = "faulty"  -> {"OnlineReport", "FaultDetected", "Telemetry"}
      [] m = "silent"  -> {"OfflineReport", "LWTOffline"}

\* What job j has begun is about the mode the device is in, not about an earlier one.
InLine(j) ==
    /\ job[j].todo \in Seq(Raised(mode))
    /\ Busy(j, "post") \/ Busy(j, "store") => job[j].to = Settled(mode)
    /\ IF mode = "silent" THEN ~Busy(j, "found") ELSE ~Busy(j, "stale") /\ ~Busy(j, "missing")

\* The system holds what the mode asks for, and nothing older is under way.
Steady ==
    /\ state = Settled(mode) /\ cache \in {state, "none"}
    /\ status = state \/ (mode = "faulty" /\ status = "Online")
    /\ IF mode = "silent" THEN ~heartbeat /\ ~info
       ELSE heartbeat /\ ~backlog /\ sweep \in {"idle", "again"}
    /\ \A j \in Jobs : InLine(j)
    /\ mode = "faulty" => Busy("rebuild", "idle")

\* The device is heard and listed, and nothing that was decided before takes it out.
Heard ==
    /\ mode # "silent" /\ heartbeat /\ onlineSet
    /\ \A j \in Jobs :
          /\ job[j].todo \in Seq(Work \ {"OfflineReport", "LWTOffline"})
          /\ ~Busy(j, "stale") /\ ~Busy(j, "missing")

\* Once the system holds of a device what it should and nothing older is under way, it goes
\* on to do so while the mode lasts and a device that reports does so within the life of its
\* key: no report, failed or swallowed post, last will, sweep, reconciliation or restart sets
\* the state of the device wrong, or its status, but for the faulty device that its telemetry
\* and information show online. A rebuild of the set does, of a faulty device, which it sets
\* online. And a device that is heard and listed stays so until it falls silent or its key
\* expires, whatever it reports of faults, whatever will an earlier silence left, and however
\* the reconciliation and the rebuild of the set run against its messages.
RightStays ==
    [][/\ /\ Steady /\ mode' = mode
          /\ mode # "silent" => ~HeartbeatExpires
          /\ mode = "faulty" => Busy("rebuild", "idle")'
          => Steady'
       /\ Heard /\ mode' # "silent" /\ ~HeartbeatExpires => Heard']_vars
=============================================================================
