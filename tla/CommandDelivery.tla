--------------------------- MODULE CommandDelivery ---------------------------
(***************************************************************************)
(* The control commands of one device, from the request to its result:     *)
(* business-api records a command and posts it to device-communication,    *)
(* which publishes it to the device, or refuses while the device is        *)
(* offline; such a command waits in a Redis list until the device comes    *)
(* back. The replies of the device come to DeviceCmdResult twice, straight *)
(* from MQTT and through Kafka, and may be repeated, late or lost.         *)
(*                                                                         *)
(* A command is recorded in two tables, by the same transactions. The row  *)
(* of device_commands is unique; device_cmd_logs, the history, has one for *)
(* every request that sends the command. There is one, unless the command  *)
(* is the stop of a debug session: "retry is safe" says the error of       *)
(* StopSession, and a retry sends the stop again under the id it has.      *)
(*                                                                         *)
(* All commands set the same parameter of the device; commands that set    *)
(* different ones, and the checks made before a command is recorded, do    *)
(* not concern the properties.                                             *)
(***************************************************************************)
EXTENDS Naturals, Sequences

CONSTANTS
    Commands,   \* the commands of the device
    Sends,      \* the numbers of the requests that send one command
    Firmware,   \* the replies the firmware of the device can give
    NoCommand   \* in control.desired and control.reported: no value yet

Stages   == {"acknowledged", "executing", "submitted"}
Verdicts == {"applied", "ok", "failed"}  \* "ok": a success of a firmware that names no stage
Replies  == Stages \cup Verdicts
Statuses == {"none", "pending", "queued", "sent"} \cup Stages \cup {"success", "failed"}

\* A request sends a command; its copy of the command goes to the queue and the channel.
Requests   == Commands \X Sends
Command(q) == q[1]

ASSUME CommandAssumption ==
    NoCommand \notin Commands /\ Sends \subseteq Nat /\ Firmware \subseteq Replies

VARIABLES
    debug,    \* commands that sendDebugCommand sends (set_debug_telemetry)
    stops,    \* those of them that StopSession sends
    status,   \* status[c] in device_commands
    history,  \* history[c]: the statuses of the rows of c in device_cmd_logs
    pc,       \* pc[q]: what the request q does next
    queue,    \* device:cmd:queue:<sn>: commands waiting for the device
    channel,  \* cmdChan: commands to be published by device-communication
    reached,  \* commands the device has received
    said,     \* said[c]: the replies of the device to c
    applied,  \* the commands whose setting the device has applied, in its order
    control,  \* device_control_state: desired, reported, revision, sync
    owed,     \* results recorded whose notice is not inserted yet
    told      \* notices to the owner of the device

kinds  == <<debug, stops>>
tables == <<status, history>>
sender == <<pc, queue, channel>>
device == <<reached, said, applied>>
notes  == <<owed, told>>
vars   == <<debug, stops, status, history, pc, queue, channel, reached, said, applied, control, owed, told>>

Init ==
    /\ debug = {} /\ stops = {}
    /\ status = [c \in Commands |-> "none"]
    /\ history = [c \in Commands |-> {}]
    /\ pc = [q \in Requests |-> "idle"]
    /\ queue = {} /\ channel = {}
    /\ reached = {} /\ said = [c \in Commands |-> {}] /\ applied = << >>
    /\ control = [desired |-> NoCommand, reported |-> NoCommand, revision |-> 0, sync |-> "unknown"]
    /\ owed = {} /\ told = {}

-----------------------------------------------------------------------------
(* The request that sends a command: SendCommand, SendPreparedCommand and  *)
(* sendDebugCommand.                                                       *)

At(q, place) == pc[q] = place
Goto(q, place) == pc' = [pc EXCEPT ![q] = place]

\* A command that is not recorded yet: an ordinary one, the start or the stop of a debug
\* session.
Created(c) ==
    /\ status[c] = "none"
    /\ status' = [status EXCEPT ![c] = "pending"]
    /\ \/ UNCHANGED kinds
       \/ debug' = debug \cup {c} /\ stops' \in {stops, stops \cup {c}}

\* A stop that is sent again keeps its id, and with it the row of device_commands. Requests
\* that began while the session was stopping send theirs at any time.
Repeated(c) == c \in stops /\ UNCHANGED <<status, kinds>>

\* InsertCommandLog: a new row of the history in any case. The requests of a command are
\* numbered as they begin.
Insert(q) ==
    /\ At(q, "idle") /\ Goto(q, "post")
    /\ \A n \in Sends : n < q[2] => ~ At(<<Command(q), n>>, "idle")
    /\ Created(Command(q)) \/ Repeated(Command(q))
    /\ history' = [history EXCEPT ![Command(q)] = @ \cup {"pending"}]
    /\ UNCHANGED <<queue, channel, device, control, notes>>

\* device-communication takes the command; its answer may not arrive in time.
PostTaken(q) ==
    /\ At(q, "post")
    /\ channel' = channel \cup {q}
    /\ Goto(q, "sent") \/ Goto(q, "failed")
    /\ UNCHANGED <<kinds, tables, queue, device, control, notes>>

\* The server is not reached, or answers with an error.
PostRefused(q) ==
    /\ At(q, "post") /\ Goto(q, "failed")
    /\ UNCHANGED <<kinds, tables, queue, channel, device, control, notes>>

\* The device is offline (503): the command is to wait, unless it is a debug command.
PostOffline(q) ==
    /\ At(q, "post")
    /\ Goto(q, IF Command(q) \in debug THEN "failed" ELSE "queued")
    /\ UNCHANGED <<kinds, tables, queue, channel, device, control, notes>>

UnansweredOrNot == Statuses \ {"none"}

\* The statuses UpdateCommandLogStatus may overwrite.
Unanswered == {"pending", "queued", "sent"}

\* The rows of a command, after those with a status in over were set to st.
Overwrite(rows, over, st) == IF rows \cap over = {} THEN rows ELSE (rows \ over) \cup {st}

\* Both tables of command c, after the rows with a status in over were set to st.
Write(c, over, st) ==
    /\ history' = [history EXCEPT ![c] = Overwrite(@, over, st)]
    /\ status' = [status EXCEPT ![c] = IF @ \in over THEN st ELSE @]

\* UpdateCommandLogStatus writes how the post went; an error of the database is ignored.
Mark(q) ==
    /\ pc[q] \in {"sent", "queued", "failed"}
    /\ Write(Command(q), Unanswered, pc[q]) \/ UNCHANGED tables
    /\ Goto(q, CASE pc[q] = "queued" -> "push"
                 [] pc[q] = "sent" /\ Command(q) \notin debug -> "desire"
                 [] OTHER -> "done")
    /\ UNCHANGED <<kinds, queue, channel, device, control, notes>>

Push(q) ==
    /\ At(q, "push") /\ Goto(q, "done")
    /\ queue' = queue \cup {q}
    /\ UNCHANGED <<kinds, tables, channel, device, control, notes>>

DesireKeepingSync(q) ==
    /\ At(q, "desire") /\ Goto(q, "tell")
    /\ control' = [control EXCEPT !.desired = Command(q)]
    /\ UNCHANGED <<kinds, tables, queue, channel, device, notes>>

\* SetDesiredControlState; not for queries, and an error is ignored.
Desire(q) ==
    /\ At(q, "desire") /\ Goto(q, "tell")
    /\ \/ control' = [control EXCEPT !.desired = Command(q), !.sync = "pending"]
       \/ UNCHANGED control
    /\ UNCHANGED <<kinds, tables, queue, channel, device, notes>>

\* A notice is not repeated for the device and its kind within a minute.
Record(n) == told' = told \cup {n} \/ UNCHANGED told

Tell(q) ==
    /\ At(q, "tell") /\ Goto(q, "done")
    /\ Record(<<Command(q), "sent">>)
    /\ UNCHANGED <<kinds, tables, queue, channel, device, control, owed>>

-----------------------------------------------------------------------------
(* device-communication: the queue of the device and its command channel.  *)

FlushPeeking(q) ==
    /\ q \in queue
    /\ channel' = channel \cup {q}
    /\ UNCHANGED <<kinds, tables, pc, queue, device, control, notes>>

\* The device comes online: a waiting command is taken, unless it is too old.
Flush(q) ==
    /\ q \in queue /\ queue' = queue \ {q}
    /\ channel' = channel \cup {q} \/ UNCHANGED channel
    /\ UNCHANGED <<kinds, tables, pc, device, control, notes>>

\* Five minutes after the last command was pushed, the list is gone.
QueueExpires ==
    /\ queue # {} /\ queue' = {}
    /\ UNCHANGED <<kinds, tables, pc, channel, device, control, notes>>

\* The command is published; the device receives it, or it is lost.
Publish(q) ==
    /\ q \in channel /\ channel' = channel \ {q}
    /\ reached' = reached \cup {q} \/ UNCHANGED reached
    /\ UNCHANGED <<kinds, tables, pc, queue, said, applied, control, notes>>

-----------------------------------------------------------------------------
(* The device. It does a command once, however often it is delivered, and  *)
(* ends it with one verdict.                                               *)

DeviceSays(c, r) ==
    /\ \E q \in reached : Command(q) = c
    /\ said[c] \cap Verdicts = {}
    /\ said' = [said EXCEPT ![c] = @ \cup {r}]
    /\ applied' = IF r \in {"applied", "ok"} /\ c \notin debug THEN Append(applied, c) ELSE applied
    /\ UNCHANGED <<kinds, tables, sender, reached, control, notes>>

-----------------------------------------------------------------------------
(* Results: DeviceCmdResult, for any reply ever given, any number of times.*)

ResultStatusRaw(r) == r

ResultStatus(r) == CASE r \in {"applied", "ok"} -> "success" [] OTHER -> r

Terminal(st) == st \in {"success", "failed", "submitted"}

PredecessorsAnyResult(r) ==
    {"pending", "queued", "sent", "acknowledged", "executing"}
        \cup (IF Terminal(ResultStatus(r)) THEN {"submitted"} ELSE {})

\* The statuses a reply may overwrite.
Predecessors(r) ==
    {"pending", "queued", "sent"}
        \cup (IF r # "acknowledged" THEN {"acknowledged"} ELSE {})
        \cup (IF Terminal(ResultStatus(r)) THEN {"executing"} ELSE {})
        \cup (IF r = "applied" THEN {"submitted"} ELSE {})

Result(c, r) ==
    /\ r \in said[c]
    /\ history[c] \cap Predecessors(r) # {}
    /\ Write(c, Predecessors(r), ResultStatus(r))
    /\ owed' = IF Terminal(ResultStatus(r)) THEN owed \cup {<<c, ResultStatus(r)>>} ELSE owed
    /\ UNCHANGED <<kinds, sender, device, control, told>>

Notify(n) ==
    /\ n \in owed /\ owed' = owed \ {n}
    /\ Record(n)
    /\ UNCHANGED <<kinds, tables, sender, device, control>>

\* SaveReportedConfigV2: the device reports its configuration as of its i-th change.
ReportConfig(i) ==
    /\ i \in DOMAIN applied /\ i >= control.revision
    /\ control' = [control EXCEPT
         !.reported = applied[i], !.revision = i,
         !.sync = CASE control.desired = NoCommand  -> "unknown"
                    [] control.desired = applied[i] -> "synced"
                    [] OTHER -> "drifted"]
    /\ UNCHANGED <<kinds, tables, sender, device, notes>>

-----------------------------------------------------------------------------
(* A restart of business-api loses its requests and the notices it owes, a *)
(* restart of device-communication its channel.                            *)

RestartApi ==
    /\ pc' = [q \in Requests |-> IF At(q, "idle") THEN "idle" ELSE "done"]
    /\ owed' = {}
    /\ UNCHANGED <<kinds, tables, queue, channel, device, control, told>>

RestartServer ==
    /\ channel' = {}
    /\ UNCHANGED <<kinds, tables, pc, queue, device, control, notes>>

Next ==
    \/ \E q \in Requests :
          \/ Insert(q) \/ PostTaken(q) \/ PostRefused(q) \/ PostOffline(q)
          \/ Mark(q) \/ Push(q) \/ Desire(q) \/ Tell(q)
          \/ Flush(q) \/ Publish(q)
    \/ \E c \in Commands, r \in Firmware : DeviceSays(c, r) \/ Result(c, r)
    \/ \E n \in owed : Notify(n)
    \/ \E i \in DOMAIN applied : ReportConfig(i)
    \/ QueueExpires \/ RestartApi \/ RestartServer

Spec == Init /\ [][Next]_vars

-----------------------------------------------------------------------------
(* Properties. *)

\* The types of the variables.
TypeOK ==
    /\ debug \subseteq Commands /\ stops \subseteq debug
    /\ status \in [Commands -> Statuses]
    /\ history \in [Commands -> SUBSET (Statuses \ {"none"})]
    /\ pc \in [Requests -> {"idle", "post", "sent", "queued", "failed", "push", "desire", "tell", "done"}]
    /\ queue \subseteq Requests /\ channel \subseteq Requests /\ reached \subseteq Requests
    /\ said \in [Commands -> SUBSET Replies]
    /\ applied \in Seq(Commands)
    /\ control \in [desired : Commands \cup {NoCommand}, reported : Commands \cup {NoCommand},
                    revision : Nat, sync : {"unknown", "pending", "synced", "drifted"}]
    /\ owed \subseteq Commands \X {"success", "failed", "submitted"}
    /\ told \subseteq Commands \X {"sent", "success", "failed", "submitted"}

\* The row of a command in device_commands moves forward only, and says of the device what
\* it said: UpdateCommandLogStatus and DeviceCmdResult write it in any order.
Ledger == INSTANCE CommandLedger
LedgerSpec == Ledger!Spec

\* The two tables and the notices agree. What device_commands says of a command, the history
\* says; only the history of a stop that was sent again says more. A notice of a result has
\* a row that bears it out, and no other result contradicts it; and unless the command is
\* such a stop, whose every row may be given the result again, none is given twice.
NoticesAgree ==
    /\ \A c \in Commands : status[c] # "none" =>
         /\ status[c] \in history[c]
         /\ c \in stops \/ history[c] = {status[c]}
    /\ \A n \in owed \cap told : n[1] \in stops
    /\ \A c \in Commands :
         /\ \A st \in {"success", "failed", "submitted"} : <<c, st>> \in owed \cup told =>
              st \in history[c] \/ (st = "submitted" /\ "success" \in history[c])
         /\ ~ {<<c, "success">>, <<c, "failed">>} \subseteq owed \cup told

\* What a request sends, there is one copy of on its way: what was published is not published
\* again later, when the effect may be unwanted. A debug command never waits for the device
\* ("调试命令绝不进入离线延迟队列", device_debug_service.go:126), and no command but a stop
\* has two requests.
InHand == {q \in Requests : pc[q] \in {"post", "queued", "push"}}
OneCopy == /\ queue \cap (channel \cup reached \cup InHand) = {}
           /\ channel \cap (reached \cup InHand) = {}
           /\ reached \cap InHand = {}
           /\ \A p, q \in queue \cup channel \cup reached \cup InHand :
                Command(p) = Command(q) => p = q \/ Command(q) \in stops
           /\ \A q \in queue : Command(q) \notin debug

\* The control state says "synced" only of a value the device really has had: desired and
\* reported are written by two services, from a request and from a device, in any order.
SyncedIsApplied == control.sync = "synced" =>
    /\ control.revision \in DOMAIN applied
    /\ applied[control.revision] = control.desired

\* A command shown as failed was not carried out: "超时只表示云端未得到最终结果，
\* 不自动断言设备失败" (03-架构与数据.md:158). Violated.
FailedIsNotApplied == \A c \in Commands : status[c] = "failed" => \A i \in DOMAIN applied : applied[i] # c
=============================================================================
