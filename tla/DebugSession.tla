---------------------------- MODULE DebugSession ----------------------------
(***************************************************************************)
(* Debug sessions: for a limited time the device sends samples at short    *)
(* intervals. A session is a row of device_debug_sessions; a start inserts *)
(* it and then sends a command, a stop marks it and then sends a command,  *)
(* the device's results move it on, and a coordinator reads the samples    *)
(* that arrive and closes what was never confirmed, fell silent or is due. *)
(* The callers, the results and the coordinator run at once and take no    *)
(* lock: rows change by conditional statements only.                       *)
(*                                                                         *)
(* One device: the table keeps devices apart, except for the bound on      *)
(* their number, which is left out. A session is named by its request_id.  *)
(* Times and samples are abstract: what is due or stale may be so at any   *)
(* moment, and samples may arrive or not. The commands and results are     *)
(* those of CommandDelivery, where their history is checked; here each may *)
(* come late, a result twice, and what is lost is never taken up.          *)
(***************************************************************************)
EXTENDS Naturals, FiniteSets

CONSTANTS
    Requests,     \* request_id of the starts
    Callers,      \* requests of the users under way in business-api
    MaxVerdicts   \* bound: results being handled at once

ASSUME DebugAssumption ==
    /\ "none" \notin Requests
    /\ MaxVerdicts \in Nat

Occupying == {"starting", "active", "stopping"}
Ended     == {"stopped", "expired", "interrupted", "failed"}
Statuses  == Occupying \cup Ended

\* A task is the start or the stop of a session.
Tasks    == {"start", "stop"} \X Requests
Verdicts == [req : Requests, from : Occupying, to : Statuses]

VARIABLES
    session,     \* session[r]: status of the row of request r, or "none"
    caller,      \* caller[c]: what the call does next, for which session
    verdicts,    \* results that were read against the row and not yet written to it
    due,         \* the coordinator expired a session whose stop it has to send
    commands,    \* commands on their way to the device
    results      \* [task, ok]: the results that the device gave

debugVars == <<session, caller, verdicts, due, commands, results>>

NoCall == [pc |-> "idle", req |-> "none"]

DebugInit ==
    /\ session = [r \in Requests |-> "none"]
    /\ caller = [c \in Callers |-> NoCall]
    /\ verdicts = {} /\ due = FALSE
    /\ commands = {} /\ results = {}

Occupied == \E r \in Requests : session[r] \in Occupying
Calls(c, pc) == caller[c].pc = pc
Goes(c, pc, r) == caller' = [caller EXCEPT ![c] = [pc |-> pc, req |-> r]]
Returns(c) == caller' = [caller EXCEPT ![c] = NoCall]

\* A command of task t goes out, or its sending fails: the device is off line, or
\* the answer is lost after it went out.
Sent(t)  == commands' = commands \cup {t}
Failed(t) == commands' = commands \/ commands' = commands \cup {t}

-----------------------------------------------------------------------------
(* StartSession and StopSession.                                           *)

\* The checks before the insert: no row of the request, none of the device.
StartCheck(c, r) ==
    /\ Calls(c, "idle") /\ session[r] = "none" /\ ~Occupied
    /\ Goes(c, "insert", r)
    /\ UNCHANGED <<session, verdicts, due, commands, results>>

\* CreateDebugSession: one row for a request, one that occupies the device; a
\* conflict answers the row that is there.
StartInsert(c) ==
    /\ Calls(c, "insert")
    /\ LET r == caller[c].req IN
       \/ /\ session[r] = "none" /\ ~Occupied
          /\ session' = [session EXCEPT ![r] = "starting"]
          /\ Goes(c, "send", r)
       \/ /\ session[r] # "none" \/ Occupied
          /\ Returns(c) /\ UNCHANGED session
    /\ UNCHANGED <<verdicts, due, commands, results>>

StartSend(c) ==
    /\ Calls(c, "send")
    /\ LET r == caller[c].req IN
       \/ Sent(<<"start", r>>) /\ Returns(c)
       \/ Failed(<<"start", r>>) /\ Goes(c, "fail", r)
    /\ UNCHANGED <<session, verdicts, due, results>>

\* FinalizeDebugSession: nothing happens unless the row is in status from.
Finalize(r, from, to) ==
    session' = IF session[r] = from THEN [session EXCEPT ![r] = to] ELSE session

StartFail(c) ==
    /\ Calls(c, "fail")
    /\ Finalize(caller[c].req, "starting", "failed") /\ Returns(c)
    /\ UNCHANGED <<verdicts, due, commands, results>>

\* BeginDebugSessionStop: a call that finds the row ended answers it.
StopBegin(c, r) ==
    /\ Calls(c, "idle") /\ session[r] \in Occupying
    /\ session' = [session EXCEPT ![r] = "stopping"]
    /\ Goes(c, "stop", r)
    /\ UNCHANGED <<verdicts, due, commands, results>>

\* A stop that cannot be sent leaves the session stopping.
StopSend(c) ==
    /\ Calls(c, "stop")
    /\ Failed(<<"stop", caller[c].req>>) /\ Returns(c)
    /\ UNCHANGED <<session, verdicts, due, results>>

-----------------------------------------------------------------------------
(* The results, HandleCommandResult.                                       *)

\* Mutant: any success closes a session that is stopping.
MovesAnySuccess(kind, ok, from) ==
    CASE from = "starting" /\ kind = "start" -> IF ok THEN "active" ELSE "failed"
      [] from = "stopping" /\ ok -> "stopped"
      [] OTHER -> from

\* Where a result of a start or a stop moves a session in status from.
Moves(kind, ok, from) ==
    CASE from = "starting" /\ kind = "start" -> IF ok THEN "active" ELSE "failed"
      [] from = "stopping" /\ kind = "stop" /\ ok -> "stopped"
      [] OTHER -> from

ResultRead(m) ==
    /\ Cardinality(verdicts) < MaxVerdicts
    /\ LET r == m.task[2] IN
       /\ session[r] \in Occupying /\ Moves(m.task[1], m.ok, session[r]) # session[r]
       /\ verdicts' = verdicts \cup
             {[req |-> r, from |-> session[r], to |-> Moves(m.task[1], m.ok, session[r])]}
    /\ UNCHANGED <<session, caller, due, commands, results>>

\* Mutant: the statement has no condition on the status.
ResultWriteById(v) ==
    /\ session' = [session EXCEPT ![v.req] = v.to]
    /\ verdicts' = verdicts \ {v}
    /\ UNCHANGED <<caller, due, commands, results>>

ResultWrite(v) ==
    /\ Finalize(v.req, v.from, v.to)
    /\ verdicts' = verdicts \ {v}
    /\ UNCHANGED <<caller, due, commands, results>>

-----------------------------------------------------------------------------
(* The coordinator, coordinateOnce: its statements, one after the other.   *)

Coordinates(r, from, to) ==
    /\ ~due /\ session[r] \in from
    /\ session' = [session EXCEPT ![r] = to]
    /\ UNCHANGED <<caller, verdicts, commands, results>>

\* RefreshDebugSampleTimes
Refresh(r) == Coordinates(r, {"starting"}, "active") /\ UNCHANGED due

\* ReapStaleStartingSessions, ReapStaleActiveSessions
ReapStarting(r) == Coordinates(r, {"starting"}, "failed") /\ UNCHANGED due
ReapActive(r) == Coordinates(r, {"active"}, "interrupted") /\ UNCHANGED due

\* Mutant: a session that is stopping is left to its result.
ExpireRunning(r) ==
    /\ Coordinates(r, {"starting", "active"}, "expired")
    /\ due' = (session[r] # "starting")

\* ExpireDebugSessions
Expire(r) ==
    /\ Coordinates(r, Occupying, "expired")
    /\ due' = (session[r] # "starting")

\* The stop at expiry, best effort, under a task that no session knows. Another
\* session may have begun by now: if this ends its samples, ReapActive closes it.
ExpirySend ==
    /\ due /\ due' = FALSE
    /\ UNCHANGED <<session, caller, verdicts, commands, results>>

-----------------------------------------------------------------------------
(* The device and the restarts.                                            *)

\* The device carries out a command or refuses it. That it refused a stop would
\* change nothing.
Execute(t) ==
    /\ commands' = commands \ {t}
    /\ \E ok \in BOOLEAN : results' =
          IF ok \/ t[1] = "start" THEN results \cup {[task |-> t, ok |-> ok]} ELSE results
    /\ UNCHANGED <<session, caller, verdicts, due>>

\* business-api restarts, at any time.
DebugRestart ==
    /\ caller' = [c \in Callers |-> NoCall] /\ verdicts' = {} /\ due' = FALSE
    /\ UNCHANGED <<session, commands, results>>

Starts(c) == StartInsert(c) \/ StartSend(c) \/ StartFail(c)

DebugNext ==
    \/ \E c \in Callers : Starts(c) \/ StopSend(c)
    \/ \E c \in Callers, r \in Requests : StartCheck(c, r) \/ StopBegin(c, r)
    \/ \E m \in results : ResultRead(m)
    \/ \E v \in verdicts : ResultWrite(v)
    \/ \E r \in Requests : Refresh(r) \/ ReapStarting(r) \/ ReapActive(r) \/ Expire(r)
    \/ ExpirySend
    \/ \E t \in commands : Execute(t)
    \/ DebugRestart

\* The coordinator ticks. Nobody has to call, and the device has to do nothing.
DebugFairness ==
    /\ \A r \in Requests : WF_debugVars(Expire(r))
    /\ WF_debugVars(ExpirySend)

DebugSpec == DebugInit /\ [][DebugNext]_debugVars /\ DebugFairness

-----------------------------------------------------------------------------
\* The values the state can take: the rows, the calls, and what is on its way.
DebugTypeOK ==
    /\ session \in [Requests -> Statuses \cup {"none"}]
    /\ caller \in [Callers -> [pc : {"idle", "insert", "send", "fail", "stop"},
                               req : Requests \cup {"none"}]]
    /\ verdicts \subseteq Verdicts /\ due \in BOOLEAN
    /\ commands \subseteq Tasks /\ results \subseteq [task : Tasks, ok : BOOLEAN]

\* A session is shown stopped only after the device carried out its stop: no late
\* result of its start, of another session or of the stop at expiry closes it.
StoppedIsConfirmed ==
    \A r \in Requests :
        session[r] = "stopped" => [task |-> <<"stop", r>>, ok |-> TRUE] \in results

\* A session that ended stays as it ended, and a session that is stopping does not
\* become active again, however late a result is written or a start fails.
SessionsMoveForward ==
    [][\A r \in Requests :
          /\ session[r] \in Ended => session'[r] = session[r]
          /\ session[r] = "stopping" => session'[r] \in Ended \cup {"stopping"}]_debugVars

\* The device is free again and again: every session ends, whatever is lost, refused
\* or cut short by a restart.
SessionsEnd == []<>~Occupied
=============================================================================
