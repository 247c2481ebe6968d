---------------------------- MODULE DeviceProofs ----------------------------
(***************************************************************************)
(* The proofs about what business-api keeps of a device: its debug         *)
(* sessions (DebugSession), its claims (DeviceClaim), its owner and what   *)
(* it is told of that (DeviceBinding), its alarms (AlarmIngest), its       *)
(* heartbeats (TelemetryStore) and the parallel group it leads             *)
(* (ParallelTopology), for any number of calls, reports and restarts.      *)
(***************************************************************************)
EXTENDS MCDevices, FiniteSetTheorems, TLAPS

-----------------------------------------------------------------------------
(* Debug sessions.                                                         *)

CallerRow == [pc : {"idle", "insert", "send", "fail", "stop"}, req : Requests \cup {"none"}]

\* A call that goes on knows its session.
CallsKnow == \A c \in Callers : caller[c].pc # "idle" => caller[c].req \in Requests

\* A result that is still to be written moves a session forward, and stops it only if
\* the device carried out its stop.
VerdictsFollow ==
    \A v \in verdicts :
        /\ v.to = "stopped" => [task |-> <<"stop", v.req>>, ok |-> TRUE] \in results
        /\ v.from = "stopping" => v.to \in Ended

DebugTyped == DebugTypeOK /\ CallsKnow

\* There is no session at first.
LEMMA DebugBegins == DebugInit => DebugTyped /\ VerdictsFollow /\ StoppedIsConfirmed
  <1>. SUFFICES ASSUME DebugInit PROVE DebugTyped /\ VerdictsFollow /\ StoppedIsConfirmed
    OBVIOUS
  <1>1. NoCall \in CallerRow /\ NoCall.pc = "idle"
    BY DEF NoCall, CallerRow
  <1>2. DebugTyped
    BY <1>1 DEF DebugInit, DebugTyped, DebugTypeOK, CallsKnow, CallerRow
  <1>. QED BY <1>2 DEF DebugInit, VerdictsFollow, StoppedIsConfirmed

\* Where a call goes next.
LEMMA CallersMove ==
    DebugTyped /\ [DebugNext]_debugVars => caller' \in [Callers -> CallerRow] /\ CallsKnow'
  <1>. SUFFICES ASSUME DebugTyped, [DebugNext]_debugVars
                PROVE  caller' \in [Callers -> CallerRow] /\ CallsKnow'
    OBVIOUS
  <1>. DEFINE Fine == caller' \in [Callers -> CallerRow] /\ CallsKnow'
  <1>1. caller \in [Callers -> CallerRow] /\ CallsKnow
    BY DEF DebugTyped, DebugTypeOK, CallerRow
  <1>2. NoCall \in CallerRow /\ NoCall.pc = "idle"
    BY DEF NoCall, CallerRow
  <1>3. UNCHANGED caller => Fine
    BY <1>1 DEF CallsKnow
  <1>4. ASSUME NEW c \in Callers, Returns(c) PROVE Fine
    BY <1>1, <1>2, <1>4 DEF Returns, CallsKnow
  <1>5. ASSUME NEW c \in Callers, NEW r \in Requests, NEW pc \in {"insert", "send", "fail", "stop"},
               Goes(c, pc, r)
        PROVE  Fine
    <2>1. [pc |-> pc, req |-> r] \in CallerRow
      BY DEF CallerRow
    <2>. QED BY <1>1, <1>5, <2>1 DEF Goes, CallsKnow
  <1>6. ASSUME NEW c \in Callers, Starts(c) PROVE Fine
    <2>1. caller[c].req \in Requests
      BY <1>1, <1>6 DEF Starts, StartInsert, StartSend, StartFail, Calls, CallsKnow
    <2>. QED BY <1>4, <1>5, <1>6, <2>1 DEF Starts, StartInsert, StartSend, StartFail
  <1>7. ASSUME NEW c \in Callers, NEW r \in Requests, StartCheck(c, r) \/ StopBegin(c, r) PROVE Fine
    BY <1>5, <1>7 DEF StartCheck, StopBegin
  <1>8. ASSUME NEW c \in Callers, StopSend(c) PROVE Fine
    BY <1>4, <1>8 DEF StopSend
  <1>9. ASSUME DebugRestart PROVE Fine
    BY <1>2, <1>9 DEF DebugRestart, CallsKnow
  <1>. QED
    BY <1>3, <1>6, <1>7, <1>8, <1>9
    DEF DebugNext, debugVars, ResultRead, ResultWrite, Refresh, ReapStarting, ReapActive,
        Expire, Coordinates, ExpirySend, Execute

\* Results are never taken back, and what goes out is a task of a session.
LEMMA ResultsGrow ==
    DebugTyped /\ [DebugNext]_debugVars =>
        /\ commands' \subseteq Tasks /\ results' \subseteq [task : Tasks, ok : BOOLEAN]
        /\ results \subseteq results'
  <1>. SUFFICES ASSUME DebugTyped, [DebugNext]_debugVars
                PROVE  /\ commands' \subseteq Tasks
                       /\ results' \subseteq [task : Tasks, ok : BOOLEAN]
                       /\ results \subseteq results'
    OBVIOUS
  <1>1. commands \subseteq Tasks /\ results \subseteq [task : Tasks, ok : BOOLEAN]
    BY DEF DebugTyped, DebugTypeOK
  <1>2. ASSUME NEW c \in Callers, Starts(c) \/ StopSend(c)
        PROVE  commands' \subseteq Tasks /\ UNCHANGED results
    <2>1. CASE UNCHANGED commands
      BY <1>1, <1>2, <2>1 DEF Starts, StartInsert, StartSend, StartFail, StopSend
    <2>2. CASE StartSend(c) \/ StopSend(c)
      <3>1. caller[c].req \in Requests
        BY <2>2 DEF StartSend, StopSend, Calls, DebugTyped, CallsKnow
      <3>2. <<"start", caller[c].req>> \in Tasks /\ <<"stop", caller[c].req>> \in Tasks
        BY <3>1 DEF Tasks
      <3>. QED BY <1>1, <2>2, <3>2 DEF StartSend, StopSend, Sent, Failed
    <2>. QED BY <1>2, <2>1, <2>2 DEF Starts, StartInsert, StartFail
  <1>3. ASSUME NEW t \in commands, Execute(t)
        PROVE  /\ commands' \subseteq Tasks /\ results' \subseteq [task : Tasks, ok : BOOLEAN]
               /\ results \subseteq results'
    BY <1>1, <1>3 DEF Execute
  <1>. QED
    BY <1>1, <1>2, <1>3
    DEF DebugNext, debugVars, StartCheck, StopBegin, ResultRead, ResultWrite, Refresh,
        ReapStarting, ReapActive, Expire, Coordinates, ExpirySend, DebugRestart

\* What a step does to the rows: a session moves as a verdict says from where the
\* verdict found it, to another status that is not "stopped", or not at all.
RowMoves ==
    /\ session' \in [Requests -> Statuses \cup {"none"}]
    /\ \A r \in Requests :
          \/ session'[r] = session[r]
          \/ session'[r] \in Occupying /\ session[r] \notin Ended \cup {"stopping"}
          \/ session'[r] = "stopping" /\ session[r] \notin Ended
          \/ session'[r] \in Ended \ {"stopped"} /\ session[r] \notin Ended
          \/ \E v \in verdicts : v.req = r /\ session[r] = v.from /\ session'[r] = v.to

\* No step moves a session otherwise.
LEMMA SessionsMove == DebugTyped /\ [DebugNext]_debugVars => RowMoves
  <1>. SUFFICES ASSUME DebugTyped, [DebugNext]_debugVars PROVE RowMoves
    OBVIOUS
  <1>1. session \in [Requests -> Statuses \cup {"none"}] /\ verdicts \subseteq Verdicts
    BY DEF DebugTyped, DebugTypeOK
  <1>2. UNCHANGED session => RowMoves
    BY <1>1 DEF RowMoves
  <1>3. ASSUME NEW r \in Requests, NEW to \in Statuses, session' = [session EXCEPT ![r] = to],
               \/ to \in Occupying /\ session[r] \notin Ended \cup {"stopping"}
               \/ to = "stopping" /\ session[r] \notin Ended
               \/ to \in Ended \ {"stopped"} /\ session[r] \notin Ended
               \/ \E v \in verdicts : v.req = r /\ session[r] = v.from /\ to = v.to
        PROVE  RowMoves
    <2>1. session'[r] = to /\ \A k \in Requests \ {r} : session'[k] = session[k]
      BY <1>1, <1>3
    <2>2. session' \in [Requests -> Statuses \cup {"none"}]
      BY <1>1, <1>3
    <2>. QED BY <1>3, <2>1, <2>2 DEF RowMoves
  <1>4. ASSUME NEW c \in Callers, StartInsert(c) PROVE RowMoves
    <2>1. caller[c].req \in Requests
      BY <1>4 DEF StartInsert, Calls, DebugTyped, CallsKnow
    <2>2. "starting" \in Statuses /\ "starting" \in Occupying
      BY DEF Statuses, Occupying
    <2>. QED BY <1>2, <1>3, <1>4, <2>1, <2>2 DEF StartInsert, Ended
  <1>5. ASSUME NEW c \in Callers, StartFail(c) PROVE RowMoves
    <2>1. caller[c].req \in Requests
      BY <1>5 DEF StartFail, Calls, DebugTyped, CallsKnow
    <2>2. "failed" \in Statuses
      BY DEF Statuses, Ended
    <2>. QED BY <1>2, <1>3, <1>5, <2>1, <2>2 DEF StartFail, Finalize, Ended
  <1>6. ASSUME NEW c \in Callers, NEW r \in Requests, StopBegin(c, r) PROVE RowMoves
    <2>1. "stopping" \in Statuses /\ session[r] \notin Ended
      BY <1>6 DEF StopBegin, Statuses, Occupying, Ended
    <2>. QED BY <1>3, <1>6, <2>1 DEF StopBegin
  <1>7. ASSUME NEW v \in verdicts, ResultWrite(v) PROVE RowMoves
    <2>1. v.req \in Requests /\ v.to \in Statuses
      BY <1>1 DEF Verdicts
    <2>. QED BY <1>2, <1>3, <1>7, <2>1 DEF ResultWrite, Finalize
  <1>8. ASSUME NEW r \in Requests, Refresh(r) \/ ReapStarting(r) \/ ReapActive(r) \/ Expire(r)
        PROVE  RowMoves
    <2>1. {"active", "failed", "interrupted", "expired"} \subseteq Statuses
      BY DEF Statuses, Occupying, Ended
    <2>2. session[r] \notin Ended
      BY <1>8 DEF Refresh, ReapStarting, ReapActive, Expire, Coordinates, Occupying, Ended
    <2>3. CASE Refresh(r)
      <3>1. session[r] = "starting" /\ session' = [session EXCEPT ![r] = "active"]
        BY <2>3 DEF Refresh, Coordinates
      <3>. QED BY <1>3, <2>1, <2>2, <3>1 DEF Occupying
    <2>4. CASE ReapStarting(r) \/ ReapActive(r) \/ Expire(r)
      <3>1. \E to \in {"failed", "interrupted", "expired"} : session' = [session EXCEPT ![r] = to]
        BY <2>4 DEF ReapStarting, ReapActive, Expire, Coordinates
      <3>2. {"failed", "interrupted", "expired"} \subseteq Ended \ {"stopped"}
        BY DEF Ended
      <3>. QED BY <1>3, <2>1, <2>2, <3>1, <3>2
    <2>. QED BY <1>8, <2>3, <2>4
  <1>. QED
    BY <1>2, <1>4, <1>5, <1>6, <1>7, <1>8
    DEF DebugNext, debugVars, Starts, StartSend, StopSend, StartCheck, ResultRead, ExpirySend,
        Execute, DebugRestart

\* Every step keeps the verdicts in line with the results and the rows with the verdicts.
LEMMA DebugStep ==
    DebugTyped /\ VerdictsFollow /\ StoppedIsConfirmed /\ [DebugNext]_debugVars =>
        DebugTyped' /\ VerdictsFollow' /\ StoppedIsConfirmed'
  <1>. SUFFICES ASSUME DebugTyped, VerdictsFollow, StoppedIsConfirmed, [DebugNext]_debugVars
                PROVE  DebugTyped' /\ VerdictsFollow' /\ StoppedIsConfirmed'
    OBVIOUS
  <1>1. /\ caller' \in [Callers -> CallerRow] /\ CallsKnow' /\ RowMoves
        /\ commands' \subseteq Tasks /\ results' \subseteq [task : Tasks, ok : BOOLEAN]
        /\ results \subseteq results'
    BY CallersMove, ResultsGrow, SessionsMove
  <1>2. /\ session \in [Requests -> Statuses \cup {"none"}] /\ verdicts \subseteq Verdicts
        /\ results \subseteq [task : Tasks, ok : BOOLEAN] /\ due \in BOOLEAN
    BY DEF DebugTyped, DebugTypeOK
  <1>3. ASSUME NEW m \in results, ResultRead(m)
        PROVE  verdicts' \subseteq Verdicts /\ VerdictsFollow'
    <2>. DEFINE r == m.task[2]  to == Moves(m.task[1], m.ok, session[r])
                v == [req |-> r, from |-> session[r], to |-> to]
    <2>1. /\ m.task \in Tasks /\ m.ok \in BOOLEAN /\ r \in Requests
          /\ m = [task |-> <<m.task[1], r>>, ok |-> m.ok]
      BY <1>2 DEF Tasks
    <2>2. session[r] \in Occupying /\ to # session[r] /\ verdicts' = verdicts \cup {v}
          /\ UNCHANGED results
      BY <1>3 DEF ResultRead
    <2>3. \/ session[r] = "starting" /\ to \in {"active", "failed"}
          \/ session[r] = "stopping" /\ m.task[1] = "stop" /\ m.ok /\ to = "stopped"
      BY <2>1, <2>2 DEF Moves
    <2>4. to \in Statuses
      BY <2>3 DEF Statuses, Occupying, Ended
    <2>5. v \in Verdicts
      BY <2>1, <2>2, <2>4 DEF Verdicts
    <2>6. v.to = "stopped" => [task |-> <<"stop", v.req>>, ok |-> TRUE] \in results
      BY <2>1, <2>3
    <2>7. v.from = "stopping" => v.to \in Ended
      BY <2>3 DEF Ended
    <2>. HIDE DEF v
    <2>. QED BY <1>2, <2>2, <2>5, <2>6, <2>7 DEF VerdictsFollow
  <1>4. verdicts' \subseteq Verdicts /\ VerdictsFollow'
    <2>1. CASE verdicts' \subseteq verdicts
      BY <1>1, <1>2, <2>1 DEF VerdictsFollow
    <2>. QED
      BY <1>3, <2>1
      DEF DebugNext, debugVars, Starts, StartInsert, StartSend, StartFail, StopSend, StartCheck,
          StopBegin, ResultWrite, Refresh, ReapStarting, ReapActive, Expire, Coordinates,
          ExpirySend, Execute, DebugRestart
  <1>5. due' \in BOOLEAN
    BY <1>2
    DEF DebugNext, debugVars, Starts, StartInsert, StartSend, StartFail, StopSend, StartCheck,
        StopBegin, ResultRead, ResultWrite, Refresh, ReapStarting, ReapActive, Expire,
        Coordinates, ExpirySend, Execute, DebugRestart
  <1>6. DebugTyped'
    BY <1>1, <1>4, <1>5 DEF DebugTyped, DebugTypeOK, RowMoves, CallerRow
  <1>7. StoppedIsConfirmed'
    BY <1>1 DEF StoppedIsConfirmed, VerdictsFollow, RowMoves, Occupying
  <1>. QED BY <1>4, <1>6, <1>7

\* A session is shown stopped only after the device has carried out its stop.
THEOREM StopsAreConfirmed == DebugSpec => [](DebugTypeOK /\ StoppedIsConfirmed)
  <1>1. DebugTyped => DebugTypeOK
    BY DEF DebugTyped
  <1>. QED BY <1>1, DebugBegins, DebugStep, PTL DEF DebugSpec

\* A session that has ended stays as it ended, and one that is stopping becomes active
\* no more, however late a result is written or a start fails.
THEOREM DebugSessionsMoveForward == DebugSpec => SessionsMoveForward
  <1>1. DebugTyped /\ VerdictsFollow /\ [DebugNext]_debugVars =>
           [\A r \in Requests :
              /\ session[r] \in Ended => session'[r] = session[r]
              /\ session[r] = "stopping" => session'[r] \in Ended \cup {"stopping"}]_debugVars
    <2>. SUFFICES ASSUME DebugTyped, VerdictsFollow, [DebugNext]_debugVars, NEW r \in Requests
                  PROVE  /\ session[r] \in Ended => session'[r] = session[r]
                         /\ session[r] = "stopping" => session'[r] \in Ended \cup {"stopping"}
      OBVIOUS
    <2>1. RowMoves
      BY SessionsMove
    <2>2. \A v \in verdicts : v.from \in Occupying /\ (v.from = "stopping" => v.to \in Ended)
      BY DEF VerdictsFollow, DebugTyped, DebugTypeOK, Verdicts
    <2>. QED BY <2>1, <2>2 DEF RowMoves, Occupying, Ended
  <1>. QED BY <1>1, DebugBegins, DebugStep, PTL DEF DebugSpec, SessionsMoveForward

-----------------------------------------------------------------------------
(* Claims.                                                                 *)

HolderRow ==
    [pc : {"idle", "claim", "ask", "decide"}, id : 0 .. MaxAsked, verdict : Decided \cup {"none"}]

\* A device that was claimed since it was last set off line is shown on line.
ClaimInv == ClaimTypeOK /\ (claims = 0 \/ (claims = 1 /\ shown = 1))

\* Every step keeps the count of claims in line with the status.
LEMMA ClaimStep == ClaimInv /\ [ClaimNext]_claimVars => ClaimInv'
  <1>. SUFFICES ASSUME ClaimInv, [ClaimNext]_claimVars PROVE ClaimInv'
    OBVIOUS
  <1>1. /\ MaxCodes \in Nat /\ MaxAsked \in Nat /\ code \in 0 .. MaxCodes
        /\ asked \in [Asked -> Decided \cup {"none", "pending"}]
        /\ holder \in [Holders -> HolderRow]
    BY ClaimAssumption DEF ClaimInv, ClaimTypeOK, HolderRow
  <1>2. /\ shown' \in {0, 1} /\ codeState' \in {"unclaimed", "claimed"}
        /\ claims' = 0 \/ (claims' = 1 /\ shown' = 1)
    BY DEF ClaimInv, ClaimTypeOK, ClaimNext, claimVars, Generate, ShowOnline, ShowOffline,
           ClaimRead, ClaimDevice, AskRead, Ask, DecideRead, DecideRequest
  <1>3. code' \in 0 .. MaxCodes
    BY <1>1 DEF ClaimNext, claimVars, Generate, ShowOnline, ShowOffline, ClaimRead, ClaimDevice,
                AskRead, Ask, DecideRead, DecideRequest
  <1>4. asked' \in [Asked -> Decided \cup {"none", "pending"}]
    <2>1. \A h \in Holders : holder[h].verdict \in Decided \cup {"none"}
      BY <1>1 DEF HolderRow
    <2>. QED
      BY <1>1, <2>1 DEF ClaimNext, claimVars, Generate, ShowOnline, ShowOffline, ClaimRead,
                        ClaimDevice, AskRead, Ask, DecideRead, DecideRequest
  <1>5. holder' \in [Holders -> HolderRow]
    <2>1. Idles \in HolderRow
      BY <1>1 DEF Idles, HolderRow
    <2>2. \A h \in Holders : Leaves(h) => holder' \in [Holders -> HolderRow]
      BY <1>1, <2>1 DEF Leaves
    <2>3. ASSUME NEW h \in Holders, NEW pc \in {"claim", "ask", "decide"}, NEW id \in 0 .. MaxAsked,
                 NEW verdict \in Decided \cup {"none"}, Turns(h, pc, id, verdict)
          PROVE  holder' \in [Holders -> HolderRow]
      <3>1. [pc |-> pc, id |-> id, verdict |-> verdict] \in HolderRow
        BY DEF HolderRow
      <3>. QED BY <1>1, <2>3, <3>1 DEF Turns
    <2>4. 0 \in 0 .. MaxAsked /\ Asked \subseteq 0 .. MaxAsked
      BY <1>1 DEF Asked
    <2>. QED
      BY <1>1, <2>2, <2>3, <2>4 DEF ClaimNext, claimVars, Generate, ShowOnline, ShowOffline,
         ClaimRead, ClaimDevice, AskRead, Ask, DecideRead, DecideRequest
  <1>. QED BY <1>2, <1>3, <1>4, <1>5 DEF ClaimInv, ClaimTypeOK, HolderRow

\* Between two times at which it is set off line a device is claimed once at most, by
\* however many calls that read its code, or different codes, as unclaimed.
THEOREM DevicesClaimedOnce == ClaimSpec => [](ClaimTypeOK /\ ClaimedOnce)
  <1>1. ClaimInit => ClaimInv
    BY ClaimAssumption DEF ClaimInit, ClaimInv, ClaimTypeOK, Idles, Asked
  <1>2. ClaimInv => ClaimTypeOK /\ ClaimedOnce
    BY DEF ClaimInv, ClaimedOnce
  <1>. QED BY <1>1, <1>2, ClaimStep, PTL DEF ClaimSpec

-----------------------------------------------------------------------------
(* The signed state of the binding.                                        *)

BindingRow == [there : BOOLEAN, owner : Owners \cup {"nobody"}, deleted : BOOLEAN]
ClerkRow ==
    [pc : {"idle", "ensure", "reread", "bind", "unbind", "request", "delete", "create"},
     user : Owners \cup {"nobody"}]

\* What a device without a counter is told.
Unregistered == [revision |-> 0, state |-> "UNKNOWN", owner |-> "nobody"]

\* An answer never has a revision to come. That without a counter says nothing of an
\* owner, and after the counters were advanced no answer has the present revision yet.
AnswersAreOld ==
    told # NoAnswer =>
        /\ told.revision \in 0 .. revision
        /\ told.revision = 0 => told = Unregistered
        /\ phase = "migrating" /\ revision > 0 => told.revision < revision
        /\ phase = "on" /\ told.revision = revision /\ Signable => told = Snapshot

\* What a statement on the row does to the counter, for all steps but those of the
\* migration and the responder.
RowCounted ==
    /\ row' \in BindingRow
    /\ revision' \in 0 .. MaxRevision
    /\ revision' = revision \/ revision' = revision + 1
    /\ phase = "on" /\ revision' = revision => row' = row
    /\ phase' = phase /\ told' = told

\* What the types say of the row, the calls, and the rows that statements write.
LEMMA BindingTypes ==
    BindingTypeOK =>
        /\ MaxRevision \in Nat /\ row \in BindingRow /\ revision \in 0 .. MaxRevision
        /\ row.there \in BOOLEAN /\ row.deleted \in BOOLEAN
        /\ row.owner \in Owners \cup {"nobody"} /\ clerk \in [Clerks -> ClerkRow]
        /\ \A k \in Clerks : clerk[k].user \in Owners \cup {"nobody"}
        /\ NoRow \in BindingRow /\ FreshRow \in BindingRow /\ NoClerk \in ClerkRow
        /\ \A u \in Owners \cup {"nobody"} : Set(u) \in BindingRow
        /\ \A b \in BOOLEAN : [row EXCEPT !.deleted = b] \in BindingRow
        /\ Snapshot \in [revision : 0 .. MaxRevision, state : {"UNKNOWN", "UNBOUND", "BOUND"},
                         owner : Owners \cup {"nobody"}]
  BY BindingAssumption
  DEF BindingTypeOK, BindingRow, ClerkRow, NoRow, FreshRow, NoClerk, Set, Snapshot, BindingState

\* The trigger counts a statement that changes the row.
LEMMA StatementsCount ==
    ASSUME BindingTypeOK, NEW new \in BindingRow, NEW again \in BOOLEAN, Writes(new, again),
           UNCHANGED <<phase, told>>
    PROVE  RowCounted
  BY BindingTypes DEF Writes, RowCounted

\* What each step does to the row, the counter and the answers.
LEMMA RowsCounted ==
    BindingTypeOK /\ [BindingNext]_bindingVars =>
        RowCounted \/ MigrateCounters \/ MigrateTrigger \/ RollBack \/ Respond
  <1>. SUFFICES ASSUME BindingTypeOK, [BindingNext]_bindingVars
                PROVE  RowCounted \/ MigrateCounters \/ MigrateTrigger \/ RollBack \/ Respond
    OBVIOUS
  <1>1. ASSUME UNCHANGED <<row, revision, phase, told>> PROVE RowCounted
    BY <1>1, BindingTypes DEF RowCounted
  <1>2. ASSUME NEW k \in Clerks, NEW new \in BindingRow, NEW again \in BOOLEAN, NEW from, NEW pc,
               Stores(k, from, new, again, pc)
        PROVE  RowCounted
    BY <1>2, StatementsCount DEF Stores
  <1>3. TRUE \in BOOLEAN /\ FALSE \in BOOLEAN
    OBVIOUS
  <1>4. ASSUME NEW k \in Clerks, EnsureDevice(k) PROVE RowCounted
    <2>1. PICK new \in BindingRow, again \in BOOLEAN : Stores(k, "ensure", new, again, "reread")
      BY <1>3, <1>4, BindingTypes DEF EnsureDevice
    <2>. QED BY <1>2, <2>1
  <1>5. ASSUME NEW k \in Clerks, Bind(k) PROVE RowCounted
    <2>1. PICK new \in BindingRow, again \in BOOLEAN : Stores(k, "bind", new, again, "idle")
      BY <1>3, <1>5, BindingTypes DEF Bind
    <2>. QED BY <1>2, <2>1
  <1>6. ASSUME NEW k \in Clerks, Unbind(k) PROVE RowCounted
    <2>1. PICK new \in BindingRow, again \in BOOLEAN : Stores(k, "unbind", new, again, "idle")
      BY <1>3, <1>6, BindingTypes DEF Unbind
    <2>. QED BY <1>2, <2>1
  <1>7. ASSUME NEW k \in Clerks, DeleteDevice(k) PROVE RowCounted
    <2>1. PICK new \in BindingRow, again \in BOOLEAN : Stores(k, "delete", new, again, "idle")
      BY <1>3, <1>7, BindingTypes DEF DeleteDevice
    <2>. QED BY <1>2, <2>1
  <1>8. ASSUME NEW k \in Clerks, CreateDevice(k) PROVE RowCounted
    <2>1. PICK new \in BindingRow, again \in BOOLEAN : Stores(k, "create", new, again, "idle")
      BY <1>3, <1>8, BindingTypes DEF CreateDevice
    <2>. QED BY <1>2, <2>1
  <1>9. ASSUME NEW u \in Owners, AssignStation(u) PROVE RowCounted
    <2>1. PICK new \in BindingRow, again \in BOOLEAN :
             Writes(new, again) /\ UNCHANGED <<phase, told>>
      BY <1>3, <1>9, BindingTypes DEF AssignStation
    <2>. QED BY <2>1, StatementsCount
  <1>10. ASSUME Appear \/ Purge PROVE RowCounted
    <2>1. PICK new \in BindingRow, again \in BOOLEAN :
             Writes(new, again) /\ UNCHANGED <<phase, told>>
      BY <1>3, <1>10, BindingTypes DEF Appear, Purge
    <2>. QED BY <2>1, StatementsCount
  <1>. QED
    BY <1>1, <1>4, <1>5, <1>6, <1>7, <1>8, <1>9, <1>10
    DEF BindingNext, bindingVars, BindRead, BindReread, OwnRead, RequestUnbind, ApproveUnbind,
        RejectUnbind, RegisterRead, ClerkFails, Sees

\* Where the calls of the business-api go.
LEMMA ClerksMove == BindingTypeOK /\ [BindingNext]_bindingVars => clerk' \in [Clerks -> ClerkRow]
  <1>. SUFFICES ASSUME BindingTypeOK, [BindingNext]_bindingVars
                PROVE  clerk' \in [Clerks -> ClerkRow]
    OBVIOUS
  <1>1. /\ clerk \in [Clerks -> ClerkRow] /\ NoClerk \in ClerkRow
        /\ \A k \in Clerks : clerk[k].user \in Owners \cup {"nobody"}
    BY BindingTypes
  <1>2. ASSUME NEW k \in Clerks, Closes(k) PROVE clerk' \in [Clerks -> ClerkRow]
    BY <1>1, <1>2 DEF Closes
  <1>3. ASSUME NEW k \in Clerks,
               NEW pc \in {"ensure", "reread", "bind", "unbind", "request", "delete", "create"},
               NEW u \in Owners \cup {"nobody"}, Resumes(k, pc, u)
        PROVE  clerk' \in [Clerks -> ClerkRow]
    <2>1. [pc |-> pc, user |-> u] \in ClerkRow
      BY DEF ClerkRow
    <2>. QED BY <1>1, <1>3, <2>1 DEF Resumes
  <1>4. ASSUME NEW k \in Clerks, NEW pc \in {"idle", "reread"}, NEW from, NEW new, NEW again,
               Stores(k, from, new, again, pc)
        PROVE  clerk' \in [Clerks -> ClerkRow]
    <2>1. [clerk[k] EXCEPT !.pc = pc] \in ClerkRow
      BY <1>1 DEF ClerkRow
    <2>. QED BY <1>1, <1>4, <2>1 DEF Stores
  <1>5. \A k \in Clerks : EnsureDevice(k) \/ Bind(k) \/ Unbind(k) \/ DeleteDevice(k)
                             \/ CreateDevice(k) => clerk' \in [Clerks -> ClerkRow]
    BY <1>4 DEF EnsureDevice, Bind, Unbind, DeleteDevice, CreateDevice
  <1>6. \A k \in Clerks, u \in Owners : BindRead(k, u) => clerk' \in [Clerks -> ClerkRow]
    BY <1>3 DEF BindRead, Sees
  <1>7. \A k \in Clerks, pc \in {"unbind", "request", "delete"} :
            OwnRead(k, pc) => clerk' \in [Clerks -> ClerkRow]
    BY <1>3 DEF OwnRead, Sees
  <1>8. \A k \in Clerks : BindReread(k) \/ ApproveUnbind(k) \/ RegisterRead(k)
                             => clerk' \in [Clerks -> ClerkRow]
    BY <1>1, <1>2, <1>3 DEF BindReread, ApproveUnbind, RegisterRead, Sees
  <1>9. \A k \in Clerks : RequestUnbind(k) \/ ClerkFails(k) => clerk' \in [Clerks -> ClerkRow]
    BY <1>2 DEF RequestUnbind, ClerkFails, Sees
  <1>. QED
    BY <1>1, <1>5, <1>6, <1>7, <1>8, <1>9
    DEF BindingNext, bindingVars, AssignStation, RejectUnbind, Appear, Purge, MigrateCounters,
        MigrateTrigger, RollBack, Respond

\* Every step keeps the answers old.
LEMMA BindingStep ==
    BindingTypeOK /\ AnswersAreOld /\ [BindingNext]_bindingVars => BindingTypeOK' /\ AnswersAreOld'
  <1>. SUFFICES ASSUME BindingTypeOK, AnswersAreOld, [BindingNext]_bindingVars
                PROVE  BindingTypeOK' /\ AnswersAreOld'
    OBVIOUS
  <1>1. /\ MaxRevision \in Nat /\ revision \in 0 .. MaxRevision /\ row \in BindingRow
        /\ told \in [revision : -1 .. MaxRevision, state : {"none", "UNKNOWN", "UNBOUND", "BOUND"},
                     owner : Owners \cup {"nobody"}]
        /\ phase \in {"off", "migrating", "on"} /\ clerk' \in [Clerks -> ClerkRow]
    BY BindingTypes, ClerksMove DEF BindingTypeOK
  <1>2. asking' \in BOOLEAN
    BY DEF BindingTypeOK, BindingNext, bindingVars, BindRead, EnsureDevice, BindReread, Bind,
           OwnRead, Unbind, DeleteDevice, RequestUnbind, ApproveUnbind, RejectUnbind,
           RegisterRead, CreateDevice, ClerkFails, AssignStation, Appear, Purge,
           MigrateCounters, MigrateTrigger, RollBack, Respond, Sees, Stores
  <1>3. CASE RowCounted
    <2>1. BindingTypeOK'
      BY <1>1, <1>2, <1>3 DEF RowCounted, BindingTypeOK, BindingRow, ClerkRow
    <2>2. phase = "on" /\ revision' = revision => Snapshot' = Snapshot /\ (Signable' <=> Signable)
      BY <1>3 DEF RowCounted, Snapshot, Signable, BindingState, Visible
    <2>3. AnswersAreOld'
      BY <1>1, <1>3, <2>2 DEF RowCounted, AnswersAreOld
    <2>. QED BY <2>1, <2>3
  <1>4. CASE MigrateCounters
    <2>1. /\ phase' = "migrating" /\ UNCHANGED <<row, told>> /\ revision' \in 0 .. MaxRevision
          /\ revision > 0 => revision' = revision + 1
      BY <1>1, <1>4 DEF MigrateCounters, Advanced
    <2>2. BindingTypeOK'
      BY <1>1, <1>2, <2>1 DEF BindingTypeOK, BindingRow, ClerkRow
    <2>3. AnswersAreOld'
      BY <1>1, <2>1 DEF AnswersAreOld
    <2>. QED BY <2>2, <2>3
  <1>5. CASE MigrateTrigger
    <2>1. phase = "migrating" /\ phase' = "on" /\ UNCHANGED <<row, revision, told>>
      BY <1>5 DEF MigrateTrigger
    <2>2. BindingTypeOK'
      BY <1>1, <1>2, <2>1 DEF BindingTypeOK, BindingRow, ClerkRow
    <2>3. revision = 0 /\ Signable' => Snapshot' = Unregistered
      BY <2>1 DEF Signable, Snapshot, BindingState, Visible, Unregistered
    <2>4. AnswersAreOld'
      BY <1>1, <2>1, <2>3 DEF AnswersAreOld
    <2>. QED BY <2>2, <2>4
  <1>6. CASE RollBack
    <2>1. phase' = "off" /\ UNCHANGED <<row, revision, told>>
      BY <1>6 DEF RollBack
    <2>2. BindingTypeOK'
      BY <1>1, <1>2, <2>1 DEF BindingTypeOK, BindingRow, ClerkRow
    <2>3. AnswersAreOld'
      BY <1>1, <2>1 DEF AnswersAreOld
    <2>. QED BY <2>2, <2>3
  <1>7. CASE Respond
    <2>1. /\ phase = "on" /\ Signable /\ told' = Snapshot /\ UNCHANGED <<row, revision, phase>>
      BY <1>7 DEF Respond
    <2>2. Snapshot' = Snapshot /\ Snapshot.revision = revision
      BY <2>1 DEF Snapshot, BindingState, Visible
    <2>3. revision = 0 => Snapshot = Unregistered
      BY <2>1 DEF Signable, Snapshot, BindingState, Visible, Unregistered
    <2>4. Snapshot \in [revision : 0 .. MaxRevision, state : {"UNKNOWN", "UNBOUND", "BOUND"},
                        owner : Owners \cup {"nobody"}]
      BY BindingTypes
    <2>5. told' \in [revision : -1 .. MaxRevision, state : {"none", "UNKNOWN", "UNBOUND", "BOUND"},
                     owner : Owners \cup {"nobody"}]
      <3>. HIDE DEF Snapshot
      <3>. QED BY <1>1, <2>1, <2>4
    <2>6. BindingTypeOK'
      BY <1>1, <1>2, <2>1, <2>5 DEF BindingTypeOK, BindingRow, ClerkRow
    <2>7. AnswersAreOld'
      BY <1>1, <2>1, <2>2, <2>3 DEF AnswersAreOld
    <2>. QED BY <2>6, <2>7
  <1>. QED BY <1>3, <1>4, <1>5, <1>6, <1>7, RowsCounted

\* A revision names one state of the binding, whatever calls, migrations and answers
\* come between: an answer is older by its revision than the present state, or is the
\* answer that the device would get now.
THEOREM RevisionsNameStates == BindingSpec => [](BindingTypeOK /\ RevisionNamesState)
  <1>1. ASSUME BindingInit PROVE BindingTypeOK /\ AnswersAreOld
    <2>1. MaxRevision \in Nat /\ 0 \in 0 .. MaxRevision /\ -1 \in -1 .. MaxRevision
      BY BindingAssumption
    <2>2. /\ NoRow \in BindingRow /\ NoClerk \in ClerkRow
          /\ NoAnswer \in [revision : -1 .. MaxRevision,
                           state : {"none", "UNKNOWN", "UNBOUND", "BOUND"},
                           owner : Owners \cup {"nobody"}]
      BY <2>1 DEF NoRow, BindingRow, NoClerk, ClerkRow, NoAnswer
    <2>. QED
      BY <1>1, <2>1, <2>2 DEF BindingInit, BindingTypeOK, AnswersAreOld, BindingRow, ClerkRow
  <1>2. BindingTypeOK /\ AnswersAreOld => RevisionNamesState
    BY DEF BindingTypeOK, AnswersAreOld, RevisionNamesState
  <1>. QED BY <1>1, <1>2, BindingStep, PTL DEF BindingSpec

-----------------------------------------------------------------------------
(* Parallel groups.                                                        *)

GroupRow == Reported \cup {NoGroup}
IngestRow ==
    [pc : {"idle", "storing"}, report : GroupRow, station : Stations \cup {"nowhere"},
     found : GroupRow]

TopologyTyped ==
    /\ station \in Stations \cup {"nowhere"} /\ moves \in 0 .. MaxMoves
    /\ group \in [Stations -> GroupRow]
    /\ changes \subseteq [station : Stations, time : Times, data : Topologies]
    /\ ingest \in [Ingests -> IngestRow]
    /\ \A i \in Ingests : ingest[i].pc = "storing" =>
          ingest[i].report \in Reported /\ ingest[i].station \in Stations

\* A row that was found is locked: it stays as it was found.
FoundIsLocked ==
    \A i \in Ingests : ingest[i].pc = "storing" /\ ingest[i].found # NoGroup =>
        group[ingest[i].station] = ingest[i].found

\* There is no group at first.
LEMMA TopologyBegins == TopologyInit => TopologyTyped /\ FoundIsLocked
  <1>. SUFFICES ASSUME TopologyInit PROVE TopologyTyped /\ FoundIsLocked
    OBVIOUS
  <1>1. NoIngest \in IngestRow /\ NoIngest.pc = "idle" /\ NoGroup \in GroupRow /\ 0 \in 0 .. MaxMoves
    BY TopologyAssumption DEF NoIngest, IngestRow, GroupRow
  <1>. QED BY <1>1 DEF TopologyInit, TopologyTyped, FoundIsLocked

\* What a report is, and the row that is made of it.
LEMMA ReportsAreRows ==
    /\ Reported \subseteq GroupRow
    /\ \A r \in Reported : r.time \in Times /\ r.time \in Nat /\ r.data \in Topologies
                           /\ r # NoGroup
    /\ \A g \in GroupRow : g.time \in Nat
    /\ \A g \in GroupRow, r \in Reported : Upsert(g, r) \in GroupRow
  <1>1. \A r \in Reported : r.time \in Times /\ r.time \in Nat \ {0} /\ r.data \in Topologies
    BY TopologyAssumption DEF Reported
  <1>2. NoGroup.time = 0
    BY DEF NoGroup
  <1>. QED BY <1>1, <1>2 DEF GroupRow, Upsert

\* Every step keeps what was found locked.
LEMMA TopologyStep ==
    TopologyTyped /\ FoundIsLocked /\ [TopologyNext]_topologyVars => TopologyTyped' /\ FoundIsLocked'
  <1>. SUFFICES ASSUME TopologyTyped, FoundIsLocked, [TopologyNext]_topologyVars
                PROVE  TopologyTyped' /\ FoundIsLocked'
    OBVIOUS
  <1>1. /\ group \in [Stations -> GroupRow] /\ ingest \in [Ingests -> IngestRow]
        /\ MaxMoves \in Nat /\ moves \in 0 .. MaxMoves
      BY TopologyAssumption DEF TopologyTyped
  <1>2. ASSUME NEW i \in Ingests, NEW r \in Reported, IngestRead(i, r)
        PROVE  TopologyTyped' /\ FoundIsLocked'
    <2>. DEFINE entry == [pc |-> "storing", report |-> r, station |-> station,
                        found |-> group[station]]
    <2>1. station \in Stations /\ group[station] \in GroupRow
      BY <1>1, <1>2 DEF IngestRead, TopologyTyped
    <2>2. /\ entry \in IngestRow /\ entry.report = r /\ entry.station = station
          /\ entry.found = group[station]
      BY <2>1, ReportsAreRows DEF IngestRow
    <2>3. ingest' = [ingest EXCEPT ![i] = entry] /\ UNCHANGED <<station, moves, group, changes>>
      BY <1>2 DEF IngestRead
    <2>. HIDE DEF entry
    <2>4. /\ ingest' \in [Ingests -> IngestRow] /\ ingest'[i] = entry
          /\ \A j \in Ingests \ {i} : ingest'[j] = ingest[j]
      BY <1>1, <2>2, <2>3
    <2>. QED BY <2>1, <2>2, <2>3, <2>4 DEF TopologyTyped, FoundIsLocked
  <1>3. ASSUME NEW i \in Ingests, ingest' = [ingest EXCEPT ![i] = NoIngest]
        PROVE  /\ ingest' \in [Ingests -> IngestRow] /\ ingest'[i].pc = "idle"
               /\ \A j \in Ingests \ {i} : ingest'[j] = ingest[j]
    <2>1. NoIngest \in IngestRow /\ NoIngest.pc = "idle"
      BY DEF NoIngest, IngestRow, GroupRow
    <2>. QED BY <1>1, <1>3, <2>1
  <1>4. ASSUME NEW i \in Ingests, IngestCommit(i) PROVE TopologyTyped' /\ FoundIsLocked'
    <2>. DEFINE r == ingest[i].report  st == ingest[i].station
                new == [group EXCEPT ![st] = Upsert(@, r)]
                event == [station |-> st, time |-> r.time, data |-> r.data]
    <2>1. r \in Reported /\ st \in Stations /\ Unlocked(i, st)
      BY <1>4 DEF IngestCommit, TopologyTyped
    <2>2. event \in [station : Stations, time : Times, data : Topologies]
      BY <2>1, ReportsAreRows
    <2>3. new \in [Stations -> GroupRow] /\ \A k \in Stations \ {st} : new[k] = group[k]
      BY <1>1, <2>1, ReportsAreRows
    <2>4. group' \in {group, new} /\ changes' \subseteq changes \cup {event}
          /\ UNCHANGED <<station, moves>>
      BY <1>4 DEF IngestCommit
    <2>5. /\ ingest' \in [Ingests -> IngestRow] /\ ingest'[i].pc = "idle"
          /\ \A j \in Ingests \ {i} : ingest'[j] = ingest[j]
      BY <1>3, <1>4 DEF IngestCommit
    <2>. HIDE DEF new, event
    <2>6. TopologyTyped'
      BY <1>1, <2>2, <2>3, <2>4, <2>5 DEF TopologyTyped
    <2>7. FoundIsLocked'
      BY <1>1, <2>1, <2>3, <2>4, <2>5 DEF FoundIsLocked, Unlocked, TopologyTyped
    <2>. QED BY <2>6, <2>7
  <1>5. ASSUME NEW i \in Ingests, IngestFails(i) PROVE TopologyTyped' /\ FoundIsLocked'
    BY <1>1, <1>3, <1>5 DEF IngestFails, TopologyTyped, FoundIsLocked
  <1>6. ASSUME NEW st \in Stations, MoveMaster(st) PROVE TopologyTyped' /\ FoundIsLocked'
    BY <1>1, <1>6 DEF MoveMaster, TopologyTyped, FoundIsLocked
  <1>. QED BY <1>2, <1>4, <1>5, <1>6 DEF TopologyNext, topologyVars, TopologyTyped, FoundIsLocked

\* The group shown for a station never goes back in time and never says anything else
\* without the event that tells so, in whatever order reports come and race.
THEOREM GroupsGoForward == TopologySpec => []TopologyTypeOK /\ ParallelForward
  <1>1. TopologyTyped => TopologyTypeOK
    BY DEF TopologyTyped, TopologyTypeOK, IngestRow, GroupRow
  <1>2. TopologyTyped /\ FoundIsLocked /\ [TopologyNext]_topologyVars =>
           [\A st \in Stations : group'[st] # group[st] =>
              /\ group'[st].time > group[st].time
              /\ group'[st].data # group[st].data =>
                    [station |-> st, time |-> group'[st].time, data |-> group'[st].data]
                        \in changes']_topologyVars
    <2>. SUFFICES ASSUME TopologyTyped, FoundIsLocked, [TopologyNext]_topologyVars,
                         NEW st \in Stations, group'[st] # group[st]
                  PROVE  /\ group'[st].time > group[st].time
                         /\ group'[st].data # group[st].data =>
                               [station |-> st, time |-> group'[st].time,
                                data |-> group'[st].data] \in changes'
      OBVIOUS
    <2>1. PICK i \in Ingests : IngestCommit(i)
      BY DEF TopologyNext, topologyVars, IngestRead, IngestFails, MoveMaster
    <2>. DEFINE r == ingest[i].report
    <2>2. /\ r \in Reported /\ group \in [Stations -> GroupRow] /\ ingest[i].found \in GroupRow
          /\ ingest[i].pc = "storing" /\ group[st] \in GroupRow
      BY <2>1 DEF IngestCommit, TopologyTyped, IngestRow
    <2>3. /\ st = ingest[i].station /\ group'[st] = Upsert(group[st], r)
          /\ ~IsLate(i) /\ ~(IsChange(i) /\ IsKnown(i))
      BY <2>1, <2>2 DEF IngestCommit
    <2>4. group'[st] = r /\ r.time > group[st].time
      BY <2>3 DEF Upsert
    <2>5. ingest[i].found # r
      BY <2>2, <2>3, ReportsAreRows DEF IsLate
    <2>6. ASSUME r.data # group[st].data PROVE IsChange(i)
      BY <2>2, <2>3, <2>6 DEF IsChange, FoundIsLocked
    <2>. QED BY <2>1, <2>3, <2>4, <2>5, <2>6 DEF IngestCommit
  <1>. QED BY <1>1, <1>2, TopologyBegins, TopologyStep, PTL DEF TopologySpec, ParallelForward

-----------------------------------------------------------------------------
(* Stored heartbeats.                                                      *)

ReportedOn(d) == {s.energy : s \in FactsOf(d)} \cup {r.energy : r \in ModularOf(d)}

SaverRow == [pc : {"idle", "saving"}, sample : Samples \cup {NoSample}, late : BOOLEAN]

StoreTyped ==
    /\ facts \subseteq Samples /\ IsFiniteSet(facts)
    /\ newest \in Samples \cup {NoSample}
    /\ energyDay \in [EnergyDays -> [energy : Nat, count : Nat]]
    /\ modular \subseteq [day : EnergyDays, energy : Energies]
    /\ saver \in [Savers -> SaverRow]
    /\ \A w \in Savers : saver[w].pc = "saving" => saver[w].sample \in Samples

\* A heartbeat that is flagged is older than what is shown.
LateIsOld == \A w \in Savers : saver[w].late => saver[w].sample.time < newest.time

ShownIsNewest ==
    /\ facts = {} => newest = NoSample
    /\ facts # {} => newest \in facts /\ \A s \in facts : s.time <= newest.time

EnergyIsLargest == \A d \in EnergyDays :
    /\ energyDay[d].energy \in ReportedOn(d) \cup {0}
    /\ \A x \in ReportedOn(d) : x <= energyDay[d].energy

EachIsCounted == \A d \in EnergyDays :
    \/ energyDay[d].count = Cardinality(FactsOf(d))
    \/ energyDay[d].count = Cardinality(FactsOf(d)) + 1 /\ ModularOf(d) # {}

StoreInv == StoreTyped /\ LateIsOld /\ ShownIsNewest /\ EnergyIsLargest /\ EachIsCounted

\* The maximum of a set is the element that no other exceeds.
LEMMA MaxIsLargest ==
    ASSUME NEW S \in SUBSET Nat, NEW x \in S, \A y \in S : y <= x
    PROVE  Max(S) = x
  <1>1. Max(S) \in S /\ \A y \in S : Max(S) >= y
    BY DEF Max
  <1>2. Max(S) \in Nat /\ x \in Nat /\ Max(S) >= x /\ Max(S) <= x
    BY <1>1
  <1>. QED BY <1>2

\* What the types say of a heartbeat.
LEMMA SamplesTyped ==
    \A s \in Samples : /\ s.time \in Nat /\ s.time > 0 /\ s.energy \in Energies
                       /\ s.energy \in Nat /\ DayOf(s.time) \in EnergyDays
  BY StoreAssumption DEF Samples, EnergyDays

\* There is no fact at first.
LEMMA StoreBegins == StoreInit => StoreInv
  <1>. SUFFICES ASSUME StoreInit PROVE StoreInv
    OBVIOUS
  <1>1. IsFiniteSet({}) /\ Cardinality({}) = 0
    BY FS_EmptySet
  <1>2. \A d \in EnergyDays : FactsOf(d) = {} /\ ModularOf(d) = {} /\ ReportedOn(d) = {}
    BY DEF StoreInit, FactsOf, ModularOf, ReportedOn
  <1>3. NoSaver \in SaverRow /\ NoSaver.pc = "idle" /\ NoSaver.late = FALSE
    BY DEF NoSaver, SaverRow
  <1>4. \A d \in EnergyDays : energyDay[d] = NoDay /\ energyDay[d].energy = 0 /\ energyDay[d].count = 0
    BY DEF StoreInit, NoDay
  <1>5. StoreTyped
    BY <1>1, <1>3 DEF StoreInit, StoreTyped, NoDay
  <1>6. LateIsOld /\ ShownIsNewest
    BY <1>3 DEF StoreInit, LateIsOld, ShownIsNewest
  <1>. QED BY <1>1, <1>2, <1>4, <1>5, <1>6 DEF StoreInv, EnergyIsLargest, EachIsCounted

\* A heartbeat that is looked at is flagged late against what is shown now, which only
\* gets newer.
LEMMA SaveBeginStep == ASSUME StoreInv, NEW w \in Savers, NEW s \in Samples, SaveBegin(w, s)
                       PROVE  StoreInv'
  <1>. DEFINE entry == [pc |-> "saving", sample |-> s, late |-> s.time < newest.time]
  <1>1. entry \in SaverRow /\ entry.sample = s /\ entry.late = (s.time < newest.time)
    BY DEF SaverRow
  <1>2. saver' = [saver EXCEPT ![w] = entry] /\ UNCHANGED <<facts, newest, energyDay, modular>>
    BY DEF SaveBegin
  <1>. HIDE DEF entry
  <1>3. /\ saver' \in [Savers -> SaverRow] /\ saver'[w] = entry
        /\ \A v \in Savers \ {w} : saver'[v] = saver[v]
    BY <1>1, <1>2 DEF StoreInv, StoreTyped
  <1>4. StoreTyped'
    BY <1>1, <1>2, <1>3 DEF StoreInv, StoreTyped
  <1>5. LateIsOld'
    BY <1>1, <1>2, <1>3 DEF StoreInv, LateIsOld
  <1>6. ShownIsNewest' /\ EnergyIsLargest' /\ EachIsCounted'
    BY <1>2 DEF StoreInv, ShownIsNewest, EnergyIsLargest, EachIsCounted, FactsOf, ModularOf, ReportedOn
  <1>. QED BY <1>4, <1>5, <1>6 DEF StoreInv

\* The worker is free again; what the others have is untouched.
LEMMA SaverFreed ==
    ASSUME StoreInv, NEW w \in Savers, saver' = [saver EXCEPT ![w] = NoSaver]
    PROVE  /\ saver' \in [Savers -> SaverRow] /\ saver'[w].pc = "idle" /\ ~saver'[w].late
           /\ \A v \in Savers \ {w} : saver'[v] = saver[v]
  <1>1. NoSaver \in SaverRow /\ NoSaver.pc = "idle" /\ NoSaver.late = FALSE
    BY DEF NoSaver, SaverRow
  <1>. QED BY <1>1 DEF StoreInv, StoreTyped

\* A transaction that fails leaves the tables.
LEMMA SaveFailsStep == ASSUME StoreInv, NEW w \in Savers, SaveFails(w) PROVE StoreInv'
  <1>1. /\ saver' \in [Savers -> SaverRow] /\ saver'[w].pc = "idle" /\ ~saver'[w].late
        /\ \A v \in Savers \ {w} : saver'[v] = saver[v]
    BY SaverFreed DEF SaveFails
  <1>2. UNCHANGED <<facts, newest, energyDay, modular>>
    BY DEF SaveFails
  <1>3. StoreTyped' /\ LateIsOld'
    BY <1>1, <1>2 DEF StoreInv, StoreTyped, LateIsOld
  <1>4. ShownIsNewest' /\ EnergyIsLargest' /\ EachIsCounted'
    BY <1>2 DEF StoreInv, ShownIsNewest, EnergyIsLargest, EachIsCounted, FactsOf, ModularOf, ReportedOn
  <1>. QED BY <1>3, <1>4 DEF StoreInv

\* A heartbeat that is stored is derived from in the same transaction, unless it was there.
LEMMA SaveCommitStep == ASSUME StoreInv, NEW w \in Savers, SaveCommit(w) PROVE StoreInv'
  <1>0. PICK s \in Samples : s = saver[w].sample
    BY DEF SaveCommit, StoreInv, StoreTyped
  <1>1. /\ s.time \in Nat /\ s.time > 0 /\ s.energy \in Nat
        /\ DayOf(s.time) \in EnergyDays
    BY SamplesTyped
  <1>2. /\ saver' \in [Savers -> SaverRow] /\ saver'[w].pc = "idle" /\ ~saver'[w].late
        /\ \A v \in Savers \ {w} : saver'[v] = saver[v]
    BY SaverFreed DEF SaveCommit
  <1>3. facts' = facts \cup {s} /\ modular' = modular /\ facts' \subseteq Samples /\ IsFiniteSet(facts')
    BY <1>0, FS_AddElement DEF SaveCommit, StoreInv, StoreTyped
  <1>4. CASE s \in facts
    <2>1. UNCHANGED <<facts, newest, energyDay, modular>>
      BY <1>0, <1>3, <1>4 DEF SaveCommit, IsNew
    <2>2. StoreTyped' /\ LateIsOld'
      BY <1>2, <2>1 DEF StoreInv, StoreTyped, LateIsOld
    <2>3. ShownIsNewest' /\ EnergyIsLargest' /\ EachIsCounted'
      BY <2>1 DEF StoreInv, ShownIsNewest, EnergyIsLargest, EachIsCounted, FactsOf, ModularOf, ReportedOn
    <2>. QED BY <2>2, <2>3 DEF StoreInv
  <1>5. CASE s \notin facts
    <2>0. PICK day \in EnergyDays : day = DayOf(s.time)
      BY <1>1
    <2>. DEFINE entry == [energy |-> Larger(energyDay[day].energy, s.energy),
                        count |-> energyDay[day].count + 1]
    <2>1. newest' = Newest(s, saver[w].late) /\ energyDay' = [energyDay EXCEPT ![day] = entry]
      BY <1>0, <1>5, <2>0 DEF SaveCommit, IsNew, Counted
    <2>2. energyDay[day].energy \in Nat /\ energyDay[day].count \in Nat
      BY DEF StoreInv, StoreTyped
    <2>3. /\ entry \in [energy : Nat, count : Nat]
          /\ entry.energy = Larger(energyDay[day].energy, s.energy)
          /\ entry.count = energyDay[day].count + 1
      BY <1>1, <2>2 DEF Larger
    <2>. HIDE DEF entry
    <2>5. /\ energyDay' \in [EnergyDays -> [energy : Nat, count : Nat]] /\ energyDay'[day] = entry
          /\ \A d \in EnergyDays \ {day} : energyDay'[d] = energyDay[d]
      BY <2>1, <2>3 DEF StoreInv, StoreTyped
    <2>6. newest \in Samples \cup {NoSample} /\ newest.time \in Nat
      BY SamplesTyped DEF StoreInv, StoreTyped, NoSample
    <2>7. newest' \in {newest, s} /\ newest'.time >= newest.time /\ newest'.time >= s.time
      BY <1>0, <1>1, <2>1, <2>6 DEF Newest, StoreInv, LateIsOld
    <2>8. StoreTyped'
      BY <1>1, <1>2, <1>3, <2>5, <2>6, <2>7 DEF StoreInv, StoreTyped
    <2>9. LateIsOld'
      <3>1. \A v \in Savers : saver[v].sample.time \in Nat
        BY SamplesTyped DEF StoreInv, StoreTyped, SaverRow, NoSample
      <3>2. newest'.time \in Nat
        BY <1>1, <2>6, <2>7
      <3>. QED BY <1>2, <2>6, <2>7, <3>1, <3>2 DEF StoreInv, LateIsOld
    <2>10. ShownIsNewest'
      <3>1. \A t \in facts : t.time \in Nat
        BY SamplesTyped DEF StoreInv, StoreTyped
      <3>2. newest'.time \in Nat
        BY <1>1, <2>6, <2>7
      <3>3. \A t \in facts' : t.time <= newest'.time
        BY <1>1, <1>3, <2>6, <2>7, <3>1, <3>2 DEF StoreInv, ShownIsNewest
      <3>4. newest' \in facts'
        BY <1>1, <1>3, <2>6, <2>7 DEF StoreInv, ShownIsNewest, NoSample
      <3>. QED BY <1>3, <3>3, <3>4 DEF ShownIsNewest
    <2>11. /\ FactsOf(day)' = FactsOf(day) \cup {s} /\ s \notin FactsOf(day)
           /\ \A d \in EnergyDays \ {day} : FactsOf(d)' = FactsOf(d)
           /\ \A d \in EnergyDays : ModularOf(d)' = ModularOf(d)
      BY <1>3, <1>5, <2>0 DEF FactsOf, ModularOf
    <2>12. EnergyIsLargest'
      <3>1. /\ ReportedOn(day)' = ReportedOn(day) \cup {s.energy}
            /\ \A d \in EnergyDays \ {day} : ReportedOn(d)' = ReportedOn(d)
        BY <2>11 DEF ReportedOn
      <3>2. ReportedOn(day) \subseteq Nat
        BY SamplesTyped, StoreAssumption DEF StoreInv, StoreTyped, ReportedOn, FactsOf, ModularOf
      <3>3. entry.energy \in ReportedOn(day)' \cup {0} /\ \A x \in ReportedOn(day)' : x <= entry.energy
        BY <1>1, <2>2, <2>3, <3>1, <3>2 DEF StoreInv, EnergyIsLargest, Larger
      <3>. QED BY <2>5, <3>1, <3>3 DEF StoreInv, EnergyIsLargest
    <2>13. EachIsCounted'
      <3>1. IsFiniteSet(FactsOf(day))
        BY FS_Subset DEF FactsOf, StoreInv, StoreTyped
      <3>2. Cardinality(FactsOf(day)') = Cardinality(FactsOf(day)) + 1 /\ Cardinality(FactsOf(day)) \in Nat
        BY <2>11, <3>1, FS_AddElement, FS_CardinalityType
      <3>3. \/ entry.count = Cardinality(FactsOf(day)')
            \/ entry.count = Cardinality(FactsOf(day)') + 1 /\ ModularOf(day) # {}
        BY <2>2, <2>3, <3>2 DEF StoreInv, EachIsCounted
      <3>. QED BY <2>5, <2>11, <3>3 DEF StoreInv, EachIsCounted
    <2>. QED BY <2>8, <2>9, <2>10, <2>12, <2>13 DEF StoreInv
  <1>. QED BY <1>4, <1>5

\* A modular report raises the energy of its day, or leaves it.
LEMMA StoreModularStep ==
    ASSUME StoreInv, NEW day \in EnergyDays, NEW energy \in Energies, StoreModular(day, energy)
    PROVE  StoreInv'
  <1>. DEFINE m == [day |-> day, energy |-> energy]
              entry == [energy |-> Larger(energyDay[day].energy, energy),
                      count |-> Larger(energyDay[day].count, 1)]
  <1>1. /\ energy \in Nat /\ energyDay[day].energy \in Nat /\ energyDay[day].count \in Nat
    BY StoreAssumption DEF StoreInv, StoreTyped
  <1>2. /\ m \in [day : EnergyDays, energy : Energies] /\ m.day = day /\ m.energy = energy
        /\ entry \in [energy : Nat, count : Nat]
        /\ entry.energy = Larger(energyDay[day].energy, energy)
        /\ entry.count = Larger(energyDay[day].count, 1)
    BY <1>1 DEF Larger
  <1>3. /\ modular' = modular \cup {m} /\ energyDay' = [energyDay EXCEPT ![day] = entry]
        /\ UNCHANGED <<facts, newest, saver>>
    BY DEF StoreModular
  <1>. HIDE DEF m, entry
  <1>4. /\ energyDay' \in [EnergyDays -> [energy : Nat, count : Nat]] /\ energyDay'[day] = entry
        /\ \A d \in EnergyDays \ {day} : energyDay'[d] = energyDay[d]
    BY <1>2, <1>3 DEF StoreInv, StoreTyped
  <1>5. /\ ModularOf(day)' = ModularOf(day) \cup {m}
        /\ \A d \in EnergyDays \ {day} : ModularOf(d)' = ModularOf(d)
        /\ \A d \in EnergyDays : FactsOf(d)' = FactsOf(d)
    BY <1>2, <1>3 DEF ModularOf, FactsOf
  <1>6. StoreTyped' /\ LateIsOld' /\ ShownIsNewest'
    BY <1>2, <1>3, <1>4 DEF StoreInv, StoreTyped, LateIsOld, ShownIsNewest
  <1>7. EnergyIsLargest'
    <2>1. /\ ReportedOn(day)' = ReportedOn(day) \cup {energy}
          /\ \A d \in EnergyDays \ {day} : ReportedOn(d)' = ReportedOn(d)
      BY <1>2, <1>5 DEF ReportedOn
    <2>2. ReportedOn(day) \subseteq Nat
      BY SamplesTyped, StoreAssumption DEF StoreInv, StoreTyped, ReportedOn, FactsOf, ModularOf
    <2>3. entry.energy \in ReportedOn(day)' \cup {0} /\ \A x \in ReportedOn(day)' : x <= entry.energy
      BY <1>1, <1>2, <2>1, <2>2 DEF StoreInv, EnergyIsLargest, Larger
    <2>. QED BY <1>4, <2>1, <2>3 DEF StoreInv, EnergyIsLargest
  <1>8. EachIsCounted'
    <2>1. Cardinality(FactsOf(day)) \in Nat
      BY FS_Subset, FS_CardinalityType DEF FactsOf, StoreInv, StoreTyped
    <2>2. \/ entry.count = Cardinality(FactsOf(day))
          \/ entry.count = Cardinality(FactsOf(day)) + 1
      BY <1>1, <1>2, <2>1 DEF StoreInv, EachIsCounted, Larger
    <2>. QED BY <1>4, <1>5, <2>2 DEF StoreInv, EachIsCounted
  <1>. QED BY <1>6, <1>7, <1>8 DEF StoreInv

\* What the database derives of the heartbeats agrees with the facts, however often
\* and in whatever order they come, for any number of workers.
THEOREM DerivedFromFacts == StoreSpec => [](StoreTypeOK /\ DerivedAgrees)
  <1>1. StoreInv /\ [StoreNext]_storeVars => StoreInv'
    <2>. SUFFICES ASSUME StoreInv, [StoreNext]_storeVars PROVE StoreInv'
      OBVIOUS
    <2>1. ASSUME UNCHANGED storeVars PROVE StoreInv'
      BY <2>1 DEF storeVars, StoreInv, StoreTyped, LateIsOld, ShownIsNewest, EnergyIsLargest,
                  EachIsCounted, FactsOf, ModularOf, ReportedOn
    <2>. QED
      BY <2>1, SaveBeginStep, SaveFailsStep, SaveCommitStep, StoreModularStep DEF StoreNext
  <1>2. StoreInv => StoreTypeOK
    BY DEF StoreInv, StoreTyped, StoreTypeOK, SaverRow
  <1>3. StoreInv => DerivedAgrees
    <2>. SUFFICES ASSUME StoreInv, NEW d \in EnergyDays
                  PROVE  /\ energyDay[d].energy = Max(ReportedOn(d) \cup {0})
                         /\ \/ energyDay[d].count - Cardinality(FactsOf(d)) = 0
                            \/ /\ energyDay[d].count - Cardinality(FactsOf(d)) = 1
                               /\ ModularOf(d) # {}
      BY DEF StoreInv, ShownIsNewest, DerivedAgrees, ReportedOn
    <2>1. energyDay[d].energy \in Nat /\ energyDay[d].count \in Nat
      BY DEF StoreInv, StoreTyped
    <2>2. ReportedOn(d) \subseteq Nat
      BY SamplesTyped, StoreAssumption DEF StoreInv, StoreTyped, ReportedOn, FactsOf, ModularOf
    <2>3. energyDay[d].energy = Max(ReportedOn(d) \cup {0})
      <3>1. PICK S, x : S = ReportedOn(d) \cup {0} /\ x = energyDay[d].energy
        OBVIOUS
      <3>2. S \in SUBSET Nat
        BY <2>2, <3>1
      <3>3. x \in S /\ \A y \in ReportedOn(d) : y <= x
        BY <3>1 DEF StoreInv, EnergyIsLargest
      <3>4. \A y \in S : y <= x
        BY <3>1, <3>2, <3>3
      <3>5. Max(S) = x
        BY <3>2, <3>3, <3>4, MaxIsLargest
      <3>. QED BY <3>1, <3>5
    <2>4. Cardinality(FactsOf(d)) \in Nat
      BY FS_Subset, FS_CardinalityType DEF FactsOf, StoreInv, StoreTyped
    <2>. QED BY <2>1, <2>3, <2>4 DEF StoreInv, EachIsCounted
  <1>. QED BY <1>1, <1>2, <1>3, StoreBegins, PTL DEF StoreSpec

-----------------------------------------------------------------------------
(* Alarms.                                                                 *)

RowOfAlarm == [state : AlarmStates, occurred : 1 .. MaxReports]

AlarmTyped ==
    /\ AlarmTypeOK
    /\ delivered => handled < Len(reports)

\* A notice, written or to be written, is of an event that is stored.
NoticesOfStored ==
    \A e \in AlarmEvents : notices[e] > 0 \/ e \in toNotify => Holds(events, e)

\* A row of the table comes of an event that is stored; one is active at most.
RowsOfEvents ==
    /\ \A i \in DOMAIN rows : \E k \in DOMAIN events : rows[i].occurred = events[k].time
    /\ \A i, k \in DOMAIN rows : IsActive(rows[i]) /\ IsActive(rows[k]) => i = k

LastIsShown ==
    StoredInOrder /\ events # << >> => (AlarmIsActive <=> IsActive(events[Len(events)]))

AlarmInv == AlarmTyped /\ NotifiedOnce /\ NoticesOfStored /\ RowsOfEvents /\ LastIsShown

\* There is no event at first.
LEMMA AlarmBegins == AlarmInit => AlarmInv
  <1>. SUFFICES ASSUME AlarmInit PROVE AlarmInv
    OBVIOUS
  <1>1. AlarmTyped
    <2>1. /\ 0 \in 0 .. MaxMishaps /\ Len(reports) = 0 /\ reports \in Seq(AlarmEvents)
          /\ events \in Seq(AlarmEvents) /\ rows \in Seq(RowOfAlarm)
      BY AlarmAssumption DEF AlarmInit
    <2>2. handled \in 0 .. Len(reports) /\ notices \in [AlarmEvents -> Nat]
      BY <2>1 DEF AlarmInit
    <2>3. ~delivered /\ delivered \in BOOLEAN /\ marked \in BOOLEAN /\ callbacks = {}
          /\ toNotify = {} /\ swallowed = {} /\ mishaps = 0
      BY DEF AlarmInit
    <2>. QED BY <2>1, <2>2, <2>3 DEF AlarmTyped, AlarmTypeOK, RowOfAlarm
  <1>2. NotifiedOnce /\ NoticesOfStored
    BY DEF AlarmInit, NotifiedOnce, NoticesOfStored
  <1>3. RowsOfEvents /\ LastIsShown
    BY DEF AlarmInit, RowsOfEvents, LastIsShown
  <1>. QED BY <1>1, <1>2, <1>3 DEF AlarmInv

\* The reports, where they are on their ways, and the failures.
LEMMA RoutesTyped ==
    AlarmTyped /\ [AlarmNext]_alarmVars =>
        /\ reports' \in Seq(AlarmEvents) /\ handled' \in 0 .. Len(reports')
        /\ delivered' \in BOOLEAN /\ marked' \in BOOLEAN /\ callbacks' \subseteq DOMAIN reports'
        /\ swallowed' \subseteq AlarmEvents /\ mishaps' \in 0 .. MaxMishaps
        /\ delivered' => handled' < Len(reports')
  <1>. SUFFICES ASSUME AlarmTyped, [AlarmNext]_alarmVars
                PROVE  /\ reports' \in Seq(AlarmEvents) /\ handled' \in 0 .. Len(reports')
                       /\ delivered' \in BOOLEAN /\ marked' \in BOOLEAN
                       /\ callbacks' \subseteq DOMAIN reports'
                       /\ swallowed' \subseteq AlarmEvents /\ mishaps' \in 0 .. MaxMishaps
                       /\ delivered' => handled' < Len(reports')
    OBVIOUS
  <1>1. /\ reports \in Seq(AlarmEvents) /\ Len(reports) \in Nat /\ DOMAIN reports = 1 .. Len(reports)
        /\ handled \in 0 .. Len(reports) /\ delivered \in BOOLEAN /\ marked \in BOOLEAN
        /\ callbacks \subseteq DOMAIN reports /\ swallowed \subseteq AlarmEvents
        /\ MaxMishaps \in Nat /\ mishaps \in 0 .. MaxMishaps
        /\ delivered => handled < Len(reports)
    BY AlarmAssumption DEF AlarmTyped, AlarmTypeOK
  <1>2. ASSUME NEW state \in AlarmStates, NEW time \in 1 .. MaxReports, Report(state, time)
        PROVE  /\ reports' \in Seq(AlarmEvents) /\ Len(reports') = Len(reports) + 1
               /\ DOMAIN reports' = 1 .. Len(reports')
               /\ callbacks' = callbacks \cup {Len(reports')}
               /\ UNCHANGED <<handled, delivered, marked, swallowed, mishaps>>
    <2>1. [state |-> state, time |-> time] \in AlarmEvents
      BY DEF AlarmEvents
    <2>. QED BY <1>1, <1>2, <2>1 DEF Report
  <1>3. ASSUME NEW i \in DOMAIN reports,
               \/ Delivered(reports[i]) \/ Swallowed(reports[i]) \/ NotAnswered(reports[i])
        PROVE  swallowed' \subseteq AlarmEvents /\ mishaps' \in 0 .. MaxMishaps
    <2>1. reports[i] \in AlarmEvents
      BY <1>1
    <2>. QED BY <1>1, <1>3, <2>1 DEF Delivered, Swallowed, NotAnswered, Mishap
  <1>4. ASSUME Consume
        PROVE  /\ swallowed' \subseteq AlarmEvents /\ mishaps' \in 0 .. MaxMishaps
               /\ handled < Len(reports) /\ delivered' \in BOOLEAN /\ marked' \in BOOLEAN
               /\ UNCHANGED <<reports, handled, callbacks>>
    <2>1. handled + 1 \in DOMAIN reports /\ handled < Len(reports)
      BY <1>1, <1>4 DEF Consume, Pending
    <2>. QED BY <1>1, <1>3, <1>4, <2>1 DEF Consume
  <1>5. ASSUME NEW i \in callbacks, CallBack(i) \/ CallBackFails(i)
        PROVE  /\ swallowed' \subseteq AlarmEvents /\ mishaps' \in 0 .. MaxMishaps
               /\ callbacks' \subseteq callbacks
               /\ UNCHANGED <<reports, handled, delivered, marked>>
    <2>1. i \in DOMAIN reports
      BY <1>1
    <2>. QED BY <1>1, <1>3, <1>5, <2>1 DEF CallBack, CallBackFails
  <1>. DEFINE Fine == /\ swallowed' = swallowed /\ reports' = reports
                      /\ callbacks' \subseteq DOMAIN reports /\ mishaps' \in 0 .. MaxMishaps
                      /\ handled' \in 0 .. Len(reports) /\ delivered' \in BOOLEAN
                      /\ marked' \in BOOLEAN
                      /\ delivered' => handled' < Len(reports)
  <1>6. ASSUME Commit PROVE Fine
    <2>1. handled' = handled + 1 /\ handled < Len(reports) /\ ~delivered'
      BY <1>1, <1>6 DEF Commit
    <2>2. handled' \in 0 .. Len(reports)
      BY <1>1, <2>1
    <2>3. /\ delivered' \in BOOLEAN /\ marked' \in BOOLEAN
          /\ UNCHANGED <<reports, callbacks, swallowed, mishaps>>
      BY <1>6 DEF Commit
    <2>. QED BY <1>1, <2>1, <2>2, <2>3
  <1>7. ASSUME AlarmRestart PROVE Fine
    <2>1. mishaps' \in 0 .. MaxMishaps
      BY <1>1, <1>7 DEF AlarmRestart, Mishap
    <2>2. UNCHANGED <<reports, handled, marked, swallowed>>
      BY <1>7 DEF AlarmRestart
    <2>3. CASE callbacks' = {} /\ delivered' = FALSE
      <3>1. ~delivered' /\ delivered' \in BOOLEAN
        BY <2>3
      <3>. QED BY <1>1, <2>1, <2>2, <2>3, <3>1
    <2>4. CASE UNCHANGED <<callbacks, delivered>>
      BY <1>1, <2>1, <2>2, <2>4
    <2>. QED BY <1>7, <2>3, <2>4 DEF AlarmRestart
  <1>8. ASSUME MarkExpires \/ UNCHANGED alarmVars \/ \E e \in toNotify : Notify(e) PROVE Fine
    <2>1. /\ UNCHANGED <<reports, handled, delivered, callbacks, swallowed, mishaps>>
          /\ marked' \in {marked, FALSE}
      BY <1>8 DEF MarkExpires, alarmVars, Notify, routes
    <2>. QED BY <1>1, <2>1
  <1>9. CASE Fine
    BY <1>1, <1>9
  <1>10. CASE \E state \in AlarmStates, time \in 1 .. MaxReports : Report(state, time)
    <2>1. /\ reports' \in Seq(AlarmEvents) /\ Len(reports') = Len(reports) + 1
          /\ DOMAIN reports' = 1 .. Len(reports')
          /\ callbacks' = callbacks \cup {Len(reports')}
          /\ UNCHANGED <<handled, delivered, marked, swallowed, mishaps>>
      BY <1>2, <1>10
    <2>. QED BY <1>1, <2>1
  <1>11. CASE Consume
    BY <1>1, <1>4, <1>11
  <1>12. CASE \E i \in callbacks : CallBack(i) \/ CallBackFails(i)
    BY <1>1, <1>5, <1>12
  <1>. QED BY <1>6, <1>7, <1>8, <1>9, <1>10, <1>11, <1>12 DEF AlarmNext

\* What business-api does with the tables: it stores an event it does not have, writes
\* a notice, forgets the notices it had to write, or nothing.
TablesMove ==
    \/ \E e \in AlarmEvents :
          ~Holds(events, e) /\ Transaction(e) /\ UNCHANGED notices
    \/ \E e \in toNotify : Notify(e)
    \/ UNCHANGED <<events, rows, notices>> /\ toNotify' \subseteq toNotify

\* No step moves the tables otherwise.
LEMMA TablesDoMove == AlarmTyped /\ [AlarmNext]_alarmVars => TablesMove
  <1>. SUFFICES ASSUME AlarmTyped, [AlarmNext]_alarmVars PROVE TablesMove
    OBVIOUS
  <1>1. /\ reports \in Seq(AlarmEvents) /\ DOMAIN reports = 1 .. Len(reports)
        /\ handled \in 0 .. Len(reports) /\ callbacks \subseteq DOMAIN reports
    BY DEF AlarmTyped, AlarmTypeOK
  <1>2. ASSUME UNCHANGED stored, UNCHANGED notices PROVE TablesMove
    BY <1>2 DEF stored, TablesMove
  <1>3. ASSUME NEW i \in DOMAIN reports, UNCHANGED notices,
               \/ Delivered(reports[i]) \/ Swallowed(reports[i]) \/ NotAnswered(reports[i])
        PROVE  TablesMove
    <2>1. reports[i] \in AlarmEvents
      BY <1>1
    <2>2. UNCHANGED stored \/ Transaction(reports[i])
      BY <1>3 DEF Delivered, Swallowed, NotAnswered
    <2>3. CASE Transaction(reports[i]) /\ ~Holds(events, reports[i])
      BY <1>3, <2>1, <2>3 DEF TablesMove
    <2>. QED BY <1>2, <1>3, <2>2, <2>3 DEF Transaction
  <1>4. Consume => TablesMove
    <2>1. Pending => handled + 1 \in DOMAIN reports
      BY <1>1 DEF Pending
    <2>. QED BY <1>2, <1>3, <2>1 DEF Consume
  <1>5. ASSUME NEW i \in callbacks, CallBack(i) \/ CallBackFails(i) PROVE TablesMove
    BY <1>1, <1>2, <1>3, <1>5 DEF CallBack, CallBackFails
  <1>6. ASSUME NEW e \in toNotify, Notify(e) PROVE TablesMove
    BY <1>6 DEF TablesMove
  <1>7. AlarmRestart => TablesMove
    BY DEF AlarmRestart, TablesMove
  <1>. QED
    BY <1>2, <1>4, <1>5, <1>6, <1>7
    DEF AlarmNext, alarmVars, stored, Report, Commit, MarkExpires

\* An event is appended to those that are stored, and the table follows it.
LEMMA EventStored ==
    ASSUME AlarmInv, NEW e \in AlarmEvents, ~Holds(events, e), Transaction(e), UNCHANGED notices
    PROVE  /\ events' \in Seq(AlarmEvents) /\ rows' \in Seq(RowOfAlarm)
           /\ toNotify' \subseteq AlarmEvents
           /\ NotifiedOnce' /\ NoticesOfStored' /\ RowsOfEvents' /\ LastIsShown'
  <1>1. /\ events \in Seq(AlarmEvents) /\ rows \in Seq(RowOfAlarm) /\ notices \in [AlarmEvents -> Nat]
        /\ toNotify \subseteq AlarmEvents
    BY DEF AlarmInv, AlarmTyped, AlarmTypeOK, RowOfAlarm
  <1>2. /\ events' = Append(events, e) /\ toNotify' = toNotify \cup {e}
        /\ rows' = IF e.state = "active" THEN Raised(e) ELSE Recovered(e)
    BY DEF Transaction
  <1>3. /\ events' \in Seq(AlarmEvents) /\ toNotify' \subseteq AlarmEvents
        /\ Len(events) \in Nat /\ Len(events') = Len(events) + 1
        /\ DOMAIN events = 1 .. Len(events) /\ DOMAIN events' = 1 .. Len(events')
        /\ events'[Len(events')] = e
        /\ \A i \in DOMAIN events : i \in DOMAIN events' /\ events'[i] = events[i]
        /\ \A i \in DOMAIN events' : i \in DOMAIN events \/ i = Len(events')
    BY <1>1, <1>2
  <1>4. /\ e.state \in AlarmStates /\ e.time \in 1 .. MaxReports
        /\ \A k \in DOMAIN events : events[k].time \in Nat
    <2>1. \A f \in AlarmEvents : /\ f.state \in AlarmStates /\ f.time \in 1 .. MaxReports
                                 /\ f.time \in Nat
      BY AlarmAssumption DEF AlarmEvents
    <2>. QED BY <1>1, <1>3, <2>1
  <1>5. NotifiedOnce'
    <2>1. notices[e] = 0 /\ e \notin toNotify
      BY <1>1 DEF AlarmInv, NoticesOfStored
    <2>2. \A f \in AlarmEvents : notices'[f] + (IF f \in toNotify' THEN 1 ELSE 0) <= 1
      <3>1. \A f \in AlarmEvents \ {e} :
               notices'[f] = notices[f] /\ (f \in toNotify' <=> f \in toNotify)
        BY <1>2
      <3>2. notices'[e] = 0 /\ e \in toNotify'
        BY <1>2, <2>1
      <3>. QED BY <3>1, <3>2 DEF AlarmInv, NotifiedOnce
    <2>3. \A i \in DOMAIN events : events[i] # e
      BY DEF Holds
    <2>4. \A i, k \in DOMAIN events' : events'[i] = events'[k] => i = k
      BY <1>3, <2>3 DEF AlarmInv, NotifiedOnce
    <2>. QED BY <2>2, <2>4 DEF NotifiedOnce
  <1>6. NoticesOfStored'
    <2>1. \A f \in AlarmEvents : Holds(events, f) => Holds(events', f)
      BY <1>3 DEF Holds
    <2>2. Holds(events', e)
      BY <1>3 DEF Holds
    <2>. QED BY <1>2, <2>1, <2>2 DEF AlarmInv, NoticesOfStored, Holds
  <1>7. /\ Len(rows) \in Nat /\ DOMAIN rows = 1 .. Len(rows)
        /\ \A i \in DOMAIN rows : /\ rows[i] \in RowOfAlarm /\ rows[i].occurred \in Nat
                                  /\ rows[i].state \in AlarmStates
    <2>1. \A r \in RowOfAlarm : r.occurred \in Nat /\ r.state \in AlarmStates
      BY AlarmAssumption DEF RowOfAlarm
    <2>. QED BY <1>1, <2>1
  <1>8. ASSUME StoredInOrder'
        PROVE  StoredInOrder /\ \A i \in DOMAIN rows : rows[i].occurred <= e.time
    <2>1. \A i, k \in DOMAIN events : i < k => events[i].time <= events[k].time
      BY <1>3, <1>8 DEF StoredInOrder
    <2>2. \A k \in DOMAIN events : events[k].time <= e.time
      <3>1. \A k \in DOMAIN events : k \in Nat /\ k < Len(events') /\ Len(events') \in DOMAIN events'
        BY <1>3
      <3>. QED BY <1>3, <1>8, <3>1 DEF StoredInOrder
    <2>. QED BY <2>1, <2>2 DEF StoredInOrder, AlarmInv, RowsOfEvents
  <1>9. CASE e.state = "active" /\ AlarmIsActive
    <2>1. rows' = rows
      BY <1>2, <1>9 DEF Raised, AlarmIsActive
    <2>2. RowsOfEvents'
      BY <1>3, <2>1 DEF AlarmInv, RowsOfEvents
    <2>3. LastIsShown'
      BY <1>3, <1>9, <2>1 DEF LastIsShown, AlarmIsActive, IsActive
    <2>. QED BY <1>1, <1>3, <1>5, <1>6, <2>1, <2>2, <2>3
  <1>10. CASE e.state = "active" /\ ~AlarmIsActive
    <2>. DEFINE entry == [state |-> "active", occurred |-> e.time]
    <2>1. entry \in RowOfAlarm /\ entry.occurred = e.time /\ entry.state = "active"
      BY <1>4 DEF RowOfAlarm, AlarmStates
    <2>2. rows' = Append(rows, entry)
      BY <1>2, <1>10 DEF Raised, AlarmIsActive
    <2>. HIDE DEF entry
    <2>3. /\ rows' \in Seq(RowOfAlarm) /\ Len(rows') = Len(rows) + 1
          /\ DOMAIN rows' = 1 .. Len(rows') /\ rows'[Len(rows')] = entry
          /\ \A i \in DOMAIN rows : i \in DOMAIN rows' /\ rows'[i] = rows[i]
          /\ \A i \in DOMAIN rows' : i \in DOMAIN rows \/ i = Len(rows')
      BY <1>1, <1>7, <2>1, <2>2
    <2>4. Len(rows') \in DOMAIN rows' /\ Len(events') \in DOMAIN events'
      BY <1>3, <1>7, <2>3
    <2>5. \A i \in DOMAIN rows' : \E k \in DOMAIN events' : rows'[i].occurred = events'[k].time
      BY <1>3, <2>1, <2>3, <2>4 DEF AlarmInv, RowsOfEvents
    <2>6. \A i, k \in DOMAIN rows' : IsActive(rows'[i]) /\ IsActive(rows'[k]) => i = k
      BY <1>10, <2>3 DEF AlarmIsActive
    <2>7. LastIsShown'
      BY <1>3, <1>10, <2>1, <2>3, <2>4 DEF LastIsShown, AlarmIsActive, IsActive
    <2>. QED BY <1>3, <1>5, <1>6, <2>3, <2>5, <2>6, <2>7 DEF RowsOfEvents
  <1>11. CASE e.state # "active"
    <2>1. /\ rows' = Recovered(e)
          /\ \A i \in DOMAIN rows : [rows[i] EXCEPT !.state = "recovered"] \in RowOfAlarm
          /\ \A i \in DOMAIN rows : [rows[i] EXCEPT !.state = "recovered"].occurred = rows[i].occurred
          /\ \A i \in DOMAIN rows : ~IsActive([rows[i] EXCEPT !.state = "recovered"])
      BY <1>2, <1>7, <1>11 DEF RowOfAlarm, AlarmStates, IsActive
    <2>2. DOMAIN rows' = DOMAIN rows
      BY <2>1 DEF Recovered
    <2>3. ASSUME NEW i \in DOMAIN rows
          PROVE  /\ rows'[i] \in RowOfAlarm /\ rows'[i].occurred = rows[i].occurred
                 /\ IsActive(rows'[i]) => IsActive(rows[i]) /\ ~(rows[i].occurred <= e.time)
      BY <1>7, <2>1 DEF Recovered
    <2>4. rows' \in Seq(RowOfAlarm)
      BY <1>7, <2>1, <2>2, <2>3 DEF Recovered
    <2>5. RowsOfEvents'
      BY <1>3, <2>2, <2>3 DEF AlarmInv, RowsOfEvents
    <2>6. StoredInOrder' => ~AlarmIsActive'
      BY <1>8, <2>2, <2>3 DEF AlarmIsActive
    <2>7. LastIsShown'
      BY <1>3, <1>11, <2>6 DEF LastIsShown, IsActive
    <2>. QED BY <1>3, <1>5, <1>6, <2>4, <2>5, <2>7
  <1>. QED BY <1>9, <1>10, <1>11

\* Every step keeps the tables and the notices in line with the events.
LEMMA AlarmStep == AlarmInv /\ [AlarmNext]_alarmVars => AlarmInv'
  <1>. SUFFICES ASSUME AlarmInv, [AlarmNext]_alarmVars PROVE AlarmInv'
    OBVIOUS
  <1>. DEFINE Tables == /\ events' \in Seq(AlarmEvents) /\ rows' \in Seq(RowOfAlarm)
                        /\ toNotify' \subseteq AlarmEvents /\ notices' \in [AlarmEvents -> Nat]
                        /\ NotifiedOnce' /\ NoticesOfStored' /\ RowsOfEvents' /\ LastIsShown'
  <1>1. TablesMove
    BY TablesDoMove DEF AlarmInv
  <1>2. /\ events \in Seq(AlarmEvents) /\ rows \in Seq(RowOfAlarm) /\ notices \in [AlarmEvents -> Nat]
        /\ toNotify \subseteq AlarmEvents
    BY DEF AlarmInv, AlarmTyped, AlarmTypeOK, RowOfAlarm
  <1>3. ASSUME NEW e \in AlarmEvents, ~Holds(events, e), Transaction(e), UNCHANGED notices
        PROVE  Tables
    BY <1>2, <1>3, EventStored
  <1>4. ASSUME UNCHANGED <<events, rows>> PROVE RowsOfEvents' /\ LastIsShown'
    BY <1>4 DEF AlarmInv, RowsOfEvents, LastIsShown, StoredInOrder, AlarmIsActive
  <1>5. ASSUME NEW e \in toNotify, Notify(e) PROVE Tables
    <2>1. /\ toNotify' = toNotify \ {e} /\ notices' = [notices EXCEPT ![e] = @ + 1]
          /\ UNCHANGED <<events, rows>>
      BY <1>5 DEF Notify
    <2>2. /\ e \in AlarmEvents /\ notices[e] \in Nat /\ notices' \in [AlarmEvents -> Nat]
          /\ notices'[e] = notices[e] + 1
          /\ \A f \in AlarmEvents \ {e} : notices'[f] = notices[f]
      BY <1>2, <2>1
    <2>3. NotifiedOnce'
      BY <1>2, <2>1, <2>2 DEF AlarmInv, NotifiedOnce
    <2>4. NoticesOfStored'
      BY <2>1, <2>2 DEF AlarmInv, NoticesOfStored
    <2>. QED BY <1>2, <1>4, <2>1, <2>2, <2>3, <2>4
  <1>6. ASSUME UNCHANGED <<events, rows, notices>>, toNotify' \subseteq toNotify PROVE Tables
    <2>1. NotifiedOnce' /\ NoticesOfStored'
      BY <1>2, <1>6 DEF AlarmInv, NotifiedOnce, NoticesOfStored
    <2>. QED BY <1>2, <1>4, <1>6, <2>1
  <1>7. Tables
    BY <1>1, <1>3, <1>5, <1>6 DEF TablesMove
  <1>. QED BY <1>7, RoutesTyped DEF AlarmInv, AlarmTyped, AlarmTypeOK, RowOfAlarm

\* An event is stored once and its owner told of it once at most, for any number of
\* reports, deliveries, lost answers and restarts.
THEOREM OwnersNotifiedOnce == AlarmSpec => [](AlarmTypeOK /\ NotifiedOnce)
  <1>1. AlarmInv => AlarmTypeOK /\ NotifiedOnce
    BY DEF AlarmInv, AlarmTyped
  <1>. QED BY <1>1, AlarmBegins, AlarmStep, PTL DEF AlarmSpec

\* As long as the events are stored in the order of their times, the table shows the
\* alarm as the last event says, with one active row at most.
THEOREM AlarmsShownAsStored == AlarmSpec => []ShownAsStored
  <1>1. AlarmInv => ShownAsStored
    <2>. SUFFICES ASSUME AlarmInv
                  PROVE  Cardinality({i \in DOMAIN rows : IsActive(rows[i])}) <= 1
      BY DEF AlarmInv, LastIsShown, ShownAsStored
    <2>. DEFINE A == {i \in DOMAIN rows : IsActive(rows[i])}
    <2>1. CASE A = {}
      BY <2>1, FS_EmptySet
    <2>2. CASE A # {}
      <3>1. PICK i \in A : TRUE
        BY <2>2
      <3>2. A = {i}
        BY <3>1 DEF AlarmInv, RowsOfEvents
      <3>. HIDE DEF A
      <3>3. Cardinality(A) = 1
        BY <3>2, FS_Singleton
      <3>. QED BY <3>3 DEF A
    <2>. QED BY <2>1, <2>2
  <1>. QED BY <1>1, AlarmBegins, AlarmStep, PTL DEF AlarmSpec

\* The next report is taken for delivered, or has its key, when it is accounted for.
AlarmPassed ==
    /\ CommittedIsStored
    /\ delivered \/ marked => handled < Len(reports) /\ Accounted(handled + 1)

\* A report that is accounted for stays so.
LEMMA AccountedStays ==
    ASSUME AlarmTyped, [AlarmNext]_alarmVars, NEW i \in DOMAIN reports
    PROVE  /\ reports'[i] = reports[i] /\ Len(reports) <= Len(reports')
           /\ Accounted(i) => Accounted(i)'
  <1>1. /\ reports \in Seq(AlarmEvents) /\ events \in Seq(AlarmEvents)
        /\ DOMAIN reports = 1 .. Len(reports)
    BY DEF AlarmTyped, AlarmTypeOK
  <1>2. swallowed \subseteq swallowed' /\ reports'[i] = reports[i] /\ Len(reports) <= Len(reports')
    <2>1. ASSUME NEW state \in AlarmStates, NEW time \in 1 .. MaxReports, Report(state, time)
          PROVE  swallowed' = swallowed /\ reports'[i] = reports[i] /\ Len(reports) <= Len(reports')
      BY <1>1, <2>1 DEF Report, AlarmEvents
    <2>2. ASSUME UNCHANGED reports, swallowed \subseteq swallowed'
          PROVE  swallowed \subseteq swallowed' /\ reports'[i] = reports[i]
                 /\ Len(reports) <= Len(reports')
      BY <1>1, <2>2
    <2>3. ASSUME NEW e, Delivered(e) \/ Swallowed(e) \/ NotAnswered(e)
          PROVE  swallowed \subseteq swallowed'
      BY <2>3 DEF Delivered, Swallowed, NotAnswered
    <2>4. CASE Consume
      BY <2>2, <2>3, <2>4 DEF Consume
    <2>5. ASSUME NEW k \in callbacks, CallBack(k) \/ CallBackFails(k)
          PROVE  UNCHANGED reports /\ swallowed \subseteq swallowed'
      BY <2>3, <2>5 DEF CallBack, CallBackFails
    <2>6. CASE Commit \/ MarkExpires \/ AlarmRestart \/ UNCHANGED alarmVars
               \/ \E e \in toNotify : Notify(e)
      <3>1. UNCHANGED <<reports, swallowed>>
        BY <2>6 DEF Commit, MarkExpires, AlarmRestart, alarmVars, Notify, routes
      <3>. QED BY <2>2, <3>1
    <2>. QED BY <2>1, <2>2, <2>4, <2>5, <2>6 DEF AlarmNext
  <1>3. ASSUME NEW e, Holds(events, e) PROVE Holds(events, e)'
    <2>1. CASE UNCHANGED events
      BY <1>3, <2>1 DEF Holds
    <2>2. CASE \E f \in AlarmEvents : events' = Append(events, f)
      BY <1>1, <1>3, <2>2 DEF Holds
    <2>. QED BY <2>1, <2>2, TablesDoMove DEF TablesMove, Notify, Transaction, stored
  <1>. QED BY <1>2, <1>3 DEF Accounted, Holds

\* An offset is committed, and a key set, for reports that are accounted for only.
LEMMA AlarmPasses == AlarmTyped /\ AlarmPassed /\ [AlarmNext]_alarmVars => AlarmPassed'
  <1>. SUFFICES ASSUME AlarmTyped, AlarmPassed, [AlarmNext]_alarmVars PROVE AlarmPassed'
    OBVIOUS
  <1>1. /\ reports \in Seq(AlarmEvents) /\ DOMAIN reports = 1 .. Len(reports)
        /\ Len(reports) \in Nat /\ handled \in 0 .. Len(reports) /\ delivered \in BOOLEAN
        /\ marked \in BOOLEAN /\ events \in Seq(AlarmEvents)
    BY DEF AlarmTyped, AlarmTypeOK
  <1>2. /\ Len(reports') \in Nat
        /\ \A i \in 1 .. Len(reports) : Accounted(i) => Accounted(i)'
        /\ \A i \in 1 .. Len(reports) : Len(reports) <= Len(reports')
    <2>1. Len(reports') \in Nat
      BY RoutesTyped
    <2>2. \A i \in 1 .. Len(reports) : Accounted(i) => Accounted(i)'
      BY <1>1, AccountedStays
    <2>3. \A i \in 1 .. Len(reports) : Len(reports) <= Len(reports')
      BY <1>1, AccountedStays
    <2>. QED BY <2>1, <2>2, <2>3
  <1>3. ASSUME handled' = handled, \/ delivered' \/ marked' => delivered \/ marked
                                   \/ handled < Len(reports) /\ Accounted(handled + 1)'
        PROVE  AlarmPassed'
    <2>1. CommittedIsStored'
      BY <1>1, <1>2, <1>3 DEF AlarmPassed, CommittedIsStored
    <2>2. ASSUME handled < Len(reports) PROVE handled + 1 \in 1 .. Len(reports)
      BY <1>1, <2>2
    <2>3. delivered' \/ marked' => handled' < Len(reports') /\ Accounted(handled + 1)'
      BY <1>1, <1>2, <1>3, <2>2 DEF AlarmPassed
    <2>. QED BY <1>3, <2>1, <2>3 DEF AlarmPassed, Accounted
  <1>4. CASE Consume
    <2>1. handled' = handled /\ reports' = reports /\ handled + 1 \in 1 .. Len(reports)
      BY <1>1, <1>4 DEF Consume, Pending
    <2>2. ASSUME NEW e, Delivered(e) PROVE Holds(events, e)'
      BY <1>1, <2>2 DEF Delivered, Transaction, Holds, stored
    <2>3. ASSUME NEW e, Swallowed(e) PROVE e \in swallowed'
      BY <2>3 DEF Swallowed
    <2>4. CASE Delivered(reports[handled + 1]) \/ Swallowed(reports[handled + 1])
      BY <1>1, <1>3, <2>1, <2>2, <2>3, <2>4 DEF Accounted, Holds
    <2>5. CASE delivered' \/ marked' => delivered \/ marked
      BY <1>3, <2>1, <2>5
    <2>. QED BY <1>4, <2>4, <2>5 DEF Consume
  <1>5. CASE Commit
    <2>1. handled' = handled + 1 /\ ~delivered' /\ ~marked' /\ delivered
      BY <1>5 DEF Commit
    <2>2. \A i \in 1 .. handled' : i \in 1 .. handled \/ i = handled + 1
      BY <1>1, <2>1
    <2>3. \A i \in 1 .. handled' : i \in 1 .. Len(reports) /\ Accounted(i)
      BY <1>1, <2>1, <2>2 DEF AlarmPassed, CommittedIsStored
    <2>. QED BY <1>2, <2>1, <2>3 DEF AlarmPassed, CommittedIsStored
  <1>6. CASE ~Consume /\ ~Commit
    <2>1. handled' = handled /\ (delivered' => delivered) /\ (marked' => marked)
      <3>1. ASSUME \/ \E state \in AlarmStates, time \in 1 .. MaxReports : Report(state, time)
                   \/ \E i \in callbacks : CallBack(i) \/ CallBackFails(i)
                   \/ \E e \in toNotify : Notify(e)
                   \/ UNCHANGED alarmVars
            PROVE  UNCHANGED <<handled, delivered, marked>>
        BY <3>1 DEF alarmVars, Report, CallBack, CallBackFails, Notify, routes
      <3>2. ASSUME MarkExpires \/ AlarmRestart
            PROVE  handled' = handled /\ (delivered' => delivered) /\ (marked' => marked)
        BY <3>2 DEF MarkExpires, AlarmRestart
      <3>. QED BY <1>6, <3>1, <3>2 DEF AlarmNext
    <2>. QED BY <1>3, <2>1
  <1>. QED BY <1>4, <1>5, <1>6

\* However many reports, restarts and lost answers there are, a committed offset leaves
\* nothing behind that business-api did not answer for.
THEOREM CommittedReportsAreStored == AlarmSpec => []CommittedIsStored
  <1>1. AlarmInit => AlarmInv /\ AlarmPassed
    BY AlarmBegins DEF AlarmInit, AlarmPassed, CommittedIsStored
  <1>2. AlarmInv /\ AlarmPassed /\ [AlarmNext]_alarmVars => (AlarmInv /\ AlarmPassed)'
    BY AlarmStep, AlarmPasses DEF AlarmInv
  <1>3. AlarmPassed => CommittedIsStored
    BY DEF AlarmPassed
  <1>. QED BY <1>1, <1>2, <1>3, PTL DEF AlarmSpec

-----------------------------------------------------------------------------
(* All of them.                                                            *)

\* A step of the services is a step of each or leaves its state alone.
LEMMA EachDeviceActsOrRests ==
    ASSUME [DevicesNext]_devicesVars
    PROVE  /\ [DebugNext]_debugVars /\ [AlarmNext]_alarmVars /\ [ClaimNext]_claimVars
           /\ [BindingNext]_bindingVars /\ [StoreNext]_storeVars
           /\ [TopologyNext]_topologyVars
BY DEF DevicesNext, devicesVars

\* The services together do what each of them may do.
LEMMA DevicesAreParts ==
    DevicesSpec =>
        DebugSpec /\ AlarmSpec /\ ClaimSpec /\ BindingSpec /\ StoreSpec /\ TopologySpec
<1>1. DevicesInit =>
          /\ DebugInit /\ AlarmInit /\ ClaimInit
          /\ BindingInit /\ StoreInit /\ TopologyInit
  BY DEF DevicesInit
<1> QED
  BY <1>1, EachDeviceActsOrRests, PTL
     DEF DevicesSpec, DebugSpec, AlarmSpec, ClaimSpec, BindingSpec, StoreSpec, TopologySpec

\* Whichever of the services of a device acts, the state of all has the values it can
\* take, and what is proved of each is true of them together, in every state and of
\* every step.
THEOREM DevicesAreSafe ==
    DevicesSpec =>
        /\ [](/\ DevicesTypeOK /\ StoppedIsConfirmed /\ NotifiedOnce /\ ShownAsStored
              /\ CommittedIsStored /\ ClaimedOnce /\ RevisionNamesState /\ DerivedAgrees)
        /\ SessionsMoveForward /\ ParallelForward
<1>1. /\ DebugTypeOK /\ AlarmTypeOK /\ ClaimTypeOK
      /\ BindingTypeOK /\ StoreTypeOK /\ TopologyTypeOK
      => DevicesTypeOK
  BY DEF DevicesTypeOK
<1> QED
  BY <1>1, DevicesAreParts, StopsAreConfirmed, OwnersNotifiedOnce, AlarmsShownAsStored,
     CommittedReportsAreStored, DevicesClaimedOnce, RevisionsNameStates, DerivedFromFacts, DebugSessionsMoveForward,
     GroupsGoForward, PTL
=============================================================================
