-------------------------- MODULE OtaUpgradeProofs --------------------------
(***************************************************************************)
(* Proofs about OtaUpgrade, for any number of devices, tasks, upgrades and *)
(* attempts.                                                               *)
(***************************************************************************)
EXTENDS OtaUpgrade, TLAPS

\* The items of work that the actions put down are well formed.
LEMMA WorkTyped ==
    /\ \A op \in UpgradeOps, u \in Upgrades, a \in Args : <<op, u, a>> \in WorkItems
    /\ \A op \in TaskOps, t \in Tasks, a \in Args : <<op, t, a>> \in WorkItems
    /\ TaskEnds \subseteq Args
    /\ Statuses \subseteq Args
    /\ \A u \in Upgrades, how \in {"report", "cleanup", "sync"} :
          <<"tally", TaskOf[u], how>> \in WorkItems
BY OtaAssumption DEF WorkItems, Args, TaskStatuses, Statuses, TaskOps

\* A bookkeeper closes a task with one of the final statuses.
LEMMA VerdictType ==
    ASSUME NEW t, NEW how PROVE Verdict(t, how) \subseteq TaskEnds
BY DEF Verdict, TaskEnds

\* Closing upgrades keeps the two columns typed.
LEMMA EndType ==
    ASSUME TypeOK, NEW S, NEW st \in Terminal, End(S, st)
    PROVE  /\ status' \in [Upgrades -> Statuses]
           /\ fresh' \in [Upgrades -> BOOLEAN]
BY DEF TypeOK, End, Set, Statuses

\* A retry keeps the columns typed.
LEMMA RetryType ==
    ASSUME TypeOK, NEW S, RetryRows(S), S \subseteq Upgrades
    PROVE  /\ status' \in [Upgrades -> Statuses]
           /\ attempt' \in [Upgrades -> Attempts]
           /\ dispatched' \in [Upgrades -> BOOLEAN]
           /\ \A u \in S : attempt[u] + 1 \in Attempts
<1>1. \A u \in S : attempt[u] + 1 \in Attempts
  BY OtaAssumption DEF TypeOK, RetryRows, Attempts
<1>2. status' \in [Upgrades -> Statuses] /\ dispatched' \in [Upgrades -> BOOLEAN]
  BY DEF TypeOK, RetryRows, Set, Statuses
<1>3. attempt' \in [Upgrades -> Attempts]
  BY <1>1 DEF TypeOK, RetryRows, NextAttempt
<1> QED
  BY <1>1, <1>2, <1>3

-----------------------------------------------------------------------------
(* Types. *)

\* The initial state is well typed.
LEMMA TypeInit == Init => TypeOK
BY OtaAssumption DEF Init, TypeOK, Statuses, TaskStatuses, Outcomes, Attempts, Tokens

\* The delivery of commands preserves the types.
LEMMA TypeSending == TypeOK /\ Sending => TypeOK'
<1> SUFFICES ASSUME TypeOK, Sending PROVE TypeOK'
  OBVIOUS
<1>1. ASSUME NEW d \in Devices, DispatchHead(d) PROVE TypeOK'
  BY <1>1, OtaAssumption DEF TypeOK, rows, DispatchHead, Jobs, Stages
<1>2. ASSUME NEW u \in Upgrades, NEW k \in Attempts, SendReject(u, k) PROVE TypeOK'
  BY <1>2, WorkTyped, EndType DEF TypeOK, rows, SendReject, Terminal
<1>3. ASSUME NEW u \in Upgrades, NEW k \in Attempts, SendClaim(u, k) PROVE TypeOK'
  BY <1>3, OtaAssumption DEF TypeOK, rows, SendClaim, Stages
<1>4. ASSUME NEW u \in Upgrades, NEW k \in Attempts, SendGiveUp(u, k) PROVE TypeOK'
  BY <1>4, OtaAssumption DEF TypeOK, rows, SendGiveUp
<1>5. ASSUME NEW u \in Upgrades, NEW k \in Attempts, SendPost(u, k) PROVE TypeOK'
  BY <1>5, OtaAssumption DEF TypeOK, rows, SendPost, Tokens
<1> QED
  BY <1>1, <1>2, <1>3, <1>4, <1>5 DEF Sending

\* What devices do and say preserves the types.
LEMMA TypeReporting == TypeOK /\ Reporting => TypeOK'
<1> SUFFICES ASSUME TypeOK, Reporting PROVE TypeOK'
  OBVIOUS
<1>1. ASSUME NEW u \in Upgrades, NEW k \in Attempts, NEW o \in Terminal, DeviceEnds(u, k, o) PROVE TypeOK'
  BY <1>1, OtaAssumption DEF TypeOK, rows, DeviceEnds, Tokens, Outcomes
<1>2. ASSUME NEW u \in Upgrades, NEW k \in Attempts, Ack(u, k) PROVE TypeOK'
  BY <1>2, OtaAssumption DEF TypeOK, rows, Ack, Statuses
<1>3. ASSUME NEW u \in Upgrades, NEW k \in Attempts, NEW st \in Terminal \cup {"upgrading"}, Report(u, k, st) PROVE TypeOK'
  BY <1>3, OtaAssumption, WorkTyped DEF TypeOK, rows, Report, Statuses, UpgradeOps
<1>4. ASSUME NEW u \in Upgrades, Reconcile(u) PROVE TypeOK'
  BY <1>4, WorkTyped DEF TypeOK, rows, Reconcile, UpgradeOps, Statuses, Terminal
<1>5. ASSUME NEW u \in Upgrades, NEW v \in {"success", "failed"}, ReconcileWrite(u, v) PROVE TypeOK'
  BY <1>5, WorkTyped, EndType DEF TypeOK, rows, ReconcileWrite, Terminal
<1> QED
  BY <1>1, <1>2, <1>3, <1>4, <1>5 DEF Reporting

\* The background part of OTAStatus and the bookkeepers preserve the types.
LEMMA TypeBookkeeping == TypeOK /\ Bookkeeping => TypeOK'
<1> SUFFICES ASSUME TypeOK, Bookkeeping PROVE TypeOK'
  OBVIOUS
<1>1. ASSUME NEW u \in Upgrades, Expire(u) PROVE TypeOK'
  BY <1>1, WorkTyped, EndType DEF TypeOK, rows, Expire, Terminal
<1>2. ASSUME NEW u \in Upgrades, NEW st \in {"upgrading", "success", "failed"}, Sweep(u, st) PROVE TypeOK'
  BY <1>2, WorkTyped DEF TypeOK, rows, Sweep, Siblings, UpgradeOps, Args, Statuses, Terminal
<1>3. ASSUME NEW u \in Upgrades, NEW st \in {"upgrading", "success", "failed"}, Settle(u, st) PROVE TypeOK'
  BY <1>3, OtaAssumption, WorkTyped DEF TypeOK, rows, Settle, TaskOps, Args
<1>4. ASSUME NEW t \in Tasks, Run(t, "start") PROVE TypeOK'
  BY <1>4, OtaAssumption DEF TypeOK, rows, Run, Put, TaskStatuses
<1>5. ASSUME NEW t \in Tasks, NEW how \in {"report", "cleanup", "sync"}, Tally(t, how) PROVE TypeOK'
  BY <1>5, WorkTyped, VerdictType DEF TypeOK, rows, Tally, TaskOps
<1>6. ASSUME NEW t \in Tasks, NEW v \in TaskEnds, Close(t, v) PROVE TypeOK'
  BY <1>6, OtaAssumption DEF TypeOK, rows, Close, Put, TaskStatuses
<1> QED
  BY <1>1, <1>2, <1>3, <1>4, <1>5, <1>6 DEF Bookkeeping

\* The timers preserve the types.
LEMMA TypeTiming == TypeOK /\ Timing => TypeOK'
<1> SUFFICES ASSUME TypeOK, Timing PROVE TypeOK'
  OBVIOUS
<1>1. ASSUME NEW u \in Upgrades, Silence(u) PROVE TypeOK'
  BY <1>1, OtaAssumption DEF TypeOK, rows, Silence
<1>2. ASSUME FailStale PROVE TypeOK'
  BY <1>2, WorkTyped, EndType DEF TypeOK, rows, FailStale, Terminal
<1>3. ASSUME NEW t \in Tasks, TaskTimeout(t) PROVE TypeOK'
  BY <1>3, WorkTyped DEF TypeOK, rows, TaskTimeout, TaskStatuses, TaskEnds, TaskOps, Args
<1>4. ASSUME NEW t \in Tasks, FailRows(t) PROVE TypeOK'
  BY <1>4, EndType DEF TypeOK, rows, FailRows, Terminal
<1> QED
  BY <1>1, <1>2, <1>3, <1>4 DEF Timing

\* Connections and restarts preserve the types.
LEMMA TypeConnecting == TypeOK /\ Connecting => TypeOK'
<1> SUFFICES ASSUME TypeOK, Connecting PROVE TypeOK'
  OBVIOUS
<1>1. ASSUME Restart PROVE TypeOK'
  BY <1>1 DEF TypeOK, rows, Restart
<1>2. ASSUME NEW d \in Devices, GoOnline(d) PROVE TypeOK'
  BY <1>2 DEF TypeOK, rows, GoOnline
<1>3. ASSUME NEW d \in Devices, GoOffline(d) PROVE TypeOK'
  BY <1>3 DEF TypeOK, rows, GoOffline
<1> QED
  BY <1>1, <1>2, <1>3 DEF Connecting

\* The administration preserves the types.
LEMMA TypeAdmin == TypeOK /\ Admin => TypeOK'
<1> SUFFICES ASSUME TypeOK, Admin PROVE TypeOK'
  OBVIOUS
<1>1. ASSUME NEW t \in Tasks, CreateTask(t) PROVE TypeOK'
  BY <1>1, WorkTyped DEF TypeOK, rows, CreateTask, TaskStatuses, UpgradeOps, Args
<1>2. ASSUME NEW t \in Tasks, SchedulerClaim(t) PROVE TypeOK'
  BY <1>2, WorkTyped DEF TypeOK, rows, SchedulerClaim, TaskStatuses, TaskOps, Args
<1>3. ASSUME NEW t \in Tasks, ExecuteRead(t) PROVE TypeOK'
  BY <1>3, WorkTyped DEF TypeOK, rows, ExecuteRead, TaskOps, Args
<1>4. ASSUME NEW t \in Tasks, ExecuteDue(t) PROVE TypeOK'
  BY <1>4, WorkTyped DEF TypeOK, rows, ExecuteDue, TaskOps, Args
<1>5. ASSUME NEW t \in Tasks, Abort(t) PROVE TypeOK'
  BY <1>5 DEF TypeOK, rows, Abort, TaskStatuses, TaskEnds
<1>6. ASSUME NEW t \in Tasks, Execute(t) PROVE TypeOK'
  BY <1>6, OtaAssumption DEF TypeOK, rows, Execute, Jobs, Put, RowsOf, TaskStatuses, Stages
<1>7. ASSUME NEW t \in Tasks, CancelRead(t) PROVE TypeOK'
  BY <1>7, WorkTyped DEF TypeOK, rows, CancelRead, TaskOps, Args
<1>8. ASSUME NEW t \in Tasks, CancelRows(t) PROVE TypeOK'
  BY <1>8, WorkTyped, EndType DEF TypeOK, rows, CancelRows, Terminal, TaskOps, TaskEnds
<1>9. ASSUME NEW t \in Tasks, DeleteRead(t) PROVE TypeOK'
  BY <1>9, WorkTyped DEF TypeOK, rows, DeleteRead, TaskOps, Args
<1>10. ASSUME NEW t \in Tasks, Delete(t) PROVE TypeOK'
  BY <1>10 DEF TypeOK, rows, Delete, TaskStatuses
<1>11. ASSUME NEW t \in Tasks, RetryTask(t) PROVE TypeOK'
  BY <1>11, WorkTyped, RetryType DEF TypeOK, rows, RetryTask, Jobs, RowsOf, Stages, TaskOps, Args
<1>12. ASSUME NEW t \in Tasks, Run(t, "rerun") PROVE TypeOK'
  BY <1>12 DEF TypeOK, rows, Run, Put, TaskStatuses
<1>13. ASSUME NEW u \in Upgrades, InsertRow(u) PROVE TypeOK'
  BY <1>13 DEF TypeOK, rows, InsertRow, Statuses
<1>14. ASSUME NEW u \in Upgrades, Resend(u) PROVE TypeOK'
  BY <1>14 DEF TypeOK, rows, Resend, Jobs, Stages
<1>15. ASSUME NEW u \in Upgrades, CancelUpgrade(u) PROVE TypeOK'
  BY <1>15 DEF TypeOK, rows, CancelUpgrade, Statuses, Terminal
<1>16. ASSUME NEW u \in Upgrades, RetryUpgrade(u) PROVE TypeOK'
  BY <1>16, RetryType DEF TypeOK, rows, RetryUpgrade, Stages
<1> QED
  BY <1>1, <1>2, <1>3, <1>4, <1>5, <1>6, <1>7, <1>8, <1>9, <1>10, <1>11, <1>12, <1>13, <1>14, <1>15, <1>16 DEF Admin

\* Creating tasks preserves the types.
LEMMA TypeCreate ==
    ASSUME TypeOK, NEW d \in Devices, NEW S \in SUBSET Upgrades, CreateIndependent(d, S, FALSE)
    PROVE  TypeOK'
BY OtaAssumption DEF TypeOK, CreateIndependent, Set, Statuses, TaskStatuses

\* The variables keep their types.
LEMMA TypeStep == TypeOK /\ [Next]_vars => TypeOK'
<1> SUFFICES ASSUME TypeOK, [Next]_vars PROVE TypeOK'
  OBVIOUS
<1>1. CASE Running
  BY <1>1, TypeSending, TypeReporting, TypeBookkeeping, TypeTiming, TypeConnecting DEF Running
<1>2. CASE Admin
  BY <1>2, TypeAdmin
<1>3. CASE \E d \in Devices, S \in SUBSET Upgrades : CreateIndependent(d, S, FALSE)
  BY <1>3, TypeCreate
<1>4. CASE UNCHANGED vars
  BY <1>4 DEF TypeOK, vars
<1> QED
  BY <1>1, <1>2, <1>3, <1>4 DEF Next

\* In every behaviour of the server, every variable keeps its type.
THEOREM TypeCorrect == Spec => []TypeOK
BY TypeInit, TypeStep, PTL DEF Spec

-----------------------------------------------------------------------------
(* What a step does to an upgrade. *)

\* The attempt stays, and a claim is not forgotten.
Same(u) == attempt'[u] = attempt[u] /\ (dispatched[u] => dispatched'[u])

Unclosed == {"pending", "upgrading"}

\* An upgrade advances: it stays as it is, starts or succeeds on a message of
\* the device (or on its version), is cancelled, or fails.
Advances(u) ==
    /\ Same(u)
    /\ \/ status'[u] = status[u]
       \/ status[u] \in Unclosed /\ status'[u] = "upgrading" /\ Origins(u, attempt[u]) # {}
       \/ /\ status[u] \in Unclosed /\ status'[u] = "success"
          /\ u \in Installed
          /\ status[u] = "upgrading" \/ Origins(u, attempt[u]) # {}
       \/ status[u] \in Unclosed /\ status'[u] = "cancelled"
       \/ status[u] # "none" /\ status'[u] = "failed"

\* Administrators and the App may also create an upgrade or try it again.
Moves(u) ==
    \/ Advances(u)
    \/ status[u] = "none" /\ status'[u] = "pending" /\ Same(u)
    \/ status[u] = "failed" /\ status'[u] = "pending" /\ attempt'[u] = attempt[u] + 1

AllAdvance == \A u \in Upgrades : Advances(u)
AllMove    == \A u \in Upgrades : Moves(u)

\* What has been read and not yet written refers to rows as they are: the jobs
\* to upgrades that exist, the inserts to upgrades that do not.
JobsInv ==
    /\ \A u \in Upgrades, k \in Attempts : <<"claim", u, k>> \in sends => status[u] # "none"
    /\ \A u \in Upgrades :
          /\ <<"expire", u, "-">> \in work => status[u] # "none"
          /\ <<"insert", u, "-">> \in work =>
                status[u] = "none" /\ TaskOf[u] \notin AppTasks /\ taskStatus[TaskOf[u]] # "none"
          /\ taskStatus[TaskOf[u]] = "none" => status[u] = "none"
          /\ <<"reconcile", u, "success">> \in work => u \in Installed

\* A report of success comes from an installation.
LEMMA ReportedSuccess ==
    ASSUME TypeOK, NEW u \in Upgrades, NEW k \in Attempts,
           \E tok \in Origins(u, k) : "success" \in Mapped(outcome[tok])
    PROVE  u \in Installed
<1>1. PICK tok \in Origins(u, k) : "success" \in Mapped(outcome[tok])
  OBVIOUS
<1>2. tok \in Tokens /\ Concerns(tok, u)
  BY <1>1 DEF Origins, Concerns, TypeOK, Siblings, Tokens
<1>3. outcome[tok] = "success"
  BY <1>1 DEF Mapped
<1> QED
  BY <1>2, <1>3 DEF Installed

\* Sending a command leaves its upgrade as it is, or fails it.
LEMMA AdvanceSending == TypeOK /\ JobsInv /\ Sending => AllAdvance
<1> SUFFICES ASSUME TypeOK, JobsInv, Sending PROVE AllAdvance
  OBVIOUS
<1>1. ASSUME NEW d \in Devices, DispatchHead(d) PROVE AllAdvance
  BY <1>1 DEF TypeOK, rows, AllAdvance, Advances, Same, DispatchHead
<1>2. ASSUME NEW u \in Upgrades, NEW k \in Attempts, SendReject(u, k) PROVE AllAdvance
  BY <1>2 DEF TypeOK, rows, AllAdvance, Advances, Same, SendReject, End, Set, JobsInv
<1>3. ASSUME NEW u \in Upgrades, NEW k \in Attempts, SendClaim(u, k) PROVE AllAdvance
  BY <1>3 DEF TypeOK, rows, AllAdvance, Advances, Same, SendClaim, Claimable, Head, Deliverable
<1>4. ASSUME NEW u \in Upgrades, NEW k \in Attempts, SendGiveUp(u, k) PROVE AllAdvance
  BY <1>4 DEF TypeOK, rows, AllAdvance, Advances, Same, SendGiveUp
<1>5. ASSUME NEW u \in Upgrades, NEW k \in Attempts, SendPost(u, k) PROVE AllAdvance
  BY <1>5 DEF TypeOK, rows, AllAdvance, Advances, Same, SendPost
<1> QED
  BY <1>1, <1>2, <1>3, <1>4, <1>5 DEF Sending

\* Messages move an open upgrade, and versions one that is running.
LEMMA AdvanceReporting == TypeOK /\ JobsInv /\ Reporting => AllAdvance
<1> SUFFICES ASSUME TypeOK, JobsInv, Reporting PROVE AllAdvance
  OBVIOUS
<1>1. ASSUME NEW u \in Upgrades, NEW k \in Attempts, NEW o \in Terminal, DeviceEnds(u, k, o) PROVE AllAdvance
  BY <1>1 DEF TypeOK, rows, AllAdvance, Advances, Same, DeviceEnds
<1>2. ASSUME NEW u \in Upgrades, NEW k \in Attempts, Ack(u, k) PROVE AllAdvance
  BY <1>2 DEF TypeOK, rows, AllAdvance, Advances, Same, Ack, Unclosed
<1>3. ASSUME NEW u \in Upgrades, NEW k \in Attempts, NEW st \in Terminal \cup {"upgrading"}, Report(u, k, st) PROVE AllAdvance
  BY <1>3, ReportedSuccess DEF TypeOK, rows, AllAdvance, Advances, Same, Report, Unclosed, Terminal
<1>4. ASSUME NEW u \in Upgrades, Reconcile(u) PROVE AllAdvance
  BY <1>4 DEF TypeOK, rows, AllAdvance, Advances, Same, Reconcile
<1>5. ASSUME NEW u \in Upgrades, NEW v \in {"success", "failed"}, ReconcileWrite(u, v) PROVE AllAdvance
  BY <1>5 DEF TypeOK, rows, AllAdvance, Advances, Same, ReconcileWrite, End, Set, JobsInv, Unclosed
<1> QED
  BY <1>1, <1>2, <1>3, <1>4, <1>5 DEF Reporting

\* The background part of OTAStatus fails rows that exist.
LEMMA AdvanceBookkeeping == TypeOK /\ JobsInv /\ Bookkeeping => AllAdvance
<1> SUFFICES ASSUME TypeOK, JobsInv, Bookkeeping PROVE AllAdvance
  OBVIOUS
<1>1. ASSUME NEW u \in Upgrades, Expire(u) PROVE AllAdvance
  BY <1>1 DEF TypeOK, rows, AllAdvance, Advances, Same, Expire, End, Set, JobsInv
<1>2. ASSUME NEW u \in Upgrades, NEW st \in {"upgrading", "success", "failed"}, Sweep(u, st) PROVE AllAdvance
  BY <1>2 DEF TypeOK, rows, AllAdvance, Advances, Same, Sweep
<1>3. ASSUME NEW u \in Upgrades, NEW st \in {"upgrading", "success", "failed"}, Settle(u, st) PROVE AllAdvance
  BY <1>3 DEF TypeOK, rows, AllAdvance, Advances, Same, Settle
<1>4. ASSUME NEW t \in Tasks, Run(t, "start") PROVE AllAdvance
  BY <1>4 DEF TypeOK, rows, AllAdvance, Advances, Same, Run
<1>5. ASSUME NEW t \in Tasks, NEW how \in {"report", "cleanup", "sync"}, Tally(t, how) PROVE AllAdvance
  BY <1>5 DEF TypeOK, rows, AllAdvance, Advances, Same, Tally
<1>6. ASSUME NEW t \in Tasks, NEW v \in TaskEnds, Close(t, v) PROVE AllAdvance
  BY <1>6 DEF TypeOK, rows, AllAdvance, Advances, Same, Close
<1> QED
  BY <1>1, <1>2, <1>3, <1>4, <1>5, <1>6 DEF Bookkeeping

\* The timers fail rows that exist.
LEMMA AdvanceTiming == TypeOK /\ JobsInv /\ Timing => AllAdvance
<1> SUFFICES ASSUME TypeOK, JobsInv, Timing PROVE AllAdvance
  OBVIOUS
<1>1. ASSUME NEW u \in Upgrades, Silence(u) PROVE AllAdvance
  BY <1>1 DEF TypeOK, rows, AllAdvance, Advances, Same, Silence
<1>2. ASSUME FailStale PROVE AllAdvance
  BY <1>2 DEF TypeOK, rows, AllAdvance, Advances, Same, FailStale, End, Set
<1>3. ASSUME NEW t \in Tasks, TaskTimeout(t) PROVE AllAdvance
  BY <1>3 DEF TypeOK, rows, AllAdvance, Advances, Same, TaskTimeout
<1>4. ASSUME NEW t \in Tasks, FailRows(t) PROVE AllAdvance
  BY <1>4 DEF TypeOK, rows, AllAdvance, Advances, Same, FailRows, End, Set, RowsOf
<1> QED
  BY <1>1, <1>2, <1>3, <1>4 DEF Timing

\* Connections and restarts leave upgrades as they are.
LEMMA AdvanceConnecting == TypeOK /\ JobsInv /\ Connecting => AllAdvance
<1> SUFFICES ASSUME TypeOK, JobsInv, Connecting PROVE AllAdvance
  OBVIOUS
<1>1. ASSUME Restart PROVE AllAdvance
  BY <1>1 DEF TypeOK, rows, AllAdvance, Advances, Same, Restart
<1>2. ASSUME NEW d \in Devices, GoOnline(d) PROVE AllAdvance
  BY <1>2 DEF TypeOK, rows, AllAdvance, Advances, Same, GoOnline
<1>3. ASSUME NEW d \in Devices, GoOffline(d) PROVE AllAdvance
  BY <1>3 DEF TypeOK, rows, AllAdvance, Advances, Same, GoOffline
<1> QED
  BY <1>1, <1>2, <1>3 DEF Connecting

\* Administrators cancel open upgrades, create rows and retry failed ones.
LEMMA MoveAdmin == TypeOK /\ JobsInv /\ Admin => AllMove
<1> SUFFICES ASSUME TypeOK, JobsInv, Admin PROVE AllMove
  OBVIOUS
<1>1. ASSUME NEW t \in Tasks, CreateTask(t) PROVE AllMove
  BY <1>1 DEF TypeOK, rows, AllMove, Moves, Advances, Same, CreateTask
<1>2. ASSUME NEW t \in Tasks, SchedulerClaim(t) PROVE AllMove
  BY <1>2 DEF TypeOK, rows, AllMove, Moves, Advances, Same, SchedulerClaim
<1>3. ASSUME NEW t \in Tasks, ExecuteRead(t) PROVE AllMove
  BY <1>3 DEF TypeOK, rows, AllMove, Moves, Advances, Same, ExecuteRead
<1>4. ASSUME NEW t \in Tasks, ExecuteDue(t) PROVE AllMove
  BY <1>4 DEF TypeOK, rows, AllMove, Moves, Advances, Same, ExecuteDue
<1>5. ASSUME NEW t \in Tasks, Abort(t) PROVE AllMove
  BY <1>5 DEF TypeOK, rows, AllMove, Moves, Advances, Same, Abort
<1>6. ASSUME NEW t \in Tasks, Execute(t) PROVE AllMove
  BY <1>6 DEF TypeOK, rows, AllMove, Moves, Advances, Same, Execute
<1>7. ASSUME NEW t \in Tasks, CancelRead(t) PROVE AllMove
  BY <1>7 DEF TypeOK, rows, AllMove, Moves, Advances, Same, CancelRead
<1>8. ASSUME NEW t \in Tasks, CancelRows(t) PROVE AllMove
  BY <1>8 DEF TypeOK, rows, AllMove, Moves, Advances, Same, CancelRows, End, Set, RowsOf, Unclosed
<1>9. ASSUME NEW t \in Tasks, DeleteRead(t) PROVE AllMove
  BY <1>9 DEF TypeOK, rows, AllMove, Moves, Advances, Same, DeleteRead
<1>10. ASSUME NEW t \in Tasks, Delete(t) PROVE AllMove
  BY <1>10 DEF TypeOK, rows, AllMove, Moves, Advances, Same, Delete
<1>11. ASSUME NEW t \in Tasks, RetryTask(t) PROVE AllMove
  BY <1>11 DEF TypeOK, rows, AllMove, Moves, Advances, Same, RetryTask, RetryRows, NextAttempt, Set, RowsOf
<1>12. ASSUME NEW t \in Tasks, Run(t, "rerun") PROVE AllMove
  BY <1>12 DEF TypeOK, rows, AllMove, Moves, Advances, Same, Run
<1>13. ASSUME NEW u \in Upgrades, InsertRow(u) PROVE AllMove
  BY <1>13 DEF TypeOK, rows, AllMove, Moves, Advances, Same, InsertRow, JobsInv
<1>14. ASSUME NEW u \in Upgrades, Resend(u) PROVE AllMove
  BY <1>14 DEF TypeOK, rows, AllMove, Moves, Advances, Same, Resend
<1>15. ASSUME NEW u \in Upgrades, CancelUpgrade(u) PROVE AllMove
  BY <1>15 DEF TypeOK, rows, AllMove, Moves, Advances, Same, CancelUpgrade, Unclosed
<1>16. ASSUME NEW u \in Upgrades, RetryUpgrade(u) PROVE AllMove
  BY <1>16 DEF TypeOK, rows, AllMove, Moves, Advances, Same, RetryUpgrade, RetryRows, NextAttempt, Set
<1> QED
  BY <1>1, <1>2, <1>3, <1>4, <1>5, <1>6, <1>7, <1>8, <1>9, <1>10, <1>11, <1>12, <1>13, <1>14, <1>15, <1>16 DEF Admin

\* The App creates upgrades, and leaves the others as they are.
LEMMA MoveCreate ==
    ASSUME TypeOK, NEW d \in Devices, NEW S \in SUBSET Upgrades, CreateIndependent(d, S, FALSE)
    PROVE  AllMove
BY DEF TypeOK, CreateIndependent, Set, AllMove, Moves, Advances, Same

\* While the server is running, upgrades advance.
LEMMA RunningAdvances == TypeOK /\ JobsInv /\ Running => AllAdvance
BY AdvanceSending, AdvanceReporting, AdvanceBookkeeping, AdvanceTiming, AdvanceConnecting
   DEF Running

\* Every step moves upgrades in one of these ways.
LEMMA StepMoves == TypeOK /\ JobsInv /\ [Next]_vars => AllMove
<1> SUFFICES ASSUME TypeOK, JobsInv, [Next]_vars PROVE AllMove
  OBVIOUS
<1>1. CASE Running
  BY <1>1, RunningAdvances DEF AllMove, AllAdvance, Moves
<1>2. CASE Admin
  BY <1>2, MoveAdmin
<1>3. CASE \E d \in Devices, S \in SUBSET Upgrades : CreateIndependent(d, S, FALSE)
  BY <1>3, MoveCreate
<1>4. CASE UNCHANGED vars
  BY <1>4 DEF vars, AllMove, Moves, Advances, Same
<1> QED
  BY <1>1, <1>2, <1>3, <1>4 DEF Next

\* What a device has installed stays installed.
LEMMA InstalledGrows == TypeOK /\ [Next]_vars => Installed \subseteq Installed'
<1>1. SUFFICES ASSUME TypeOK, [Next]_vars
               PROVE  \A tok \in Tokens : outcome[tok] = "success" => outcome'[tok] = "success"
  BY DEF Installed, Concerns, Siblings
<1>2. CASE Sending
  BY <1>1, <1>2 DEF TypeOK, Sending, DispatchHead, SendReject, SendClaim, SendGiveUp, SendPost
<1>3. CASE Reporting
  BY <1>1, <1>3 DEF TypeOK, Reporting, DeviceEnds, Ack, Report, Reconcile, ReconcileWrite
<1>4. CASE Bookkeeping
  BY <1>1, <1>4 DEF TypeOK, Bookkeeping, Expire, Sweep, Settle, Run, Tally, Close
<1>5. CASE Timing
  BY <1>1, <1>5 DEF TypeOK, Timing, Silence, FailStale, TaskTimeout, FailRows
<1>6. CASE Connecting
  BY <1>1, <1>6 DEF TypeOK, Connecting, Restart, GoOnline, GoOffline
<1>7. CASE Admin
  BY <1>1, <1>7 DEF TypeOK, Admin, CreateTask, SchedulerClaim, ExecuteRead, ExecuteDue, Abort, Execute, CancelRead, CancelRows, DeleteRead, Delete, RetryTask, Run, InsertRow, Resend, CancelUpgrade, RetryUpgrade
<1>8. CASE \E d \in Devices, S \in SUBSET Upgrades : CreateIndependent(d, S, FALSE)
  BY <1>1, <1>8 DEF CreateIndependent
<1>9. CASE UNCHANGED vars
  BY <1>9 DEF vars
<1> QED
  BY <1>1, <1>2, <1>3, <1>4, <1>5, <1>6, <1>7, <1>8, <1>9 DEF Next, Running

-----------------------------------------------------------------------------
(* What is read and not yet written stays true to the rows. *)

\* A version that changed comes from an installation on that chip.
LEMMA ReconciledInstalled ==
    ASSUME TypeOK, NEW u \in Upgrades, NEW tok \in Tokens, tok[1] \in Siblings(u),
           ChipOf[tok[1]] = ChipOf[u], outcome[tok] = "success"
    PROVE  u \in Installed
BY DEF Installed, Concerns

\* Nothing has been read at first.
LEMMA JobsInit == Init => JobsInv
BY OtaAssumption DEF Init, JobsInv

\* The senders are started for rows that exist.
LEMMA JobsSending ==
    ASSUME TypeOK, JobsInv, Installed \subseteq Installed', Sending PROVE JobsInv'
<1>1. ASSUME NEW d \in Devices, DispatchHead(d) PROVE JobsInv'
  BY <1>1, OtaAssumption DEF TypeOK, rows, JobsInv, DispatchHead, Jobs, Head, Deliverable
<1>2. ASSUME NEW u \in Upgrades, NEW k \in Attempts, SendReject(u, k) PROVE JobsInv'
  BY <1>2, OtaAssumption DEF TypeOK, rows, JobsInv, SendReject, End, Set
<1>3. ASSUME NEW u \in Upgrades, NEW k \in Attempts, SendClaim(u, k) PROVE JobsInv'
  BY <1>3, OtaAssumption DEF TypeOK, rows, JobsInv, SendClaim
<1>4. ASSUME NEW u \in Upgrades, NEW k \in Attempts, SendGiveUp(u, k) PROVE JobsInv'
  BY <1>4, OtaAssumption DEF TypeOK, rows, JobsInv, SendGiveUp
<1>5. ASSUME NEW u \in Upgrades, NEW k \in Attempts, SendPost(u, k) PROVE JobsInv'
  BY <1>5, OtaAssumption DEF TypeOK, rows, JobsInv, SendPost
<1> QED
  BY <1>1, <1>2, <1>3, <1>4, <1>5 DEF Sending

\* A reconciliation that says success has an installation behind it.
LEMMA JobsReporting ==
    ASSUME TypeOK, JobsInv, Installed \subseteq Installed', Reporting PROVE JobsInv'
<1>1. ASSUME NEW u \in Upgrades, NEW k \in Attempts, NEW o \in Terminal, DeviceEnds(u, k, o) PROVE JobsInv'
  BY <1>1, OtaAssumption DEF TypeOK, rows, JobsInv, DeviceEnds
<1>2. ASSUME NEW u \in Upgrades, NEW k \in Attempts, Ack(u, k) PROVE JobsInv'
  BY <1>2, OtaAssumption DEF TypeOK, rows, JobsInv, Ack
<1>3. ASSUME NEW u \in Upgrades, NEW k \in Attempts, NEW st \in Terminal \cup {"upgrading"}, Report(u, k, st) PROVE JobsInv'
  <2>1. st # "none" /\ status[u] # "none"
    BY <1>3 DEF Report, Terminal
  <2>2. \A x \in Upgrades : status'[x] = "none" <=> status[x] = "none"
    BY <1>3, <2>1 DEF Report, TypeOK
  <2>3. /\ \A item \in work' : item[1] # "sweep" => item \in work
        /\ UNCHANGED <<taskStatus, sends>>
    BY <1>3 DEF Report, rows
  <2> QED
    BY <2>2, <2>3 DEF JobsInv
<1>4. ASSUME NEW u \in Upgrades, Reconcile(u) PROVE JobsInv'
  <2> DEFINE changed == \E tok \in Tokens : /\ tok[1] \in Siblings(u)
                                            /\ ChipOf[tok[1]] = ChipOf[u]
                                            /\ outcome[tok] = "success"
  <2>a. changed => u \in Installed
    BY ReconciledInstalled
  <2>b. PICK v \in IF changed THEN {"success", "failed"} ELSE {"failed"} :
           work' = work \cup {<<"reconcile", u, v>>}
    BY <1>4 DEF Reconcile
  <2>c. v = "success" => u \in Installed
    BY <2>a, <2>b
  <2> HIDE DEF changed
  <2>1. \A x \in Upgrades : <<"reconcile", x, "success">> \in work' => x \in Installed
    BY <2>b, <2>c DEF JobsInv
  <2>2. /\ \A item \in work' : item[1] # "reconcile" => item \in work
        /\ UNCHANGED <<status, taskStatus, sends>>
    BY <1>4 DEF Reconcile, rows
  <2> QED
    BY <2>1, <2>2 DEF JobsInv
<1>5. ASSUME NEW u \in Upgrades, NEW v \in {"success", "failed"}, ReconcileWrite(u, v) PROVE JobsInv'
  BY <1>5, OtaAssumption DEF TypeOK, rows, JobsInv, ReconcileWrite, End, Set
<1> QED
  BY <1>1, <1>2, <1>3, <1>4, <1>5 DEF Reporting

\* Only rows that exist are expired.
LEMMA JobsBookkeeping ==
    ASSUME TypeOK, JobsInv, Installed \subseteq Installed', Bookkeeping PROVE JobsInv'
<1>1. ASSUME NEW u \in Upgrades, Expire(u) PROVE JobsInv'
  BY <1>1, OtaAssumption DEF TypeOK, rows, JobsInv, Expire, End, Set
<1>2. ASSUME NEW u \in Upgrades, NEW st \in {"upgrading", "success", "failed"}, Sweep(u, st) PROVE JobsInv'
  BY <1>2, OtaAssumption DEF TypeOK, rows, JobsInv, Sweep, Siblings
<1>3. ASSUME NEW u \in Upgrades, NEW st \in {"upgrading", "success", "failed"}, Settle(u, st) PROVE JobsInv'
  BY <1>3, OtaAssumption DEF TypeOK, rows, JobsInv, Settle
<1>4. ASSUME NEW t \in Tasks, Run(t, "start") PROVE JobsInv'
  BY <1>4, OtaAssumption DEF TypeOK, rows, JobsInv, Run, Put
<1>5. ASSUME NEW t \in Tasks, NEW how \in {"report", "cleanup", "sync"}, Tally(t, how) PROVE JobsInv'
  BY <1>5, OtaAssumption DEF TypeOK, rows, JobsInv, Tally
<1>6. ASSUME NEW t \in Tasks, NEW v \in TaskEnds, Close(t, v) PROVE JobsInv'
  BY <1>6, OtaAssumption DEF TypeOK, rows, JobsInv, Close, Put, TaskEnds
<1> QED
  BY <1>1, <1>2, <1>3, <1>4, <1>5, <1>6 DEF Bookkeeping

\* The timers read rows that exist.
LEMMA JobsTiming ==
    ASSUME TypeOK, JobsInv, Installed \subseteq Installed', Timing PROVE JobsInv'
<1>1. ASSUME NEW u \in Upgrades, Silence(u) PROVE JobsInv'
  BY <1>1, OtaAssumption DEF TypeOK, rows, JobsInv, Silence
<1>2. ASSUME FailStale PROVE JobsInv'
  BY <1>2, OtaAssumption DEF TypeOK, rows, JobsInv, FailStale, End, Set
<1>3. ASSUME NEW t \in Tasks, TaskTimeout(t) PROVE JobsInv'
  BY <1>3, OtaAssumption DEF TypeOK, rows, JobsInv, TaskTimeout
<1>4. ASSUME NEW t \in Tasks, FailRows(t) PROVE JobsInv'
  BY <1>4, OtaAssumption DEF TypeOK, rows, JobsInv, FailRows, End, Set, RowsOf
<1> QED
  BY <1>1, <1>2, <1>3, <1>4 DEF Timing

\* A restart forgets what was read.
LEMMA JobsConnecting ==
    ASSUME TypeOK, JobsInv, Installed \subseteq Installed', Connecting PROVE JobsInv'
<1>1. ASSUME Restart PROVE JobsInv'
  BY <1>1, OtaAssumption DEF TypeOK, rows, JobsInv, Restart
<1>2. ASSUME NEW d \in Devices, GoOnline(d) PROVE JobsInv'
  BY <1>2, OtaAssumption DEF TypeOK, rows, JobsInv, GoOnline
<1>3. ASSUME NEW d \in Devices, GoOffline(d) PROVE JobsInv'
  BY <1>3, OtaAssumption DEF TypeOK, rows, JobsInv, GoOffline
<1> QED
  BY <1>1, <1>2, <1>3 DEF Connecting

\* Tasks insert their own rows, once.
LEMMA JobsAdmin ==
    ASSUME TypeOK, JobsInv, Installed \subseteq Installed', Admin PROVE JobsInv'
<1>1. ASSUME NEW t \in Tasks, CreateTask(t) PROVE JobsInv'
  BY <1>1, OtaAssumption DEF TypeOK, rows, JobsInv, CreateTask
<1>2. ASSUME NEW t \in Tasks, SchedulerClaim(t) PROVE JobsInv'
  BY <1>2, OtaAssumption DEF TypeOK, rows, JobsInv, SchedulerClaim
<1>3. ASSUME NEW t \in Tasks, ExecuteRead(t) PROVE JobsInv'
  BY <1>3, OtaAssumption DEF TypeOK, rows, JobsInv, ExecuteRead
<1>4. ASSUME NEW t \in Tasks, ExecuteDue(t) PROVE JobsInv'
  BY <1>4, OtaAssumption DEF TypeOK, rows, JobsInv, ExecuteDue
<1>5. ASSUME NEW t \in Tasks, Abort(t) PROVE JobsInv'
  BY <1>5, OtaAssumption DEF TypeOK, rows, JobsInv, Abort
<1>6. ASSUME NEW t \in Tasks, Execute(t) PROVE JobsInv'
  BY <1>6, OtaAssumption DEF TypeOK, rows, JobsInv, Execute, Put, Jobs, RowsOf
<1>7. ASSUME NEW t \in Tasks, CancelRead(t) PROVE JobsInv'
  BY <1>7, OtaAssumption DEF TypeOK, rows, JobsInv, CancelRead
<1>8. ASSUME NEW t \in Tasks, CancelRows(t) PROVE JobsInv'
  BY <1>8, OtaAssumption DEF TypeOK, rows, JobsInv, CancelRows, End, Set, RowsOf
<1>9. ASSUME NEW t \in Tasks, DeleteRead(t) PROVE JobsInv'
  BY <1>9, OtaAssumption DEF TypeOK, rows, JobsInv, DeleteRead
<1>10. ASSUME NEW t \in Tasks, Delete(t) PROVE JobsInv'
  BY <1>10, OtaAssumption DEF TypeOK, rows, JobsInv, Delete
<1>11. ASSUME NEW t \in Tasks, RetryTask(t) PROVE JobsInv'
  BY <1>11, OtaAssumption DEF TypeOK, rows, JobsInv, RetryTask, Jobs, RowsOf, RetryRows, Set
<1>12. ASSUME NEW t \in Tasks, Run(t, "rerun") PROVE JobsInv'
  BY <1>12, OtaAssumption DEF TypeOK, rows, JobsInv, Run, Put
<1>13. ASSUME NEW u \in Upgrades, InsertRow(u) PROVE JobsInv'
  BY <1>13, OtaAssumption DEF TypeOK, rows, JobsInv, InsertRow
<1>14. ASSUME NEW u \in Upgrades, Resend(u) PROVE JobsInv'
  BY <1>14, OtaAssumption DEF TypeOK, rows, JobsInv, Resend, Jobs
<1>15. ASSUME NEW u \in Upgrades, CancelUpgrade(u) PROVE JobsInv'
  BY <1>15, OtaAssumption DEF TypeOK, rows, JobsInv, CancelUpgrade
<1>16. ASSUME NEW u \in Upgrades, RetryUpgrade(u) PROVE JobsInv'
  BY <1>16, OtaAssumption DEF TypeOK, rows, JobsInv, RetryUpgrade, RetryRows, Set
<1> QED
  BY <1>1, <1>2, <1>3, <1>4, <1>5, <1>6, <1>7, <1>8, <1>9, <1>10, <1>11, <1>12, <1>13, <1>14, <1>15, <1>16 DEF Admin

\* The App inserts its rows with their task.
LEMMA JobsCreate ==
    ASSUME TypeOK, JobsInv, NEW d \in Devices, NEW S \in SUBSET Upgrades,
           CreateIndependent(d, S, FALSE), Installed \subseteq Installed'
    PROVE  JobsInv'
<1>1. \A u \in Upgrades : status[u] # "none" => status'[u] # "none"
  BY DEF CreateIndependent, Set, TypeOK
<1>2. \A u \in Upgrades : taskStatus'[TaskOf[u]] = "none" => taskStatus[TaskOf[u]] = "none"
  BY OtaAssumption DEF CreateIndependent, Set, TypeOK
<1>3. \A u \in Upgrades : taskStatus'[TaskOf[u]] = "none" => status'[u] = "none"
  BY OtaAssumption DEF CreateIndependent, Set, TypeOK, JobsInv
<1>4. \A u \in Upgrades : TaskOf[u] \notin AppTasks => status'[u] = status[u]
  BY DEF CreateIndependent, Set, TypeOK
<1> QED
  BY <1>1, <1>2, <1>3, <1>4 DEF CreateIndependent, JobsInv

\* What is half done always refers to rows as they are.
LEMMA JobsStep == TypeOK /\ JobsInv /\ [Next]_vars => JobsInv'
<1> SUFFICES ASSUME TypeOK, JobsInv, [Next]_vars PROVE JobsInv'
  OBVIOUS
<1>1. Installed \subseteq Installed'
  BY InstalledGrows
<1>2. CASE Running
  BY <1>1, <1>2, JobsSending, JobsReporting, JobsBookkeeping, JobsTiming, JobsConnecting
     DEF Running
<1>3. CASE Admin
  BY <1>1, <1>3, JobsAdmin
<1>4. CASE \E d \in Devices, S \in SUBSET Upgrades : CreateIndependent(d, S, FALSE)
  BY <1>1, <1>4, JobsCreate
<1>5. CASE UNCHANGED vars
  BY <1>1, <1>5 DEF vars, JobsInv
<1> QED
  BY <1>2, <1>3, <1>4, <1>5 DEF Next

-----------------------------------------------------------------------------
(* The implementation of OtaLedger. *)

\* A table that is empty is an empty ledger.
LEMMA LedgerInit == Init => Ledger!Init
BY DEF Init, Ledger!Init, Installed, Tokens

\* Every step of the table is a step of the ledger.
LEMMA LedgerStep == TypeOK /\ JobsInv /\ [Next]_vars => Ledger!Next
<1> SUFFICES ASSUME TypeOK, JobsInv, [Next]_vars PROVE Ledger!Next
  OBVIOUS
<1>1. Installed \subseteq Installed'
  BY InstalledGrows
<1>2. TypeOK'
  BY TypeStep
<1>3. /\ status' = [u \in Upgrades |-> status'[u]]
      /\ attempt' = [u \in Upgrades |-> attempt'[u]]
  BY <1>2 DEF TypeOK
<1>4. \A u \in Upgrades : Moves(u)
  BY StepMoves DEF AllMove
<1>5. ASSUME NEW u \in Upgrades
      PROVE  \/ Ledger!Create(u) \/ Ledger!Start(u) \/ Ledger!Succeed(u) \/ Ledger!Cancel(u)
             \/ Ledger!Fail(u) \/ Ledger!Retry(u) \/ Ledger!Keep(u)
  BY <1>4 DEF Moves, Advances, Same, Unclosed, Ledger!Create, Ledger!Start, Ledger!Succeed,
     Ledger!Cancel, Ledger!Fail, Ledger!Retry, Ledger!Keep, Ledger!Open
<1> QED
  BY <1>1, <1>3, <1>5 DEF Ledger!Next

\* The table implements the ledger: an upgrade is recorded as a success only when
\* its firmware was installed, and a closed upgrade reopens only by a retry that
\* opens a new attempt, whatever the order of messages, timers, administrators
\* and restarts.
THEOREM Implementation == Spec => LedgerSpec
<1>1. TypeOK /\ JobsInv /\ [Next]_vars => [Ledger!Next]_(Ledger!ledger)
  BY LedgerStep
<1> QED
  BY <1>1, TypeInit, TypeStep, JobsInit, JobsStep, LedgerInit, PTL
     DEF Spec, LedgerSpec, Ledger!Spec

-----------------------------------------------------------------------------
(* Every running upgrade was claimed and sent. *)

\* The command of attempt k of u was handed to the device server, or is about to.
Handed(u, k) == <<u, k>> \in sent \/ <<"post", u, k>> \in sends

\* Commands are sent for no attempt to come, and for the present one only after
\* its claim.
HandedInv ==
    \A u \in Upgrades, k \in Attempts :
        Handed(u, k) => k <= attempt[u] /\ (k = attempt[u] => dispatched[u])

\* Commands that were sent stay sent, and a command is handed over by a claim of
\* the present attempt.
Hands ==
    /\ sent \subseteq sent'
    /\ \A u \in Upgrades, k \in Attempts :
          Handed(u, k)' => \/ Handed(u, k)
                           \/ k = attempt[u] /\ dispatched'[u] /\ attempt' = attempt

\* Only the copies of SendUpgradeCommand hand commands over.
LEMMA HandsStep == TypeOK /\ [Next]_vars => Hands
<1> SUFFICES ASSUME TypeOK, [Next]_vars PROVE Hands
  OBVIOUS
<1> DEFINE Quiet == sent' = sent /\ \A job \in sends' : job[1] = "claim" \/ job \in sends
<1>q. ASSUME Quiet PROVE Hands
  BY <1>q DEF Hands, Handed
<1>1. ASSUME NEW d \in Devices, DispatchHead(d) PROVE Quiet
  BY <1>1 DEF DispatchHead, Jobs
<1>2. ASSUME NEW u \in Upgrades, NEW k \in Attempts, SendReject(u, k) PROVE Quiet
  BY <1>2 DEF SendReject
<1>3. ASSUME NEW u \in Upgrades, NEW k \in Attempts, SendClaim(u, k) PROVE Hands
  BY <1>3 DEF SendClaim, Claimable, Hands, Handed, TypeOK
<1>4. ASSUME NEW u \in Upgrades, NEW k \in Attempts, SendGiveUp(u, k) PROVE Quiet
  BY <1>4 DEF SendGiveUp
<1>5. ASSUME NEW u \in Upgrades, NEW k \in Attempts, SendPost(u, k) PROVE Hands
  BY <1>5 DEF SendPost, Hands, Handed, TypeOK
<1>6. ASSUME Reporting PROVE Quiet
  BY <1>6 DEF Reporting, DeviceEnds, Ack, Report, Reconcile, ReconcileWrite
<1>7. ASSUME Bookkeeping PROVE Quiet
  BY <1>7 DEF Bookkeeping, Expire, Sweep, Settle, Run, Tally, Close
<1>8. ASSUME Timing PROVE Quiet
  BY <1>8 DEF Timing, Silence, FailStale, TaskTimeout, FailRows
<1>9. ASSUME Connecting PROVE Quiet
  BY <1>9 DEF Connecting, Restart, GoOnline, GoOffline
<1>10. ASSUME NEW t \in Tasks, Execute(t) PROVE Quiet
  BY <1>10 DEF Execute, Jobs
<1>11. ASSUME NEW t \in Tasks, RetryTask(t) PROVE Quiet
  BY <1>11 DEF RetryTask, Jobs
<1>12. ASSUME NEW u \in Upgrades, Resend(u) \/ RetryUpgrade(u) PROVE Quiet
  BY <1>12 DEF Resend, RetryUpgrade, Jobs
<1>13. ASSUME NEW t \in Tasks,
              \/ CreateTask(t) \/ SchedulerClaim(t) \/ ExecuteRead(t) \/ ExecuteDue(t) \/ Abort(t)
              \/ CancelRead(t) \/ CancelRows(t) \/ DeleteRead(t) \/ Delete(t) \/ Run(t, "rerun")
       PROVE  Quiet
  BY <1>13 DEF CreateTask, SchedulerClaim, ExecuteRead, ExecuteDue, Abort, CancelRead, CancelRows,
     DeleteRead, Delete, Run
<1>14. ASSUME NEW u \in Upgrades, InsertRow(u) \/ CancelUpgrade(u) PROVE Quiet
  BY <1>14 DEF InsertRow, CancelUpgrade
<1>15. ASSUME NEW d \in Devices, NEW S \in SUBSET Upgrades, CreateIndependent(d, S, FALSE) PROVE Quiet
  BY <1>15 DEF CreateIndependent
<1>16. ASSUME UNCHANGED vars PROVE Quiet
  BY <1>16 DEF vars
<1> HIDE DEF Quiet
<1>a. ASSUME Admin PROVE Quiet
  BY <1>a, <1>10, <1>11, <1>12, <1>13, <1>14 DEF Admin
<1>s. CASE Sending
  BY <1>s, <1>q, <1>1, <1>2, <1>3, <1>4, <1>5 DEF Sending
<1> QED
  BY <1>a, <1>s, <1>q, <1>6, <1>7, <1>8, <1>9, <1>15, <1>16 DEF Next, Running

\* Nothing is sent at first.
LEMMA HandedInit == Init => HandedInv
BY DEF Init, HandedInv, Handed

\* A retry forgets the claim together with the attempt it was for.
LEMMA HandedStep == TypeOK /\ JobsInv /\ HandedInv /\ [Next]_vars => HandedInv'
<1> SUFFICES ASSUME TypeOK, JobsInv, HandedInv, [Next]_vars,
                    NEW u \in Upgrades, NEW k \in Attempts, Handed(u, k)'
             PROVE  k <= attempt'[u] /\ (k = attempt'[u] => dispatched'[u])
  BY DEF HandedInv
<1>1. attempt[u] \in Nat /\ attempt'[u] \in Nat /\ k \in Nat
  BY TypeStep DEF TypeOK, Attempts
<1>2. \/ attempt'[u] = attempt[u] /\ (dispatched[u] => dispatched'[u])
      \/ attempt'[u] = attempt[u] + 1
  BY StepMoves DEF AllMove, Moves, Advances, Same
<1>3. CASE Handed(u, k)
  <2>1. k <= attempt[u] /\ (k = attempt[u] => dispatched[u])
    BY <1>3 DEF HandedInv
  <2> QED
    BY <2>1, <1>1, <1>2
<1>4. CASE k = attempt[u] /\ dispatched'[u] /\ attempt' = attempt
  BY <1>1, <1>4
<1> QED
  BY <1>3, <1>4, HandsStep DEF Hands

\* Nothing runs at first.
LEMMA RunningInit == Init => RunningWasSent
BY DEF Init, RunningWasSent

\* A message that moves an upgrade is about its present attempt, which was claimed
\* before it was sent.
LEMMA RunningStep ==
    TypeOK /\ JobsInv /\ HandedInv /\ RunningWasSent /\ [Next]_vars => RunningWasSent'
<1> SUFFICES ASSUME TypeOK, JobsInv, HandedInv, RunningWasSent, [Next]_vars,
                    NEW u \in Upgrades, DeviceOf[u] \notin LegacyDevices,
                    status'[u] \in {"upgrading", "success"}
             PROVE  dispatched'[u] /\ <<u, attempt'[u]>> \in sent'
  BY DEF RunningWasSent
<1>1. sent \subseteq sent' /\ attempt[u] \in Attempts
  BY HandsStep DEF Hands, TypeOK
<1>2. Advances(u)
  BY StepMoves DEF AllMove, Moves
<1>3. attempt'[u] = attempt[u] /\ (dispatched[u] => dispatched'[u])
  BY <1>2 DEF Advances, Same
<1>4. CASE status[u] \in {"upgrading", "success"}
  BY <1>1, <1>3, <1>4 DEF RunningWasSent
<1>5. CASE Origins(u, attempt[u]) # {}
  <2>1. <<u, attempt[u]>> \in sent
    BY <1>5 DEF Origins
  <2>2. dispatched[u]
    BY <2>1, <1>1 DEF HandedInv, Handed
  <2> QED
    BY <2>1, <2>2, <1>1, <1>3
<1> QED
  BY <1>2, <1>4, <1>5 DEF Advances

\* An upgrade shown as running or successful on a device that echoes the token has
\* been claimed, and the command of its present attempt was sent: no late, repeated
\* or foreign message can move an attempt that was not dispatched.
THEOREM RunningOnlyIfSent == Spec => []RunningWasSent
BY TypeInit, TypeStep, JobsInit, JobsStep, HandedInit, HandedStep, RunningInit, RunningStep, PTL
   DEF Spec

-----------------------------------------------------------------------------
(* One upgrade in flight per device, in the App's flow. *)

\* The tasks of the App are running or over, and nobody is about to start one.
AppQuiet ==
    /\ \A t \in Tasks : taskStatus[t] \in {"none", "running"} \cup TaskEnds
    /\ \A t \in Tasks : <<"start", t, "-">> \notin work

\* Only upgrades that exist are claimed.
ClaimedExists == \A u \in Upgrades : dispatched[u] => status[u] # "none"

\* Upgrade u is not waiting and not running, and will not be.
Settled(u) == status[u] \in Terminal \cup {"none"} \/ taskStatus[TaskOf[u]] \in TaskEnds

\* An upgrade is claimed only when those ahead of it in its queue are settled.
QueueInv == \A v \in Upgrades : \A u \in Siblings(v) : dispatched[v] /\ u < v => Settled(u)

AppInv == AppQuiet /\ ClaimedExists /\ QueueInv

\* What the server does to tasks: it closes them.
Closes ==
    /\ \A t \in Tasks : taskStatus'[t] = taskStatus[t] \/ taskStatus'[t] \in TaskEnds
    /\ \A t \in Tasks : <<"start", t, "-">> \notin work'

\* While no administrator is at work, tasks are closed and never reopened.
LEMMA RunningCloses == TypeOK /\ AppQuiet /\ Running => Closes
<1> SUFFICES ASSUME TypeOK, AppQuiet, Running PROVE Closes
  OBVIOUS
<1>1. CASE Sending
  BY <1>1 DEF TypeOK, AppQuiet, Closes, Sending, DispatchHead, SendReject, SendClaim, SendGiveUp,
     SendPost
<1> DEFINE Tame == /\ UNCHANGED taskStatus
                   /\ \A item \in work' : item[1] # "start" \/ item \in work
<1>t. ASSUME Tame PROVE Closes
  BY <1>t DEF AppQuiet, Closes
<1>r. ASSUME NEW u \in Upgrades, NEW k \in Attempts, NEW st \in Terminal \cup {"upgrading"},
             DeviceEnds(u, k, st) \/ Ack(u, k) \/ Report(u, k, st)
      PROVE  Tame
  BY <1>r DEF DeviceEnds, Ack, Report
<1>v. ASSUME NEW u \in Upgrades, Reconcile(u) PROVE Tame
  <2>1. PICK v : work' = work \cup {<<"reconcile", u, v>>}
    BY <1>v DEF Reconcile
  <2> QED
    BY <1>v, <2>1 DEF Reconcile
<1>w. ASSUME NEW u \in Upgrades, NEW v \in {"success", "failed"}, ReconcileWrite(u, v) PROVE Tame
  BY <1>w DEF ReconcileWrite
<1> HIDE DEF Tame
<1>2. CASE Reporting
  BY <1>2, <1>t, <1>r, <1>v, <1>w DEF Reporting, Terminal
<1>3. ASSUME NEW u \in Upgrades, Expire(u) PROVE Closes
  BY <1>3 DEF TypeOK, AppQuiet, Closes, Expire
<1>4. ASSUME NEW u \in Upgrades, NEW st \in {"upgrading", "success", "failed"}, Sweep(u, st)
      PROVE  Closes
  BY <1>4 DEF TypeOK, AppQuiet, Closes, Sweep
<1>5. ASSUME NEW u \in Upgrades, NEW st \in {"upgrading", "success", "failed"}, Settle(u, st)
      PROVE  Closes
  <2>1. taskStatus[TaskOf[u]] \notin {"pending", "scheduled"}
    BY OtaAssumption DEF AppQuiet, TaskEnds
  <2>2. \A item \in work' : item[1] # "tally" => item \in work
    BY <1>5, <2>1 DEF Settle
  <2> QED
    BY <1>5, <2>2 DEF Settle, AppQuiet, Closes
<1>6. ASSUME NEW t \in Tasks, Run(t, "start") PROVE Closes
  BY <1>6 DEF Run, AppQuiet
<1>7. ASSUME NEW t \in Tasks, NEW how \in {"report", "cleanup", "sync"}, Tally(t, how) PROVE Closes
  BY <1>7 DEF TypeOK, AppQuiet, Closes, Tally
<1>8. ASSUME NEW t \in Tasks, NEW v \in TaskEnds, Close(t, v) PROVE Closes
  BY <1>8 DEF TypeOK, AppQuiet, Closes, Close, Put
<1>9. CASE Timing
  BY <1>9 DEF TypeOK, AppQuiet, Closes, TaskEnds, Timing, Silence, FailStale, TaskTimeout, FailRows
<1>10. CASE Connecting
  BY <1>10 DEF TypeOK, AppQuiet, Closes, Connecting, Restart, GoOnline, GoOffline
<1> QED
  BY <1>1, <1>2, <1>3, <1>4, <1>5, <1>6, <1>7, <1>8, <1>9, <1>10 DEF Running, Bookkeeping

\* A claim takes the head of the queue.
Claims ==
    \A u \in Upgrades : dispatched'[u] => \/ dispatched[u]
                                          \/ Head(u) /\ UNCHANGED <<status, taskStatus>>

\* Only SendUpgradeCommand claims.
LEMMA RunningClaims == TypeOK /\ Running => Claims
<1> SUFFICES ASSUME TypeOK, Running PROVE Claims
  OBVIOUS
<1>1. ASSUME NEW u \in Upgrades, NEW k \in Attempts, SendClaim(u, k) PROVE Claims
  BY <1>1 DEF TypeOK, Claims, SendClaim, Claimable
<1>2. ASSUME UNCHANGED dispatched PROVE Claims
  BY <1>2 DEF Claims
<1>3. CASE Sending
  BY <1>1, <1>2, <1>3 DEF Sending, DispatchHead, SendReject, SendGiveUp, SendPost, rows
<1>4. CASE Reporting
  BY <1>2, <1>4 DEF Reporting, DeviceEnds, Ack, Report, Reconcile, ReconcileWrite, rows
<1>5. CASE Bookkeeping
  BY <1>2, <1>5 DEF Bookkeeping, Expire, Sweep, Settle, Run, Tally, Close, rows
<1>6. CASE Timing
  BY <1>2, <1>6 DEF Timing, Silence, FailStale, TaskTimeout, FailRows, rows
<1>7. CASE Connecting
  BY <1>2, <1>7 DEF Connecting, Restart, GoOnline, GoOffline, rows
<1> QED
  BY <1>3, <1>4, <1>5, <1>6, <1>7 DEF Running

\* The rows ahead of the head of a queue are settled.
LEMMA HeadSettled ==
    ASSUME TypeOK, JobsInv, AppQuiet, NEW v \in Upgrades, NEW u \in Siblings(v), u < v, Head(v)
    PROVE  Settled(u)
<1>1. u \in Upgrades /\ DeviceOf[u] = DeviceOf[v] /\ Siblings(u) = Siblings(v)
  BY DEF Siblings
<1>2. ~Deliverable(u)
  BY <1>1, OtaAssumption DEF Head
<1>3. ~Busy(v) /\ ~Busy(u)
  BY <1>1 DEF Head, Deliverable, Busy
<1>4. TaskOf[u] \in Tasks /\ status[u] \in Statuses
  BY <1>1, OtaAssumption DEF TypeOK
<1>5. CASE status[u] = "upgrading"
  <2>1. ~Live(TaskOf[u])
    BY <1>3, <1>5 DEF Busy
  <2> QED
    BY <2>1, <1>1, <1>4 DEF Live, AppQuiet, Settled, JobsInv
<1>6. CASE status[u] = "pending"
  BY <1>1, <1>2, <1>3, <1>4, <1>6 DEF Deliverable, AppQuiet, Settled, JobsInv
<1> QED
  BY <1>4, <1>5, <1>6 DEF Settled, Statuses

\* No task and no claim at first.
LEMMA AppInit == Init => AppInv
BY OtaAssumption DEF Init, AppInv, AppQuiet, ClaimedExists, QueueInv

\* Messages, timers and restarts keep the order of the queue.
LEMMA AppRunning == TypeOK /\ JobsInv /\ AppInv /\ Running => AppInv'
<1> SUFFICES ASSUME TypeOK, JobsInv, AppInv, Running PROVE AppInv'
  OBVIOUS
<1>1. Closes /\ Claims /\ AllAdvance
  BY RunningCloses, RunningClaims, RunningAdvances DEF AppInv
<1>2. AppQuiet'
  BY <1>1 DEF AppInv, AppQuiet, Closes
<1>3. ClaimedExists'
  BY <1>1 DEF AppInv, ClaimedExists, Claims, AllAdvance, Advances, Head, Deliverable
<1>4. ASSUME NEW v \in Upgrades, NEW u \in Siblings(v), dispatched'[v], u < v
      PROVE  Settled(u)'
  <2>1. u \in Upgrades /\ TaskOf[u] \in Tasks
    BY OtaAssumption DEF Siblings
  <2>2. Settled(u) => Settled(u)'
    BY <1>1, <2>1 DEF Settled, AllAdvance, Advances, Closes, Terminal, Unclosed
  <2>3. dispatched[v] => Settled(u)
    BY <1>4 DEF AppInv, QueueInv
  <2>4. Head(v) => Settled(u)
    BY <1>4, HeadSettled DEF AppInv
  <2> QED
    BY <1>1, <1>4, <2>2, <2>3, <2>4 DEF Claims
<1>5. QueueInv'
  BY <1>4 DEF QueueInv, Siblings
<1> QED
  BY <1>2, <1>3, <1>5 DEF AppInv

\* New upgrades go to the end of the queue.
LEMMA AppCreate ==
    ASSUME TypeOK, AppInv, NEW d \in Devices, NEW S \in SUBSET Upgrades,
           CreateIndependent(d, S, TRUE)
    PROVE  AppInv'
<1>1. AppQuiet'
  BY DEF AppInv, AppQuiet, CreateIndependent, Set, TypeOK
<1>2. ClaimedExists'
  BY DEF AppInv, ClaimedExists, CreateIndependent, Set, TypeOK
<1>3. ASSUME NEW v \in Upgrades, NEW u \in Siblings(v), dispatched'[v], u < v
      PROVE  Settled(u)'
  <2>1. u \in Upgrades /\ TaskOf[u] \in Tasks /\ u \in Nat /\ v \in Nat
    BY OtaAssumption DEF Siblings
  <2>2. status[v] # "none" /\ Settled(u)
    BY <1>3 DEF AppInv, ClaimedExists, QueueInv, CreateIndependent
  <2>3. u \notin S
    BY <1>3, <2>1, <2>2 DEF CreateIndependent, Newest, Siblings
  <2>4. status'[u] = status[u]
    BY <2>1, <2>3 DEF CreateIndependent, Set, TypeOK
  <2>5. TaskOf[u] \in {TaskOf[x] : x \in S} => FALSE
    BY <2>1, <2>3, OtaAssumption DEF CreateIndependent
  <2>6. taskStatus'[TaskOf[u]] = taskStatus[TaskOf[u]]
    BY <2>1, <2>5 DEF CreateIndependent, Set, TypeOK
  <2> QED
    BY <2>2, <2>4, <2>6 DEF Settled
<1>4. QueueInv'
  BY <1>3 DEF QueueInv, Siblings
<1> QED
  BY <1>1, <1>2, <1>4 DEF AppInv

\* The App's flow keeps the order of the queue.
LEMMA AppStep == TypeOK /\ JobsInv /\ AppInv /\ [AppNext]_vars => AppInv'
<1> SUFFICES ASSUME TypeOK, JobsInv, AppInv, [AppNext]_vars PROVE AppInv'
  OBVIOUS
<1>1. CASE UNCHANGED vars
  BY <1>1 DEF vars, AppInv, AppQuiet, ClaimedExists, QueueInv, Settled
<1> QED
  BY <1>1, AppRunning, AppCreate DEF AppNext

\* Of two upgrades of a device in flight, the younger was claimed when the older
\* was settled.
LEMMA QueueOrder ==
    TypeOK /\ AppInv /\ RunningWasSent => OneInFlight
<1> SUFFICES ASSUME TypeOK, AppInv, RunningWasSent,
                    NEW u \in Upgrades, NEW v \in Siblings(u), DeviceOf[u] \notin LegacyDevices,
                    InFlight(u), InFlight(v), u # v
             PROVE  FALSE
  BY DEF OneInFlight
<1>1. v \in Upgrades /\ DeviceOf[v] \notin LegacyDevices /\ u \in Siblings(v)
  BY DEF Siblings
<1>2. dispatched[u] /\ dispatched[v]
  BY <1>1 DEF RunningWasSent, InFlight
<1>3. u < v \/ v < u
  BY <1>1, OtaAssumption
<1>4. ~Settled(u) /\ ~Settled(v)
  BY DEF InFlight, Settled, Live, Terminal, TaskEnds
<1> QED
  BY <1>1, <1>2, <1>3, <1>4 DEF AppInv, QueueInv

\* A step of the App's flow is a step of the system.
LEMMA AppIsNext == AppNext => Next
BY DEF AppNext, Next, CreateIndependent

\* In the App's flow, whatever messages, timers and restarts do, a device that
\* echoes the token has at most one upgrade in flight: the queue releases the next
\* one only when those ahead of it are over (pendingDeliveryCondition).
THEOREM AppOneInFlight == AppSafetySpec => []OneInFlight
<1>1. Init /\ [][AppNext]_vars => [][Next]_vars
  BY AppIsNext, PTL
<1>2. Init /\ [][AppNext]_vars => [](TypeOK /\ JobsInv /\ RunningWasSent)
  BY <1>1, TypeInit, TypeStep, JobsInit, JobsStep, HandedInit, HandedStep, RunningInit,
     RunningStep, PTL
<1> QED
  BY <1>2, AppInit, AppStep, QueueOrder, PTL DEF AppSafetySpec
=============================================================================
