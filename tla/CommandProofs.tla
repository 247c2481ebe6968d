---------------------------- MODULE CommandProofs ----------------------------
(***************************************************************************)
(* The proofs of CommandDelivery: it implements CommandLedger, its notices *)
(* agree with the tables, and there is one copy of what a request sends on *)
(* its way, for any number of commands and requests and any firmware.      *)
(***************************************************************************)
EXTENDS CommandDelivery, TLAPS

\* Commands that are with their request, or not sent yet.
Held == {q \in Requests : pc[q] \in {"idle", "post", "queued", "push"}}

\* Where a command is, and that a debug command is never to be queued.
CopyInv ==
    /\ queue \cap (channel \cup reached \cup Held) = {}
    /\ channel \cap (reached \cup Held) = {}
    /\ reached \cap Held = {}
    /\ \A q \in Requests : q \in queue \/ pc[q] \in {"queued", "push"} => Command(q) \notin debug

\* What a request knows of the row it is about to overwrite. A request that has begun has a
\* row, and is the only one of its command unless that is a stop; while its post is not marked,
\* the row is pending, or a reply has overtaken the mark.
RowInv ==
    /\ \A c \in Commands : status[c] = "none" => history[c] = {}
    /\ \A c \in debug : status[c] \notin {"none", "queued"}
    /\ \A q \in Requests :
         /\ pc[q] # "idle" => status[Command(q)] # "none"
         /\ pc[q] \in {"post", "sent", "queued", "failed"} /\ Command(q) \notin stops
              => status[Command(q)] \notin {"queued", "sent"}
    /\ \A p, q \in Requests :
         pc[p] # "idle" /\ pc[q] # "idle" /\ Command(p) = Command(q) => p = q \/ Command(q) \in stops

-----------------------------------------------------------------------------
(* Type correctness. *)

\* The types hold at first.
LEMMA TypeInit == Init => TypeOK
  BY DEF Init, TypeOK, Statuses

\* A new desired value keeps the type of the control state.
LEMMA DesireTypes ==
    ASSUME NEW c \in Commands,
           NEW state \in [desired : Commands \cup {NoCommand}, reported : Commands \cup {NoCommand},
                          revision : Nat, sync : {"unknown", "pending", "synced", "drifted"}]
    PROVE  [state EXCEPT !.desired = c, !.sync = "pending"]
             \in [desired : Commands \cup {NoCommand}, reported : Commands \cup {NoCommand},
                 revision : Nat, sync : {"unknown", "pending", "synced", "drifted"}]
  OBVIOUS

\* A write to both tables keeps their types.
LEMMA WriteTypes ==
    ASSUME TypeOK, NEW c \in Commands, NEW over, NEW st \in Statuses \ {"none"}, Write(c, over, st)
    PROVE  status' \in [Commands -> Statuses] /\ history' \in [Commands -> SUBSET (Statuses \ {"none"})]
  <1>1. Overwrite(history[c], over, st) \subseteq Statuses \ {"none"}
    BY DEF TypeOK, Overwrite
  <1>. QED BY <1>1 DEF TypeOK, Write

\* The steps of a request keep the types.
LEMMA TypeSender ==
    ASSUME TypeOK, NEW q \in Requests,
           \/ Insert(q) \/ PostTaken(q) \/ PostRefused(q) \/ PostOffline(q)
           \/ Mark(q) \/ Push(q) \/ Desire(q) \/ Tell(q)
    PROVE  TypeOK'
  <1>. USE DEF TypeOK, At, Goto, kinds, tables, device, notes
  <1>. DEFINE Places == {"idle", "post", "sent", "queued", "failed", "push", "desire", "tell", "done"}
  <1>0. Command(q) \in Commands
    BY DEF Requests, Command
  <1>1. CASE Insert(q)
    <2>1. status' \in [Commands -> Statuses] /\ debug' \subseteq Commands /\ stops' \subseteq debug'
      BY <1>0, <1>1 DEF Insert, Created, Repeated, Statuses
    <2>2. history' \in [Commands -> SUBSET (Statuses \ {"none"})]
      BY <1>0, <1>1 DEF Insert, Statuses
    <2>3. pc' \in [Requests -> Places] /\ UNCHANGED <<queue, channel, device, control, notes>>
      BY <1>1 DEF Insert
    <2>. QED BY <2>1, <2>2, <2>3
  <1>2. CASE PostTaken(q)
    BY <1>2 DEF PostTaken
  <1>3. CASE PostRefused(q)
    BY <1>3 DEF PostRefused
  <1>4. CASE PostOffline(q)
    BY <1>4 DEF PostOffline
  <1>5. CASE Mark(q)
    <2>1. pc[q] \in Statuses \ {"none"}
      BY <1>5 DEF Mark, Statuses
    <2>2. status' \in [Commands -> Statuses] /\ history' \in [Commands -> SUBSET (Statuses \ {"none"})]
      BY <1>0, <1>5, <2>1, WriteTypes DEF Mark
    <2>3. pc' \in [Requests -> Places] /\ UNCHANGED <<kinds, queue, channel, device, control, notes>>
      BY <1>5 DEF Mark
    <2>. QED BY <2>2, <2>3
  <1>6. CASE Push(q)
    BY <1>6 DEF Push
  <1>7. CASE Desire(q)
    <2>1. control' \in {control, [control EXCEPT !.desired = Command(q), !.sync = "pending"]}
      BY <1>7 DEF Desire
    <2>2. control' \in [desired : Commands \cup {NoCommand}, reported : Commands \cup {NoCommand},
                        revision : Nat, sync : {"unknown", "pending", "synced", "drifted"}]
      BY <1>0, <2>1, DesireTypes
    <2>3. /\ pc' \in [Requests -> Places]
          /\ UNCHANGED <<debug, stops, status, history, queue, channel, reached, said, applied, owed, told>>
      BY <1>7 DEF Desire
    <2>. QED BY <2>2, <2>3
  <1>8. CASE Tell(q)
    BY <1>0, <1>8 DEF Tell, Record
  <1>. QED BY <1>1, <1>2, <1>3, <1>4, <1>5, <1>6, <1>7, <1>8

\* The steps of the server, the device and the results keep the types.
LEMMA TypeOthers ==
    ASSUME TypeOK,
           \/ \E q \in Requests : Flush(q) \/ Publish(q)
           \/ \E c \in Commands, r \in Firmware : DeviceSays(c, r) \/ Result(c, r)
           \/ \E n \in owed : Notify(n)
           \/ \E i \in DOMAIN applied : ReportConfig(i)
           \/ QueueExpires \/ RestartApi \/ RestartServer
    PROVE  TypeOK'
  <1>. USE DEF TypeOK, At, kinds, tables, sender, device, notes
  <1>1. ASSUME NEW q \in Requests, Flush(q) \/ Publish(q) PROVE TypeOK'
    BY <1>1 DEF Flush, Publish
  <1>2. ASSUME NEW c \in Commands, NEW r \in Firmware, DeviceSays(c, r) PROVE TypeOK'
    <2>1. r \in Replies
      BY CommandAssumption DEF CommandAssumption
    <2>2. said' \in [Commands -> SUBSET Replies]
      BY <1>2, <2>1 DEF DeviceSays
    <2>3. applied' \in Seq(Commands)
      BY <1>2 DEF DeviceSays
    <2>. QED BY <1>2, <2>2, <2>3 DEF DeviceSays
  <1>3. ASSUME NEW c \in Commands, NEW r \in Firmware, Result(c, r) PROVE TypeOK'
    <2>1. r \in Replies
      BY CommandAssumption DEF CommandAssumption
    <2>2. ResultStatus(r) \in Statuses \ {"none"}
      BY <2>1 DEF ResultStatus, Statuses, Replies, Stages, Verdicts
    <2>4. status' \in [Commands -> Statuses] /\ history' \in [Commands -> SUBSET (Statuses \ {"none"})]
      BY <1>3, <2>2, WriteTypes DEF Result
    <2>3. owed' \subseteq Commands \X {"success", "failed", "submitted"}
      BY <1>3 DEF Result, Terminal
    <2>. QED BY <1>3, <2>3, <2>4 DEF Result
  <1>4. ASSUME NEW n \in owed, Notify(n) PROVE TypeOK'
    BY <1>4 DEF Notify, Record
  <1>5. ASSUME NEW i \in DOMAIN applied, ReportConfig(i) PROVE TypeOK'
    <2>1. applied[i] \in Commands /\ i \in Nat
      OBVIOUS
    <2>. QED BY <1>5, <2>1 DEF ReportConfig
  <1>6. CASE QueueExpires \/ RestartServer
    BY <1>6 DEF QueueExpires, RestartServer
  <1>7. CASE RestartApi
    BY <1>7 DEF RestartApi
  <1>. QED BY <1>1, <1>2, <1>3, <1>4, <1>5, <1>6, <1>7

\* Every step keeps the types.
LEMMA TypeStep == TypeOK /\ [Next]_vars => TypeOK'
  <1>. SUFFICES ASSUME TypeOK, [Next]_vars PROVE TypeOK'
    OBVIOUS
  <1>1. CASE UNCHANGED vars
    BY <1>1 DEF vars, TypeOK
  <1>. QED BY <1>1, TypeSender, TypeOthers DEF Next

\* Every reachable state is well typed.
THEOREM TypeCorrect == Spec => []TypeOK
  BY TypeInit, TypeStep, PTL DEF Spec

-----------------------------------------------------------------------------
(* One copy of a command on its way. *)

\* No request has begun at first.
LEMMA CopyInit == Init => CopyInv /\ RowInv
  BY DEF Init, CopyInv, RowInv, Held

\* Every step that takes a command up somewhere puts it down elsewhere.
LEMMA CopyStep == TypeOK /\ CopyInv /\ RowInv /\ [Next]_vars => CopyInv'
  <1>. SUFFICES ASSUME TypeOK, CopyInv, RowInv, [Next]_vars PROVE CopyInv'
    OBVIOUS
  <1>. USE DEF TypeOK, CopyInv, Held, At, Goto, kinds, sender, device, notes
  <1>1. ASSUME NEW q \in Requests, Insert(q) PROVE CopyInv'
    <2>1. \A p \in Requests : p \in queue \/ pc[p] \in {"queued", "push"} => Command(p) \notin debug'
      <3>1. \A p \in Requests : p \in queue \/ pc[p] \in {"queued", "push"} => status[Command(p)] # "none"
        BY DEF RowInv
      <3>. QED BY <1>1, <3>1 DEF Insert, Created, Repeated
    <2>2. pc' = [pc EXCEPT ![q] = "post"] /\ UNCHANGED <<queue, channel, reached>> /\ pc[q] = "idle"
      BY <1>1 DEF Insert
    <2>. QED BY <2>1, <2>2
  <1>2. ASSUME NEW q \in Requests, PostTaken(q) \/ PostRefused(q) \/ PostOffline(q) PROVE CopyInv'
    BY <1>2 DEF PostTaken, PostRefused, PostOffline
  <1>3. ASSUME NEW q \in Requests, Mark(q) PROVE CopyInv'
    BY <1>3 DEF Mark
  <1>4. ASSUME NEW q \in Requests, Push(q) \/ Desire(q) \/ Tell(q) PROVE CopyInv'
    BY <1>4 DEF Push, Desire, Tell
  <1>5. ASSUME NEW q \in Requests, Flush(q) \/ Publish(q) PROVE CopyInv'
    BY <1>5 DEF Flush, Publish
  <1>6. ASSUME NEW c \in Commands, NEW r \in Firmware, DeviceSays(c, r) \/ Result(c, r)
        PROVE  CopyInv'
    BY <1>6 DEF DeviceSays, Result
  <1>7. ASSUME NEW n \in owed, Notify(n) PROVE CopyInv'
    BY <1>7 DEF Notify
  <1>8. ASSUME NEW i \in DOMAIN applied, ReportConfig(i) PROVE CopyInv'
    BY <1>8 DEF ReportConfig
  <1>9. CASE QueueExpires \/ RestartServer
    BY <1>9 DEF QueueExpires, RestartServer
  <1>10. CASE RestartApi
    BY <1>10 DEF RestartApi
  <1>11. CASE UNCHANGED vars
    BY <1>11 DEF vars
  <1>. QED BY <1>1, <1>2, <1>3, <1>4, <1>5, <1>6, <1>7, <1>8, <1>9, <1>10, <1>11 DEF Next

\* What a write to both tables does to each row: it changes no other command.
LEMMA WriteRow ==
    ASSUME TypeOK, NEW c \in Commands, NEW over, NEW st, Write(c, over, st)
    PROVE  /\ \A d \in Commands \ {c} : status'[d] = status[d] /\ history'[d] = history[d]
           /\ status'[c] = (IF status[c] \in over THEN st ELSE status[c])
           /\ history'[c] = Overwrite(history[c], over, st)
  BY DEF TypeOK, Write

\* Every step keeps the rows in line with their requests.
LEMMA RowStep == TypeOK /\ CopyInv /\ RowInv /\ [Next]_vars => RowInv'
  <1>. SUFFICES ASSUME TypeOK, CopyInv, RowInv, [Next]_vars PROVE RowInv'
    OBVIOUS
  <1>. USE DEF TypeOK, At, Goto, kinds, tables, sender, device, notes
  <1>0. \A q \in Requests : Command(q) \in Commands
    BY DEF Requests, Command
  <1>1. ASSUME NEW q \in Requests, Insert(q) PROVE RowInv'
    <2>. DEFINE c == Command(q)
    <2>1. /\ pc' = [pc EXCEPT ![q] = "post"]
          /\ history' = [history EXCEPT ![c] = @ \cup {"pending"}]
          /\ pc[q] = "idle" /\ c \in Commands
      BY <1>0, <1>1 DEF Insert
    <2>2. CASE Created(c)
      <3>1. /\ status[c] = "none" /\ status' = [status EXCEPT ![c] = "pending"]
            /\ debug' \in {debug, debug \cup {c}} /\ stops \subseteq stops'
        BY <2>2 DEF Created
      <3>2. \A p \in Requests : Command(p) = c => pc[p] = "idle"
        BY <3>1 DEF RowInv
      <3>. QED BY <1>0, <2>1, <3>1, <3>2 DEF RowInv
    <2>3. CASE Repeated(c)
      <3>1. c \in stops /\ status' = status /\ debug' = debug /\ stops' = stops
        BY <2>3 DEF Repeated
      <3>2. status[c] # "none"
        BY <3>1 DEF RowInv
      <3>. QED BY <1>0, <2>1, <3>1, <3>2 DEF RowInv
    <2>. QED BY <1>1, <2>2, <2>3 DEF Insert
  <1>2. ASSUME NEW q \in Requests,
               \/ PostTaken(q) \/ PostRefused(q) \/ PostOffline(q)
               \/ Push(q) \/ Desire(q) \/ Tell(q)
        PROVE  RowInv'
    <2>1. /\ UNCHANGED <<debug, stops, status, history>>
          /\ \E place \in {"sent", "failed", "queued", "done", "tell"} : pc' = [pc EXCEPT ![q] = place]
          /\ pc[q] # "idle"
          /\ pc[q] = "post" \/ pc'[q] \in {"done", "tell"}
      BY <1>2 DEF PostTaken, PostRefused, PostOffline, Push, Desire, Tell
    <2>. QED BY <1>0, <2>1 DEF RowInv
  <1>3. ASSUME NEW q \in Requests, Mark(q) PROVE RowInv'
    <2>. DEFINE c == Command(q)
    <2>1. /\ pc[q] \in {"sent", "queued", "failed"} /\ UNCHANGED <<debug, stops>> /\ c \in Commands
          /\ \E place \in {"push", "desire", "done"} : pc' = [pc EXCEPT ![q] = place]
      BY <1>0, <1>3 DEF Mark
    <2>2. CASE UNCHANGED tables
      BY <1>0, <2>1, <2>2 DEF RowInv
    <2>3. CASE Write(c, Unanswered, pc[q])
      <3>1. /\ \A d \in Commands \ {c} : status'[d] = status[d] /\ history'[d] = history[d]
            /\ status'[c] = (IF status[c] \in Unanswered THEN pc[q] ELSE status[c])
        BY <2>1, <2>3, WriteRow
      <3>2. status[c] # "none" /\ status'[c] # "none"
        BY <2>1, <3>1 DEF RowInv
      <3>3. c \in debug => status'[c] # "queued"
        BY <2>1, <3>1 DEF RowInv, CopyInv
      <3>4. \A p \in Requests : p # q /\ Command(p) = c /\ c \notin stops => pc[p] = "idle"
        BY <2>1 DEF RowInv
      <3>. QED BY <1>0, <2>1, <3>1, <3>2, <3>3, <3>4 DEF RowInv
    <2>. QED BY <1>3, <2>2, <2>3 DEF Mark
  <1>4. ASSUME NEW c \in Commands, NEW r \in Firmware, Result(c, r) PROVE RowInv'
    <2>1. ResultStatus(r) \notin {"none", "queued", "sent"}
      BY CommandAssumption DEF CommandAssumption, ResultStatus, Replies, Stages, Verdicts
    <2>2. status[c] # "none"
      BY <1>4 DEF Result, Predecessors, RowInv
    <2>3. /\ \A d \in Commands \ {c} : status'[d] = status[d] /\ history'[d] = history[d]
          /\ status'[c] \in {status[c], ResultStatus(r)}
          /\ UNCHANGED <<debug, stops, pc>>
      BY <1>4, WriteRow DEF Result
    <2>. QED BY <1>0, <2>1, <2>2, <2>3 DEF RowInv
  <1>5. ASSUME \/ \E q \in Requests : Flush(q) \/ Publish(q)
               \/ \E c \in Commands, r \in Firmware : DeviceSays(c, r)
               \/ \E n \in owed : Notify(n)
               \/ \E i \in DOMAIN applied : ReportConfig(i)
               \/ QueueExpires \/ RestartServer \/ UNCHANGED vars
        PROVE  RowInv'
    <2>1. UNCHANGED <<debug, stops, status, history, pc>>
      BY <1>5 DEF Flush, Publish, DeviceSays, Notify, ReportConfig, QueueExpires, RestartServer, vars
    <2>. QED BY <2>1 DEF RowInv
  <1>6. CASE RestartApi
    BY <1>0, <1>6 DEF RestartApi, RowInv
  <1>. QED BY <1>1, <1>2, <1>3, <1>4, <1>5, <1>6 DEF Next

\* What a request sends is in one place only: with it, in the queue, in the channel or at
\* the device; so it is not sent again after it went out. No command but a stop of a debug
\* session has two requests.
THEOREM NeverTwiceOnTheWay == Spec => []OneCopy
  <1>1. TypeOK /\ CopyInv /\ RowInv => OneCopy
    BY DEF TypeOK, CopyInv, RowInv, OneCopy, Held, InHand
  <1>. QED BY <1>1, TypeInit, TypeStep, CopyInit, CopyStep, RowStep, PTL DEF Spec

-----------------------------------------------------------------------------
(* The command history implements CommandLedger. *)

\* The statuses a reply may overwrite are those below what it says, and "submitted" gives
\* way to a confirmed application only.
LEMMA PredecessorsRank ==
    ASSUME NEW r \in Replies, NEW st \in Predecessors(r)
    PROVE  /\ ResultStatus(r) = Ledger!Means[r] /\ r \in DOMAIN Ledger!Means
           /\ Ledger!Rank[st] < Ledger!Rank[Ledger!Means[r]]
           /\ st = "submitted" => r = "applied"
           /\ st # "none"
  BY DEF Replies, Stages, Verdicts, Predecessors, ResultStatus, Terminal, Ledger!Means, Ledger!Rank

\* Every step moves the rows as the ledger allows, or leaves them.
LEMMA LedgerStep ==
    ASSUME TypeOK, CopyInv, RowInv, [Next]_vars
    PROVE  [Ledger!Next]_(Ledger!ledger)
  <1>. USE DEF Ledger!ledger, At, Goto, kinds, tables, sender, device, notes
  <1>0. \A q \in Requests : Command(q) \in Commands
    BY DEF Requests, Command
  <1>1. ASSUME NEW q \in Requests, Insert(q) PROVE [Ledger!Next]_(Ledger!ledger)
    <2>1. CASE Created(Command(q))
      <3>1. Ledger!Create(Command(q))
        BY <1>1, <2>1 DEF Insert, Created, Ledger!Create, Ledger!Become
      <3>. QED BY <1>0, <3>1 DEF Ledger!Next
    <2>2. CASE Repeated(Command(q))
      BY <1>1, <2>2 DEF Insert, Repeated
    <2>. QED BY <1>1, <2>1, <2>2 DEF Insert
  <1>2. ASSUME NEW q \in Requests, Mark(q) PROVE [Ledger!Next]_(Ledger!ledger)
    <2>. DEFINE c == Command(q)
    <2>0. c \in Commands /\ UNCHANGED <<stops, said>> /\ pc[q] \in {"queued", "sent", "failed"}
      BY <1>0, <1>2 DEF Mark
    <2>1. CASE UNCHANGED tables
      BY <2>0, <2>1
    <2>2. CASE Write(c, Unanswered, pc[q]) /\ status[c] \notin Unanswered
      BY <2>0, <2>2 DEF Write, TypeOK
    <2>3. CASE Write(c, Unanswered, pc[q]) /\ status[c] \in Unanswered
      <3>1. status' = [status EXCEPT ![c] = pc[q]]
        BY <2>3 DEF Write
      <3>2. status[c] = "pending" \/ (c \in stops /\ status[c] = "sent" /\ pc[q] # "queued")
        BY <2>0, <2>3 DEF Unanswered, RowInv, CopyInv, TypeOK
      <3>3. CASE status[c] = "pending"
        <4>1. Ledger!Transport(c)
          BY <2>0, <3>1, <3>3 DEF Ledger!Transport, Ledger!Become
        <4>. QED BY <2>0, <4>1 DEF Ledger!Next
      <3>4. CASE c \in stops /\ status[c] = "sent" /\ pc[q] = "failed"
        <4>1. Ledger!FailAgain(c)
          BY <2>0, <3>1, <3>4 DEF Ledger!FailAgain, Ledger!Become
        <4>. QED BY <2>0, <4>1 DEF Ledger!Next
      <3>5. CASE status[c] = "sent" /\ pc[q] = "sent"
        BY <2>0, <3>1, <3>5 DEF TypeOK
      <3>. QED BY <2>0, <3>2, <3>3, <3>4, <3>5
    <2>. QED BY <1>2, <2>1, <2>2, <2>3 DEF Mark
  <1>3. ASSUME NEW c \in Commands, NEW r \in Firmware, DeviceSays(c, r)
        PROVE  Ledger!Next
    <2>1. r \in Replies /\ r \in DOMAIN Ledger!Means
      BY CommandAssumption DEF CommandAssumption, Replies, Stages, Verdicts, Ledger!Means
    <2>2. status[c] # "none"
      <3>1. PICK q \in reached : Command(q) = c
        BY <1>3 DEF DeviceSays
      <3>2. q \in Requests /\ pc[q] # "idle"
        BY DEF CopyInv, Held, TypeOK
      <3>. QED BY <3>1, <3>2 DEF RowInv
    <2>3. Ledger!Speak(c)
      BY <1>3, <2>1, <2>2 DEF DeviceSays, Verdicts, Ledger!Speak
    <2>. QED BY <2>3 DEF Ledger!Next
  <1>4. ASSUME NEW c \in Commands, NEW r \in Firmware, Result(c, r)
        PROVE  [Ledger!Next]_(Ledger!ledger)
    <2>1. r \in Replies
      BY CommandAssumption DEF CommandAssumption
    <2>2. r \in said[c] /\ UNCHANGED <<stops, said>> /\ Write(c, Predecessors(r), ResultStatus(r))
      BY <1>4 DEF Result
    <2>3. CASE status[c] \notin Predecessors(r)
      BY <2>2, <2>3 DEF Write, TypeOK
    <2>4. CASE status[c] \in Predecessors(r)
      <3>1. status' = [status EXCEPT ![c] = ResultStatus(r)]
        BY <2>2, <2>4 DEF Write
      <3>2. Ledger!Hear(c)
        BY <2>1, <2>2, <2>4, <3>1, PredecessorsRank DEF Ledger!Hear, Ledger!Become
      <3>. QED BY <3>2 DEF Ledger!Next
    <2>. QED BY <2>3, <2>4
  <1>5. ASSUME NEW q \in Requests,
               \/ PostTaken(q) \/ PostRefused(q) \/ PostOffline(q)
               \/ Push(q) \/ Desire(q) \/ Tell(q) \/ Flush(q) \/ Publish(q)
        PROVE  UNCHANGED Ledger!ledger
    BY <1>5 DEF PostTaken, PostRefused, PostOffline, Push, Desire, Tell, Flush, Publish
  <1>6. ASSUME NEW n \in owed, Notify(n) PROVE UNCHANGED Ledger!ledger
    BY <1>6 DEF Notify
  <1>7. ASSUME NEW i \in DOMAIN applied, ReportConfig(i) PROVE UNCHANGED Ledger!ledger
    BY <1>7 DEF ReportConfig
  <1>8. CASE QueueExpires \/ RestartApi \/ RestartServer
    BY <1>8 DEF QueueExpires, RestartApi, RestartServer
  <1>9. CASE UNCHANGED vars
    BY <1>9 DEF vars
  <1>. QED BY <1>1, <1>2, <1>3, <1>4, <1>5, <1>6, <1>7, <1>8, <1>9 DEF Next

\* The rows of device_commands implement CommandLedger: they move forward only, whatever the
\* order of marks, replies, repetitions and restarts, and however often a stop is sent.
THEOREM Implementation == Spec => LedgerSpec
  <1>1. Init => Ledger!Init
    BY DEF Init, Ledger!Init
  <1>2. TypeOK /\ CopyInv /\ RowInv /\ [Next]_vars => [Ledger!Next]_(Ledger!ledger)
    BY LedgerStep
  <1>. QED BY <1>1, <1>2, TypeInit, TypeStep, CopyInit, CopyStep, RowStep, PTL
           DEF Spec, LedgerSpec, Ledger!Spec

-----------------------------------------------------------------------------
(* Notices, and the control state. *)

\* Where the notices come from: a device ends a command with one verdict, and a notice of a
\* result is about what it said.
NoticesInv ==
    /\ NoticesAgree
    /\ \A c \in Commands : \A r1, r2 \in said[c] \cap Verdicts : r1 = r2
    /\ \A c \in Commands :
         /\ <<c, "success">> \in owed \cup told => said[c] \cap {"applied", "ok"} # {}
         /\ <<c, "failed">> \in owed \cup told => "failed" \in said[c]

\* There is no notice at first.
LEMMA NoticesInit == Init => NoticesInv
  BY DEF Init, NoticesInv, NoticesAgree

\* A write leaves in the history what it does not overwrite, and says in it what it says in
\* device_commands.
LEMMA OverwriteKeeps ==
    ASSUME NEW rows, NEW over, NEW st, NEW was \in rows
    PROVE  /\ \A x \in rows : x \notin over => x \in Overwrite(rows, over, st)
           /\ (IF was \in over THEN st ELSE was) \in Overwrite(rows, over, st)
           /\ rows = {was} => Overwrite(rows, over, st) = {IF was \in over THEN st ELSE was}
           /\ rows \cap over # {} => st \in Overwrite(rows, over, st)
  BY DEF Overwrite

\* Every step keeps the notices in agreement with the tables.
LEMMA NoticesStep == TypeOK /\ RowInv /\ NoticesInv /\ [Next]_vars => NoticesInv'
  <1>. SUFFICES ASSUME TypeOK, RowInv, NoticesInv, [Next]_vars PROVE NoticesInv'
    OBVIOUS
  <1>. USE DEF kinds, tables, sender, device, notes
  <1>0. \A q \in Requests : Command(q) \in Commands
    BY DEF Requests, Command
  <1>1. ASSUME NEW q \in Requests, Insert(q) PROVE NoticesInv'
    <2>. DEFINE c == Command(q)
    <2>1. /\ c \in Commands /\ UNCHANGED <<said, owed, told>>
          /\ history' = [history EXCEPT ![c] = @ \cup {"pending"}]
      BY <1>0, <1>1 DEF Insert
    <2>2. CASE Created(c)
      <3>1. /\ status[c] = "none" /\ status' = [status EXCEPT ![c] = "pending"] /\ stops \subseteq stops'
        BY <2>2 DEF Created
      <3>2. history[c] = {}
        BY <2>1, <3>1 DEF RowInv
      <3>. QED BY <2>1, <3>1, <3>2 DEF NoticesInv, NoticesAgree, TypeOK
    <2>3. CASE Repeated(c)
      <3>1. c \in stops /\ status' = status /\ stops' = stops
        BY <2>3 DEF Repeated
      <3>. QED BY <2>1, <3>1 DEF NoticesInv, NoticesAgree, TypeOK
    <2>. QED BY <1>1, <2>2, <2>3 DEF Insert
  <1>2. ASSUME NEW q \in Requests, Mark(q) PROVE NoticesInv'
    <2>. DEFINE c == Command(q)
    <2>1. c \in Commands /\ UNCHANGED <<stops, said, owed, told>>
      BY <1>0, <1>2 DEF Mark
    <2>2. CASE UNCHANGED tables
      BY <2>1, <2>2 DEF NoticesInv, NoticesAgree
    <2>3. CASE Write(c, Unanswered, pc[q])
      <3>1. /\ \A d \in Commands \ {c} : status'[d] = status[d] /\ history'[d] = history[d]
            /\ status'[c] = (IF status[c] \in Unanswered THEN pc[q] ELSE status[c])
            /\ history'[c] = Overwrite(history[c], Unanswered, pc[q])
        BY <2>1, <2>3, WriteRow
      <3>2. /\ \A x \in history[c] : x \notin Unanswered => x \in history'[c]
            /\ status'[c] # "none" => /\ status'[c] \in history'[c]
                                      /\ c \in stops \/ history'[c] = {status'[c]}
        <4>1. CASE status[c] = "none"
          BY <2>1, <3>1, <4>1 DEF RowInv, Unanswered
        <4>2. CASE status[c] # "none"
          <5>1. status[c] \in history[c] /\ (c \in stops \/ history[c] = {status[c]})
            BY <2>1, <4>2 DEF NoticesInv, NoticesAgree
          <5>. QED BY <3>1, <5>1, OverwriteKeeps
        <4>. QED BY <4>1, <4>2
      <3>3. \A st \in {"success", "failed", "submitted"} : st \notin Unanswered
        BY DEF Unanswered
      <3>. QED BY <2>1, <3>1, <3>2, <3>3 DEF NoticesInv, NoticesAgree
    <2>. QED BY <1>2, <2>2, <2>3 DEF Mark
  <1>3. ASSUME NEW q \in Requests, Tell(q) PROVE NoticesInv'
    <2>1. told' \in {told, told \cup {<<Command(q), "sent">>}} /\ UNCHANGED <<kinds, tables, device, owed>>
      BY <1>3 DEF Tell, Record
    <2>2. <<Command(q), "sent">> \notin owed
      BY DEF TypeOK
    <2>. QED BY <2>1, <2>2 DEF NoticesInv, NoticesAgree
  <1>4. ASSUME NEW c \in Commands, NEW r \in Firmware, Result(c, r) PROVE NoticesInv'
    <2>. DEFINE st == ResultStatus(r)
    <2>0. r \in Replies
      BY CommandAssumption DEF CommandAssumption
    <2>1. /\ r \in said[c] /\ history[c] \cap Predecessors(r) # {}
          /\ owed' = (IF Terminal(st) THEN owed \cup {<<c, st>>} ELSE owed)
          /\ UNCHANGED <<stops, said, told>>
      BY <1>4 DEF Result
    <2>2. /\ \A d \in Commands \ {c} : status'[d] = status[d] /\ history'[d] = history[d]
          /\ status'[c] = (IF status[c] \in Predecessors(r) THEN st ELSE status[c])
          /\ history'[c] = Overwrite(history[c], Predecessors(r), st)
      BY <1>4, WriteRow DEF Result
    <2>3. /\ "success" \notin Predecessors(r) /\ "failed" \notin Predecessors(r)
          /\ "submitted" \in Predecessors(r) => st = "success"
          /\ "none" \notin Predecessors(r)
          /\ Terminal(st) => st \in {"success", "failed", "submitted"}
          /\ st = "success" => r \in {"applied", "ok"}
          /\ st = "failed" => r = "failed"
      BY <2>0 DEF Predecessors, ResultStatus, Terminal, Replies, Stages, Verdicts
    <2>4. status[c] # "none"
      BY <2>1 DEF RowInv
    <2>5. status[c] \in history[c] /\ (c \in stops \/ history[c] = {status[c]})
      BY <2>4 DEF NoticesInv, NoticesAgree
    <2>6. /\ \A x \in history[c] : x \notin Predecessors(r) => x \in history'[c]
          /\ status'[c] \in history'[c] /\ (c \in stops \/ history'[c] = {status'[c]})
          /\ st \in history'[c]
      <3>. DEFINE after == Overwrite(history[c], Predecessors(r), st)
      <3>1. /\ \A x \in history[c] : x \notin Predecessors(r) => x \in after
            /\ (IF status[c] \in Predecessors(r) THEN st ELSE status[c]) \in after
            /\ history[c] = {status[c]}
                 => after = {IF status[c] \in Predecessors(r) THEN st ELSE status[c]}
            /\ history[c] \cap Predecessors(r) # {} => st \in after
        BY <2>5, OverwriteKeeps
      <3>. HIDE DEF after
      <3>2. history'[c] = after
        BY <2>2 DEF after
      <3>. QED BY <2>1, <2>2, <2>5, <3>1, <3>2
    <2>7. Terminal(st) /\ c \notin stops => <<c, st>> \notin told
      <3>1. SUFFICES ASSUME Terminal(st), c \notin stops, <<c, st>> \in told PROVE FALSE
        OBVIOUS
      <3>2. st \in history[c] \/ (st = "submitted" /\ "success" \in history[c])
        BY <2>3, <3>1 DEF NoticesInv, NoticesAgree
      <3>3. history[c] = {status[c]} /\ status[c] \in Predecessors(r)
        BY <2>1, <2>5, <3>1
      <3>. QED BY <2>3, <3>1, <3>2, <3>3
    <2>8. \A d \in Commands, x \in {"success", "failed", "submitted"} : <<d, x>> \in owed' \cup told' =>
            <<d, x>> \in owed \cup told \/ (d = c /\ x = st)
      BY <2>1
    <2>9. ASSUME NEW d \in Commands PROVE
            /\ status'[d] # "none" => /\ status'[d] \in history'[d]
                                      /\ d \in stops' \/ history'[d] = {status'[d]}
            /\ \A x \in {"success", "failed", "submitted"} : <<d, x>> \in owed' \cup told' =>
                 x \in history'[d] \/ (x = "submitted" /\ "success" \in history'[d])
      <3>1. CASE d # c
        BY <2>1, <2>2, <2>8, <3>1 DEF NoticesInv, NoticesAgree
      <3>2. CASE d = c
        <4>1. ASSUME NEW x \in {"success", "failed", "submitted"}, <<c, x>> \in owed' \cup told'
              PROVE  x \in history'[c] \/ (x = "submitted" /\ "success" \in history'[c])
          <5>1. x = st \/ x \in history[c] \/ (x = "submitted" /\ "success" \in history[c])
            <6>1. <<c, x>> \in owed \cup told \/ x = st
              BY <2>8, <4>1
            <6>. QED BY <4>1, <6>1 DEF NoticesInv, NoticesAgree
          <5>. QED BY <2>3, <2>6, <5>1
        <4>. QED BY <2>1, <2>6, <3>2, <4>1
      <3>. QED BY <3>1, <3>2
    <2>10. \A n \in owed' \cap told' : n[1] \in stops'
      BY <2>1, <2>7 DEF NoticesInv, NoticesAgree
    <2>11. \A d \in Commands :
             /\ <<d, "success">> \in owed' \cup told' => said'[d] \cap {"applied", "ok"} # {}
             /\ <<d, "failed">> \in owed' \cup told' => "failed" \in said'[d]
      BY <2>1, <2>3, <2>8 DEF NoticesInv
    <2>12. \A d \in Commands : \A r1, r2 \in said'[d] \cap Verdicts : r1 = r2
      BY <2>1 DEF NoticesInv
    <2>13. \A d \in Commands : ~ {<<d, "success">>, <<d, "failed">>} \subseteq owed' \cup told'
      <3>1. SUFFICES ASSUME NEW d \in Commands, {<<d, "success">>, <<d, "failed">>} \subseteq owed' \cup told'
                     PROVE  FALSE
        OBVIOUS
      <3>2. PICK x \in said'[d] : x \in {"applied", "ok"}
        BY <2>11, <3>1
      <3>3. "failed" \in said'[d]
        BY <2>11, <3>1
      <3>4. x \in said'[d] \cap Verdicts /\ "failed" \in said'[d] \cap Verdicts
        BY <3>2, <3>3 DEF Verdicts
      <3>. QED BY <2>12, <3>2, <3>4
    <2>. QED BY <2>9, <2>10, <2>11, <2>12, <2>13 DEF NoticesInv, NoticesAgree
  <1>5. ASSUME NEW n \in owed, Notify(n) PROVE NoticesInv'
    <2>1. /\ owed' = owed \ {n} /\ told' \in {told, told \cup {n}}
          /\ UNCHANGED <<kinds, tables, device>>
      BY <1>5 DEF Notify, Record
    <2>2. owed' \cup told' \subseteq owed \cup told /\ owed' \cap told' \subseteq owed \cap told
      BY <2>1
    <2>. QED BY <2>1, <2>2 DEF NoticesInv, NoticesAgree
  <1>6. ASSUME NEW c \in Commands, NEW r \in Firmware, DeviceSays(c, r) PROVE NoticesInv'
    <2>1. /\ said[c] \cap Verdicts = {} /\ said' = [said EXCEPT ![c] = @ \cup {r}]
          /\ UNCHANGED <<kinds, tables, owed, told>>
      BY <1>6 DEF DeviceSays
    <2>2. \A d \in Commands : said[d] \subseteq said'[d] /\ (d # c => said'[d] = said[d])
      BY <2>1 DEF TypeOK
    <2>3. said'[c] \cap Verdicts \subseteq {r}
      BY <2>1 DEF TypeOK
    <2>4. \A d \in Commands : \A r1, r2 \in said'[d] \cap Verdicts : r1 = r2
      BY <2>2, <2>3 DEF NoticesInv
    <2>. QED BY <2>1, <2>2, <2>4 DEF NoticesInv, NoticesAgree
  <1>7. ASSUME \/ \E q \in Requests : \/ PostTaken(q) \/ PostRefused(q) \/ PostOffline(q)
                                      \/ Push(q) \/ Desire(q) \/ Flush(q) \/ Publish(q)
               \/ \E i \in DOMAIN applied : ReportConfig(i)
               \/ QueueExpires \/ RestartServer \/ UNCHANGED vars
        PROVE  NoticesInv'
    <2>1. UNCHANGED <<stops, status, history, said, owed, told>>
      BY <1>7 DEF PostTaken, PostRefused, PostOffline, Push, Desire, Flush, Publish, ReportConfig,
                  QueueExpires, RestartServer, vars
    <2>. QED BY <2>1 DEF NoticesInv, NoticesAgree
  <1>8. CASE RestartApi
    <2>1. owed' = {} /\ UNCHANGED <<stops, status, history, said, told>>
      BY <1>8 DEF RestartApi
    <2>. QED BY <2>1 DEF NoticesInv, NoticesAgree
  <1>. QED BY <1>1, <1>2, <1>3, <1>4, <1>5, <1>6, <1>7, <1>8 DEF Next

\* The owner of a device is told no result that the tables or another notice contradict, and
\* each at most once, unless it is that of a stop, which may be sent again.
THEOREM NoticesAreRight == Spec => []NoticesAgree
  <1>1. NoticesInv => NoticesAgree
    BY DEF NoticesInv
  <1>. QED BY <1>1, NoticesInit, NoticesStep, TypeInit, TypeStep, CopyInit, CopyStep, RowStep, PTL DEF Spec

\* Every step keeps a synced control state true.
LEMMA SyncedStep == TypeOK /\ SyncedIsApplied /\ [Next]_vars => SyncedIsApplied'
  <1>. SUFFICES ASSUME TypeOK, SyncedIsApplied, [Next]_vars PROVE SyncedIsApplied'
    OBVIOUS
  <1>. USE DEF TypeOK, SyncedIsApplied, kinds, tables, sender, device, notes
  <1>1. ASSUME NEW q \in Requests, Desire(q) PROVE SyncedIsApplied'
    BY <1>1 DEF Desire
  <1>2. ASSUME NEW c \in Commands, NEW r \in Firmware, DeviceSays(c, r) PROVE SyncedIsApplied'
    <2>1. applied' \in {applied, Append(applied, c)} /\ control' = control
      BY <1>2 DEF DeviceSays
    <2>2. \A i \in DOMAIN applied : i \in DOMAIN Append(applied, c) /\ Append(applied, c)[i] = applied[i]
      OBVIOUS
    <2>. QED BY <2>1, <2>2
  <1>3. ASSUME NEW i \in DOMAIN applied, ReportConfig(i) PROVE SyncedIsApplied'
    BY <1>3 DEF ReportConfig
  <1>4. ASSUME NEW q \in Requests,
               \/ Insert(q) \/ PostTaken(q) \/ PostRefused(q) \/ PostOffline(q)
               \/ Mark(q) \/ Push(q) \/ Tell(q) \/ Flush(q) \/ Publish(q)
        PROVE  UNCHANGED <<control, applied>>
    BY <1>4 DEF Insert, PostTaken, PostRefused, PostOffline, Mark, Push, Tell, Flush, Publish
  <1>5. ASSUME NEW c \in Commands, NEW r \in Firmware, Result(c, r)
        PROVE  UNCHANGED <<control, applied>>
    BY <1>5 DEF Result
  <1>6. ASSUME NEW n \in owed, Notify(n) PROVE UNCHANGED <<control, applied>>
    BY <1>6 DEF Notify
  <1>7. CASE QueueExpires \/ RestartApi \/ RestartServer
    BY <1>7 DEF QueueExpires, RestartApi, RestartServer
  <1>8. CASE UNCHANGED vars
    BY <1>8 DEF vars
  <1>. QED BY <1>1, <1>2, <1>3, <1>4, <1>5, <1>6, <1>7, <1>8 DEF Next

\* The control state is "synced" only on a value the device has applied.
THEOREM SyncedIsTrue == Spec => []SyncedIsApplied
  <1>1. Init => SyncedIsApplied
    BY DEF Init, SyncedIsApplied
  <1>. QED BY <1>1, SyncedStep, TypeInit, TypeStep, PTL DEF Spec
=============================================================================
