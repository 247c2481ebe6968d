--------------------------- MODULE PresenceProofs ---------------------------
(***************************************************************************)
(* Proofs about DevicePresence, for any workers, callbacks and bounds.     *)
(*                                                                         *)
(* The type invariant rests on this: a job never takes the head of an      *)
(* empty queue and never leaves the states of the machine. A handler       *)
(* stores a state only for an event it still has, the jobs of the set      *)
(* carry no event and are never taken for handlers, and a move of the      *)
(* machine is a pair of its matrix.                                        *)
(*                                                                         *)
(* Then what does not change while the mode of the device lasts: in the    *)
(* state that a mode asks for, the events of the mode lead nowhere else,   *)
(* and the heartbeat tells the other jobs to leave the device alone.       *)
(***************************************************************************)
EXTENDS DevicePresence, TLAPS

Steps == {"idle", "event", "post", "store", "stale", "start", "found", "missing"}
JobRows == [pc : Steps, todo : Seq(Work), to : States, mark : BOOLEAN]

\* A job that handles an event has it at the head of its queue; a job that will store
\* its state is about to post it or has posted it; the reconciliation, and a job that
\* rests, will post nothing but that the device is off line.
HasEvent(r) ==
    /\ r.pc \in {"event", "store"} \/ r.mark => r.todo # << >>
    /\ r.mark => r.pc \in {"post", "store"}
    /\ r.pc \in {"idle", "stale"} => r.to = "Offline"

PresenceInv == TypeOK /\ \A j \in Jobs : HasEvent(job[j])

\* The types but for the jobs'.
RestOK ==
    /\ mode \in Modes /\ backlog \in BOOLEAN /\ will \in BOOLEAN
    /\ turns \in 0 .. MaxTurns /\ upsets \in 0 .. MaxUpsets
    /\ heartbeat \in BOOLEAN /\ onlineSet \in BOOLEAN
    /\ state \in States /\ cache \in States \cup {"none"} /\ debounce \subseteq Debounced
    /\ up \in BOOLEAN /\ info \in BOOLEAN /\ status \in States /\ recent \in BOOLEAN /\ sweep \in Sweeps

Good(r) == r \in JobRows /\ HasEvent(r)

\* The invariant is one of the jobs and one of all the rest.
LEMMA PresenceInvParts ==
    PresenceInv <=> RestOK /\ job \in [Jobs -> JobRows] /\ \A j \in Jobs : Good(job[j])
  BY DEF PresenceInv, TypeOK, RestOK, JobRows, Steps, Good

-----------------------------------------------------------------------------
(* Jobs.                                                                   *)

\* A move of the machine leads to one of its states.
LEMMA TargetIsState ==
    ASSUME NEW s, NEW e, CanTransition(s, e)
    PROVE  Target(s, e) \in States
  BY DEF CanTransition, Target

\* A job that rests, a handler that begins and a job of the set are good.
LEMMA GoodJobs ==
    /\ Good(Idle)
    /\ \A q \in Seq(Work) : q # << >> => Good([Idle EXCEPT !.pc = "event", !.todo = q])
    /\ \A p \in {"stale", "start", "found", "missing"} : Good([Idle EXCEPT !.pc = p])
    /\ \A s \in States : Good([Idle EXCEPT !.pc = "post", !.to = s])
<1>1. Idle \in JobRows
  BY DEF JobRows, Idle, Steps, States
<1>2. Good(Idle)
  BY <1>1 DEF Good, HasEvent, Idle
<1>3. ASSUME NEW q \in Seq(Work), q # << >>
      PROVE  Good([Idle EXCEPT !.pc = "event", !.todo = q])
  <2>1. [Idle EXCEPT !.pc = "event", !.todo = q] \in JobRows
    BY DEF JobRows, Idle, Steps, States
  <2> QED
    BY <2>1, <1>3 DEF Good, HasEvent, Idle
<1>4. ASSUME NEW p \in {"stale", "start", "found", "missing"}
      PROVE  Good([Idle EXCEPT !.pc = p])
  <2>1. [Idle EXCEPT !.pc = p] \in JobRows
    BY <1>1 DEF JobRows, Steps
  <2> QED
    BY <2>1 DEF Good, HasEvent, Idle
<1>5. ASSUME NEW s \in States
      PROVE  Good([Idle EXCEPT !.pc = "post", !.to = s])
  <2>1. [Idle EXCEPT !.pc = "post", !.to = s] \in JobRows
    BY <1>1 DEF JobRows, Steps
  <2> QED
    BY <2>1 DEF Good, HasEvent, Idle
<1> QED
  BY <1>2, <1>3, <1>4, <1>5

\* A handler goes on with its next event, or rests.
LEMMA NextEventIsGood ==
    ASSUME NEW j \in Jobs, Good(job[j])
    PROVE  Good(AfterEvent(j))
<1>1. job[j].todo \in Seq(Work)
  BY DEF Good, JobRows
<1>2. CASE Len(job[j].todo) > 1
  <2>1. Tail(job[j].todo) \in Seq(Work) /\ Tail(job[j].todo) # << >>
    <3>1. PICK q \in Seq(Work) : q = job[j].todo
      BY <1>1
    <3>2. Len(q) > 1 /\ q # << >>
      BY <1>2, <3>1
    <3>3. Tail(q) \in Seq(Work) /\ Len(Tail(q)) = Len(q) - 1
      BY <3>2
    <3> QED
      <4>1. Len(Tail(q)) # 0 /\ Len(<< >>) = 0
        BY <3>2, <3>3
      <4> QED
        BY <3>1, <3>3, <4>1
  <2> QED
    BY <2>1, <1>2, GoodJobs DEF AfterEvent
<1>3. CASE ~(Len(job[j].todo) > 1)
  BY <1>3, GoodJobs DEF AfterEvent
<1> QED
  BY <1>2, <1>3

\* One job changes to a good one.
LEMMA OneJob ==
    ASSUME job \in [Jobs -> JobRows], \A j \in Jobs : Good(job[j]),
           NEW j \in Jobs, NEW r, Good(r), job' = [job EXCEPT ![j] = r]
    PROVE  job' \in [Jobs -> JobRows] /\ \A i \in Jobs : Good(job'[i])
<1>1. r \in JobRows
  BY DEF Good
<1> QED
  BY <1>1

\* A job that goes to another step, and keeps the rest.
LEMMA StepIsGood ==
    ASSUME NEW r \in JobRows, NEW p \in Steps, NEW x, x = [r EXCEPT !.pc = p]
    PROVE  x \in JobRows /\ x.pc = p /\ x.todo = r.todo /\ x.mark = r.mark /\ x.to = r.to
  BY DEF JobRows

-----------------------------------------------------------------------------
\* All jobs are idle at first.
LEMMA PresenceBegins == Init => PresenceInv
<1> SUFFICES ASSUME Init
             PROVE  PresenceInv
  OBVIOUS
<1>1. mode \in Modes /\ state = Settled(mode) /\ status = Settled(mode) /\ cache = state
  BY DEF Init
<1>2. Settled(mode) \in States
  BY <1>1 DEF Settled, Modes, States
<1>3. /\ mode \in Modes /\ backlog \in BOOLEAN /\ will \in BOOLEAN
      /\ heartbeat \in BOOLEAN /\ onlineSet \in BOOLEAN
      /\ up \in BOOLEAN /\ info \in BOOLEAN /\ recent \in BOOLEAN /\ sweep \in Sweeps
  BY DEF Init, Sweeps
<1>4. turns \in 0 .. MaxTurns /\ upsets \in 0 .. MaxUpsets /\ debounce \subseteq Debounced
  BY PresenceAssumption DEF Init
<1>5. RestOK
  BY <1>1, <1>2, <1>3, <1>4 DEF RestOK
<1>6. job \in [Jobs -> JobRows] /\ \A j \in Jobs : Good(job[j])
  BY GoodJobs DEF Init, Good
<1> QED
  BY <1>5, <1>6, PresenceInvParts

JobsGood == job \in [Jobs -> JobRows] /\ \A j \in Jobs : Good(job[j])

\* A handler that has decided, with an event, on a state.
LEMMA PostingIsGood ==
    ASSUME NEW r, Good(r), r.todo # << >>, NEW to \in States, NEW mark \in BOOLEAN,
           NEW x, x = [r EXCEPT !.pc = "post", !.to = to, !.mark = mark]
    PROVE  Good(x)
<1>1. r \in JobRows
  BY DEF Good
<1>2. x \in JobRows
  BY <1>1 DEF JobRows, Steps
<1>3. x.pc = "post" /\ x.todo = r.todo
  BY <1>1 DEF JobRows
<1> QED
  BY <1>2, <1>3 DEF Good, HasEvent

\* A handler whose post was answered.
LEMMA StoringIsGood ==
    ASSUME NEW r, Good(r), r.mark, NEW x, x = [r EXCEPT !.pc = "store"]
    PROVE  Good(x)
<1>1. r \in JobRows /\ r.todo # << >>
  BY DEF Good, HasEvent
<1>2. x \in JobRows /\ x.pc = "store" /\ x.todo = r.todo
  BY <1>1 DEF JobRows, Steps
<1> QED
  BY <1>2 DEF Good, HasEvent

\* After a post, whatever came of it.
LEMMA AnsweredIsGood ==
    ASSUME JobsGood, NEW j \in Jobs,
           job' = [job EXCEPT ![j] = IF job[j].mark THEN [@ EXCEPT !.pc = "store"] ELSE AfterEvent(j)]
    PROVE  JobsGood'
<1>1. PICK r : r = IF job[j].mark THEN [job[j] EXCEPT !.pc = "store"] ELSE AfterEvent(j)
  OBVIOUS
<1>2. Good(job[j])
  BY DEF JobsGood
<1>3. Good(r)
  <2>1. CASE job[j].mark
    BY <2>1, <1>1, <1>2, StoringIsGood
  <2>2. CASE ~job[j].mark
    BY <2>2, <1>1, <1>2, NextEventIsGood
  <2> QED
    BY <2>1, <2>2
<1>4. job' = [job EXCEPT ![j] = r]
  BY <1>1 DEF JobsGood
<1> QED
  BY <1>3, <1>4, OneJob DEF JobsGood

\* The next event after the one at hand.
LEMMA AfterIsGood ==
    ASSUME JobsGood, NEW j \in Jobs, job' = [job EXCEPT ![j] = AfterEvent(j)]
    PROVE  JobsGood'
<1>1. Good(AfterEvent(j))
  BY NextEventIsGood DEF JobsGood
<1>2. PICK r : r = AfterEvent(j)
  OBVIOUS
<1> QED
  BY <1>1, <1>2, OneJob DEF JobsGood

\* What posts write at business-api.
LEMMA PostedStatus ==
    ASSUME RestOK, NEW to \in States, DeviceStatus(to)
    PROVE  status' \in States /\ recent' \in BOOLEAN /\ sweep' \in Sweeps
  BY DEF RestOK, DeviceStatus

\* What the state machine writes to Redis.
LEMMA WrittenState ==
    ASSUME NEW to \in States, WriteState(to)
    PROVE  state' \in States /\ heartbeat' \in BOOLEAN /\ onlineSet' \in BOOLEAN
  BY DEF WriteState

-----------------------------------------------------------------------------
(* The steps.                                                              *)

\* The first half of a handler.
LEMMA DecideKeeps ==
    ASSUME RestOK, JobsGood, NEW j \in Jobs, Decide(j)
    PROVE  RestOK' /\ JobsGood'
<1> DEFINE e == Event(j)
           refreshes == Refreshes(Seen, e)
           to == IF refreshes THEN "Online" ELSE Target(Seen, e)
<1>1. Good(job[j]) /\ job[j].todo # << >>
  BY DEF JobsGood, Good, HasEvent, Decide, Busy
<1>2. Seen \in States \cup {"none"} /\ cache' = Seen
  BY DEF Decide, Seen, RestOK
<1>3. UNCHANGED <<mode, backlog, will, turns, debounce, status, recent, sweep, up, info, upsets>>
  BY DEF Decide, device, api
<1>4. CASE /\ refreshes \/ CanTransition(Seen, e)
           /\ WriteState(to)
           /\ job' = [job EXCEPT ![j].pc = "post", ![j].to = to, ![j].mark = ~refreshes]
  <2>1. to \in States
    BY <1>4, TargetIsState DEF States
  <2>2. state' \in States /\ heartbeat' \in BOOLEAN /\ onlineSet' \in BOOLEAN
    BY <1>4, <2>1, WrittenState
  <2>3. PICK s \in States, m \in BOOLEAN : s = to /\ m = ~refreshes
    BY <2>1
  <2>4. PICK r : r = [job[j] EXCEPT !.pc = "post", !.to = s, !.mark = m]
    OBVIOUS
  <2>5. Good(r)
    BY <2>4, <1>1, PostingIsGood
  <2>6. job' = [job EXCEPT ![j] = r]
    BY <1>4, <2>3, <2>4 DEF JobsGood
  <2>7. JobsGood'
    BY <2>5, <2>6, OneJob DEF JobsGood
  <2> QED
    BY <2>2, <2>7, <1>2, <1>3 DEF RestOK
<1>5. CASE /\ job' = [job EXCEPT ![j] = AfterEvent(j)]
           /\ UNCHANGED <<heartbeat, onlineSet, state>>
  <2>1. JobsGood'
    BY <1>5, AfterIsGood
  <2> QED
    BY <2>1, <1>2, <1>3, <1>5 DEF RestOK
<1> QED
  BY <1>4, <1>5 DEF Decide

\* A failed or a swallowed post leaves an upset more.
LEMMA UpsetCounts ==
    ASSUME RestOK, upsets < MaxUpsets, upsets' = upsets + 1
    PROVE  upsets' \in 0 .. MaxUpsets
  BY PresenceAssumption DEF RestOK

\* A post and what follows it.
LEMMA PostsKeep ==
    ASSUME RestOK, JobsGood, NEW j \in Jobs,
           PostAnswered(j) \/ PostFails(j) \/ PostSwallowed(j)
    PROVE  RestOK' /\ JobsGood'
<1>1. job[j].to \in States
  BY DEF JobsGood, JobRows
<1>2. CASE PostAnswered(j)
  <2>1. JobsGood'
    BY <1>2, AnsweredIsGood DEF PostAnswered
  <2>2. status' \in States /\ recent' \in BOOLEAN /\ sweep' \in Sweeps
    BY <1>1, <1>2, PostedStatus DEF PostAnswered
  <2>3. UNCHANGED <<mode, backlog, will, turns, heartbeat, onlineSet, state, debounce,
                    cache, up, info, upsets>>
    BY <1>2 DEF PostAnswered, device, redis
  <2> QED
    BY <2>1, <2>2, <2>3 DEF RestOK
<1>3. CASE PostFails(j)
  <2>1. JobsGood'
    BY <1>3, AfterIsGood DEF PostFails
  <2>2. status' \in States /\ recent' \in BOOLEAN /\ sweep' \in Sweeps
    <3>1. CASE DeviceStatus(job[j].to)
      BY <3>1, <1>1, PostedStatus
    <3>2. CASE UNCHANGED api
      BY <3>2 DEF api, RestOK
    <3> QED
      BY <3>1, <3>2, <1>3 DEF PostFails
  <2>3. UNCHANGED <<mode, backlog, will, turns, heartbeat, onlineSet, state, debounce,
                    cache, up, info>>
    BY <1>3 DEF PostFails, device, redis
  <2>4. upsets' \in 0 .. MaxUpsets
    BY <1>3, UpsetCounts DEF PostFails
  <2> QED
    BY <2>1, <2>2, <2>3, <2>4 DEF RestOK
<1>4. CASE PostSwallowed(j)
  <2>1. JobsGood'
    BY <1>4, AnsweredIsGood DEF PostSwallowed
  <2>2. UNCHANGED <<mode, backlog, will, turns, heartbeat, onlineSet, state, debounce,
                    cache, status, recent, sweep, up, info>>
    BY <1>4 DEF PostSwallowed, device, redis, api
  <2>3. upsets' \in 0 .. MaxUpsets
    BY <1>4, UpsetCounts DEF PostSwallowed
  <2> QED
    BY <2>1, <2>2, <2>3 DEF RestOK
<1> QED
  BY <1>2, <1>3, <1>4

\* Telemetry is posted after the events of its message.
LEMMA TelemetryKeeps ==
    ASSUME RestOK, JobsGood, NEW j \in Jobs, Telemetry(j)
    PROVE  RestOK' /\ JobsGood'
<1>1. JobsGood'
  BY AfterIsGood DEF Telemetry
<1>2. status' \in States /\ recent' \in BOOLEAN /\ sweep' \in Sweeps
  BY PostedStatus DEF Telemetry, api, RestOK, States
<1>3. UNCHANGED <<mode, backlog, will, turns, heartbeat, onlineSet, state, debounce,
                  cache, up, info, upsets>>
  BY DEF Telemetry, device, redis
<1> QED
  BY <1>1, <1>2, <1>3 DEF RestOK

\* The registry gets and posts the information of the device.
LEMMA RegistryKeeps ==
    ASSUME RestOK, JobsGood, Inform \/ Register
    PROVE  RestOK' /\ JobsGood'
<1>1. JobsGood'
  BY DEF Inform, Register, JobsGood
<1>2. CASE Inform
  BY <1>1, <1>2 DEF Inform, device, redis, api, RestOK
<1>3. CASE Register
  <2>1. status' \in States /\ recent' \in BOOLEAN /\ sweep' \in Sweeps /\ info' \in BOOLEAN
    BY <1>3 DEF Register, api, RestOK, States
  <2>2. UNCHANGED <<mode, backlog, will, turns, heartbeat, onlineSet, state, debounce,
                    cache, up, upsets>>
    BY <1>3 DEF Register, device, redis
  <2> QED
    BY <1>1, <2>1, <2>2 DEF RestOK
<1> QED
  BY <1>1, <1>2, <1>3

\* The end of a handler.
LEMMA StoreKeeps ==
    ASSUME RestOK, JobsGood, NEW j \in Jobs, Store(j)
    PROVE  RestOK' /\ JobsGood'
<1>1. JobsGood'
  BY AfterIsGood DEF Store
<1>2. cache' \in States /\ debounce' \subseteq Debounced
  BY DEF Store, JobsGood, JobRows, RestOK
<1>3. UNCHANGED <<mode, backlog, will, turns, heartbeat, onlineSet, state, status, recent,
                  sweep, up, info, upsets>>
  BY DEF Store, device, api
<1> QED
  BY <1>1, <1>2, <1>3 DEF RestOK

\* A worker takes a message with events.
LEMMA HandleKeeps ==
    ASSUME RestOK, JobsGood, NEW w \in Jobs, NEW beat \in BOOLEAN,
           NEW q \in Seq(Work), q # << >>, Handle(w, beat, q)
    PROVE  /\ JobsGood' /\ heartbeat' \in BOOLEAN /\ onlineSet' \in BOOLEAN
           /\ UNCHANGED <<state, cache, debounce, status, recent, sweep, up, info, upsets>>
<1>1. PICK r : r = [Idle EXCEPT !.pc = "event", !.todo = q]
  OBVIOUS
<1>2. Good(r) /\ job' = [job EXCEPT ![w] = r]
  BY <1>1, GoodJobs DEF Handle
<1>3. JobsGood'
  BY <1>2, OneJob DEF JobsGood
<1> QED
  BY <1>3 DEF Handle, RestOK, api

\* The events that messages raise.
LEMMA EventsOfMessages ==
    /\ \A f \in BOOLEAN : <<Condition(f)>> \in Seq(Work) /\ <<Condition(f)>> # << >>
    /\ \A f \in BOOLEAN : /\ <<"OnlineReport", Condition(f)>> \in Seq(Work)
                          /\ <<"OnlineReport", Condition(f)>> # << >>
    /\ <<"OnlineReport">> \in Seq(Work) /\ <<"OnlineReport">> # << >>
    /\ <<"OfflineReport">> \in Seq(Work) /\ <<"OfflineReport">> # << >>
    /\ <<"LWTOffline">> \in Seq(Work) /\ <<"LWTOffline">> # << >>
    /\ <<"OnlineReport", "Telemetry">> \in Seq(Work) /\ <<"OnlineReport", "Telemetry">> # << >>
    /\ \A f \in BOOLEAN : /\ <<"OnlineReport", Condition(f), "Telemetry">> \in Seq(Work)
                          /\ <<"OnlineReport", Condition(f), "Telemetry">> # << >>
<1>1. {"OnlineReport", "OfflineReport", "LWTOffline", "Telemetry"} \subseteq Work
  BY DEF Work, Events, Debounced
<1>2. \A f \in BOOLEAN : Condition(f) \in Work
  BY DEF Condition, Work, Events, Debounced
<1>3. \A a, b, c \in Work : /\ <<a>> \in Seq(Work) /\ <<a>> # << >>
                           /\ <<a, b>> \in Seq(Work) /\ <<a, b>> # << >>
                           /\ <<a, b, c>> \in Seq(Work) /\ <<a, b, c>> # << >>
  OBVIOUS
<1> QED
  BY <1>1, <1>2, <1>3

\* The messages of the device.
LEMMA MessagesKeep ==
    ASSUME RestOK, JobsGood, NEW w \in Jobs, Parses(w) \/ CallsBack(w)
    PROVE  RestOK' /\ JobsGood'
<1>1. CASE Heartbeat(w)
  <2>1. PICK f \in BOOLEAN : f = (mode = "faulty")
    OBVIOUS
  <2>2. Handle(w, TRUE, <<"OnlineReport", Condition(f)>>)
    BY <1>1, <2>1 DEF Heartbeat
  <2>3. /\ JobsGood' /\ heartbeat' \in BOOLEAN /\ onlineSet' \in BOOLEAN
        /\ UNCHANGED <<state, cache, debounce, status, recent, sweep, up, info, upsets>>
    BY <2>2, EventsOfMessages, HandleKeeps
  <2> QED
    BY <1>1, <2>3 DEF Heartbeat, device, RestOK
<1>2. CASE Uplink(w)
  <2>1. Handle(w, TRUE, <<"OnlineReport">>)
    BY <1>2 DEF Uplink
  <2>2. /\ JobsGood' /\ heartbeat' \in BOOLEAN /\ onlineSet' \in BOOLEAN
        /\ UNCHANGED <<state, cache, debounce, status, recent, sweep, up, info, upsets>>
    BY <2>1, EventsOfMessages, HandleKeeps
  <2> QED
    BY <1>2, <2>2 DEF Uplink, device, RestOK
<1>3. CASE Backfill(w)
  <2>1. PICK f \in BOOLEAN : Handle(w, FALSE, <<Condition(f)>>)
    BY <1>3 DEF Backfill
  <2>2. /\ JobsGood' /\ heartbeat' \in BOOLEAN /\ onlineSet' \in BOOLEAN
        /\ UNCHANGED <<state, cache, debounce, status, recent, sweep, up, info, upsets>>
    BY <2>1, EventsOfMessages, HandleKeeps
  <2> QED
    BY <1>3, <2>2 DEF Backfill, RestOK
<1>4. CASE Goodbye(w)
  <2>1. Handle(w, TRUE, <<"OfflineReport">>)
    BY <1>4 DEF Goodbye
  <2>2. /\ JobsGood' /\ heartbeat' \in BOOLEAN /\ onlineSet' \in BOOLEAN
        /\ UNCHANGED <<state, cache, debounce, status, recent, sweep, up, info, upsets>>
    BY <2>1, EventsOfMessages, HandleKeeps
  <2>3. turns' \in 0 .. MaxTurns /\ mode' \in Modes
    BY <1>4, PresenceAssumption DEF Goodbye, RestOK, Modes
  <2> QED
    BY <1>4, <2>2, <2>3 DEF Goodbye, RestOK
<1>6. CASE Sample(w)
  <2>1. PICK f \in BOOLEAN : f = (mode = "faulty")
    OBVIOUS
  <2>2. PICK t : /\ t = <<"OnlineReport", "Telemetry">> \/
                       t = <<"OnlineReport", Condition(f), "Telemetry">>
                 /\ Handle(w, TRUE, t)
    BY <1>6, <2>1 DEF Sample
  <2>3. t \in Seq(Work) /\ t # << >>
    BY <2>2, EventsOfMessages
  <2>4. /\ JobsGood' /\ heartbeat' \in BOOLEAN /\ onlineSet' \in BOOLEAN
        /\ UNCHANGED <<state, cache, debounce, status, recent, sweep, up, info, upsets>>
    BY <2>2, <2>3, HandleKeeps
  <2> QED
    BY <1>6, <2>4 DEF Sample, device, RestOK
<1>7. CASE Hear(w)
  BY <1>7 DEF Hear, device, api, RestOK, JobsGood
<1>5. CASE LastWill(w)
  <2>1. will' \in BOOLEAN /\ UNCHANGED <<mode, backlog, turns>>
    BY <1>5 DEF LastWill
  <2>2. CASE UNCHANGED <<redis, cache, job, api, up, info, upsets>>
    BY <2>1, <2>2 DEF redis, api, RestOK, JobsGood
  <2>3. CASE Handle(w, FALSE, <<"LWTOffline">>)
    <3>1. /\ JobsGood' /\ heartbeat' \in BOOLEAN /\ onlineSet' \in BOOLEAN
          /\ UNCHANGED <<state, cache, debounce, status, recent, sweep, up, info, upsets>>
      BY <2>3, EventsOfMessages, HandleKeeps
    <3> QED
      BY <2>1, <3>1 DEF RestOK
  <2> QED
    BY <2>2, <2>3, <1>5 DEF LastWill
<1> QED
  BY <1>1, <1>2, <1>3, <1>4, <1>5, <1>6, <1>7 DEF Parses, CallsBack

\* A job of the set goes a step further.
LEMMA SetJobIsGood ==
    ASSUME JobsGood, NEW j \in Jobs, Busy(j, "idle") \/ Busy(j, "stale") \/ Busy(j, "start"),
           NEW p \in {"stale", "start", "found", "missing", "post"},
           p = "stale" => Busy(j, "idle"),
           job' = [job EXCEPT ![j].pc = p]
    PROVE  JobsGood'
<1>1. Good(job[j]) /\ job[j] \in JobRows /\ ~job[j].mark
  BY DEF JobsGood, Good, HasEvent, Busy
<1>2. PICK r : r = [job[j] EXCEPT !.pc = p]
  OBVIOUS
<1>3. r \in JobRows /\ r.pc = p /\ r.mark = job[j].mark /\ r.to = job[j].to
  BY <1>1, <1>2 DEF JobRows, Steps
<1>4. Good(r)
  BY <1>1, <1>3 DEF Good, HasEvent, Busy
<1>5. job' = [job EXCEPT ![j] = r]
  BY <1>2 DEF JobsGood
<1> QED
  BY <1>4, <1>5, OneJob DEF JobsGood

\* The reconciliation of the set.
LEMMA ReconcilerKeeps ==
    ASSUME RestOK, JobsGood, ReconcileList \/ Reconcile
    PROVE  RestOK' /\ JobsGood'
<1>1. "reconciler" \in Jobs
  BY DEF Jobs
<1>2. CASE ReconcileList
  <2>1. JobsGood'
    BY <1>1, <1>2, SetJobIsGood DEF ReconcileList
  <2>2. UNCHANGED <<mode, backlog, will, turns, heartbeat, onlineSet, state, debounce, cache,
                    status, recent, sweep, up, info, upsets>>
    BY <1>2 DEF ReconcileList, device, redis, api
  <2> QED
    BY <2>1, <2>2 DEF RestOK
<1>3. CASE Reconcile
  <2>1. JobsGood'
    BY <1>1, <1>3, SetJobIsGood DEF Reconcile
  <2>2. "Offline" \in States
    BY DEF States
  <2>3. state' \in States /\ heartbeat' \in BOOLEAN /\ onlineSet' \in BOOLEAN
    BY <1>3, <2>2, WrittenState DEF Reconcile
  <2>4. cache' \in States /\ UNCHANGED <<mode, backlog, will, turns, debounce, status,
                                         recent, sweep, up, info, upsets>>
    BY <1>3, <2>2 DEF Reconcile, device, api
  <2> QED
    BY <2>1, <2>3, <2>4 DEF RestOK
<1> QED
  BY <1>2, <1>3

\* The rebuild of the set.
LEMMA RebuildKeeps ==
    ASSUME RestOK, JobsGood, RebuildScan \/ Rebuild
    PROVE  RestOK' /\ JobsGood'
<1>1. "rebuild" \in Jobs
  BY DEF Jobs
<1>2. CASE RebuildScan
  <2>1. PICK p \in {"found", "missing"} : p = IF heartbeat THEN "found" ELSE "missing"
    OBVIOUS
  <2>2. job' = [job EXCEPT !["rebuild"].pc = p]
    BY <1>2, <2>1 DEF RebuildScan
  <2>3. JobsGood'
    BY <1>1, <1>2, <2>2, SetJobIsGood DEF RebuildScan
  <2>4. UNCHANGED <<mode, backlog, will, turns, heartbeat, onlineSet, state, debounce, cache,
                    status, recent, sweep, up, info, upsets>>
    BY <1>2 DEF RebuildScan, device, redis, api
  <2> QED
    BY <2>3, <2>4 DEF RestOK
<1>3. CASE Rebuild
  <2>1. UNCHANGED <<mode, backlog, will, turns, heartbeat, debounce, status, recent, sweep,
                    up, info, upsets>>
    BY <1>3 DEF Rebuild, device, api
  <2>2. state' \in States /\ cache' \in States \cup {"none"} /\ onlineSet' \in BOOLEAN
    BY <1>3 DEF Rebuild, States, RestOK
  <2>3. PICK r : Good(r) /\ job' = [job EXCEPT !["rebuild"] = r]
    <3>1. Good([Idle EXCEPT !.pc = "post", !.to = "Online"]) /\ Good(Idle)
      BY GoodJobs DEF States
    <3> QED
      BY <3>1, <1>3 DEF Rebuild
  <2>4. JobsGood'
    BY <1>1, <2>3, OneJob DEF JobsGood
  <2> QED
    BY <2>1, <2>2, <2>4 DEF RestOK
<1> QED
  BY <1>2, <1>3

\* Recoveries of Redis and restarts of the process.
LEMMA UpsetsKeep ==
    ASSUME RestOK, JobsGood, RedisRecovers \/ Restart
    PROVE  RestOK' /\ JobsGood'
<1>1. upsets' \in 0 .. MaxUpsets
  BY UpsetCounts DEF RedisRecovers, Restart
<1>2. CASE RedisRecovers
  <2>1. "rebuild" \in Jobs
    BY DEF Jobs
  <2>2. JobsGood'
    BY <1>2, <2>1, SetJobIsGood DEF RedisRecovers
  <2>3. UNCHANGED <<mode, backlog, will, turns, heartbeat, onlineSet, state, debounce, cache,
                    status, recent, sweep, up, info>>
    BY <1>2 DEF RedisRecovers, device, redis, api
  <2> QED
    BY <1>1, <2>2, <2>3 DEF RestOK
<1>3. CASE Restart
  <2>1. Good([Idle EXCEPT !.pc = "start"]) /\ Good(Idle)
    BY GoodJobs
  <2>2. \A j \in Jobs : Good(job'[j])
    BY <1>3, <2>1 DEF Restart
  <2>3. job' \in [Jobs -> JobRows]
    BY <1>3, <2>1 DEF Restart, Good
  <2>4. /\ cache' = "none" /\ up' = FALSE /\ info' = FALSE
        /\ UNCHANGED <<mode, backlog, will, turns, heartbeat, onlineSet, state, debounce,
                       status, recent, sweep>>
    BY <1>3 DEF Restart, device, redis, api
  <2> QED
    BY <1>1, <2>2, <2>3, <2>4 DEF RestOK, JobsGood
<1> QED
  BY <1>2, <1>3

\* Steps that change no job and no state of the machine.
LEMMA OthersKeep ==
    ASSUME RestOK, JobsGood,
           \/ \E m \in Modes : Turn(m)
           \/ \E e \in Debounced : DebounceExpires(e)
           \/ HeartbeatExpires \/ Started \/ Ages \/ SweepList \/ SweepMark \/ MarkDeviceOffline
    PROVE  RestOK' /\ JobsGood'
<1>1. ASSUME NEW m \in Modes, Turn(m)
      PROVE  RestOK' /\ job' = job
  <2>1. turns' \in 0 .. MaxTurns
    BY <1>1, PresenceAssumption DEF Turn, RestOK
  <2>2. mode' \in Modes /\ backlog' \in BOOLEAN /\ will' \in BOOLEAN
    BY <1>1 DEF Turn
  <2>3. UNCHANGED <<heartbeat, onlineSet, state, debounce, cache, status, recent, sweep,
                    up, info, upsets, job>>
    BY <1>1 DEF Turn, redis, api
  <2> QED
    BY <2>1, <2>2, <2>3 DEF RestOK
<1>2. ASSUME NEW e \in Debounced, DebounceExpires(e)
      PROVE  RestOK' /\ job' = job
  BY <1>2 DEF DebounceExpires, device, api, RestOK
<1>3. CASE HeartbeatExpires
  BY <1>3 DEF HeartbeatExpires, device, api, RestOK, JobsGood
<1>4. CASE Started
  BY <1>4 DEF Started, device, redis, api, RestOK, JobsGood
<1>5. CASE Ages
  BY <1>5 DEF Ages, device, redis, RestOK, JobsGood
<1>6. CASE SweepList
  BY <1>6 DEF SweepList, device, redis, RestOK, JobsGood, Sweeps
<1>7. CASE SweepMark
  <2>1. /\ status' \in States /\ sweep' \in Sweeps /\ job' = job
        /\ UNCHANGED <<mode, backlog, will, turns, heartbeat, onlineSet, state, debounce, cache,
                       recent, up, info, upsets>>
    BY <1>7 DEF SweepMark, device, redis, States, Sweeps
  <2> QED
    BY <2>1 DEF RestOK, JobsGood
<1>8. CASE MarkDeviceOffline
  <2>1. /\ status' \in States /\ sweep' \in Sweeps /\ job' = job
        /\ UNCHANGED <<mode, backlog, will, turns, heartbeat, onlineSet, state, debounce, cache,
                       recent, up, info, upsets>>
    BY <1>8 DEF MarkDeviceOffline, device, redis, States, Sweeps, RestOK
  <2> QED
    BY <2>1 DEF RestOK, JobsGood
<1>9. ASSUME job' = job
      PROVE  JobsGood'
  BY <1>9 DEF JobsGood
<1> QED
  BY <1>1, <1>2, <1>3, <1>4, <1>5, <1>6, <1>7, <1>8, <1>9

\* Every step keeps the invariant.
LEMMA PresenceSteps == PresenceInv /\ [Next]_vars => PresenceInv'
<1> SUFFICES ASSUME RestOK, JobsGood, [Next]_vars
             PROVE  RestOK' /\ JobsGood'
  BY PresenceInvParts DEF JobsGood, PresenceInv, TypeOK, RestOK, JobRows, Steps, Good
<1>1. ASSUME NEW j \in Jobs, Advance(j)
      PROVE  RestOK' /\ JobsGood'
  BY <1>1, DecideKeeps, PostsKeep, StoreKeeps, TelemetryKeeps DEF Advance
<1>2. ASSUME NEW w \in Parsers \cup Callbacks, Parses(w) \/ CallsBack(w)
      PROVE  RestOK' /\ JobsGood'
  BY <1>2, MessagesKeep DEF Jobs
<1>3. CASE UNCHANGED vars
  BY <1>3 DEF vars, RestOK, JobsGood
<1> QED
  BY <1>1, <1>2, <1>3, OthersKeep, RegistryKeeps, ReconcilerKeeps, RebuildKeeps, UpsetsKeep
     DEF Next

\* Whatever messages, posts, restarts and jobs of the set interleave, the machine, its
\* cache, its keys, its jobs and the row of the device keep the values they can take.
THEOREM PresenceTypeCorrect == Spec => []TypeOK
<1>1. PresenceInv => TypeOK
  BY DEF PresenceInv
<1> QED
  BY <1>1, PresenceBegins, PresenceSteps, PTL DEF Spec

-----------------------------------------------------------------------------
(* What lasts while the mode does.                                         *)

\* What a row of a job must say while the mode lasts.
Fits(r) ==
    /\ r.todo \in Seq(Raised(mode))
    /\ r.pc \in {"post", "store"} => r.to = Settled(mode)
    /\ IF mode = "silent" THEN r.pc # "found" ELSE r.pc \notin {"stale", "missing"}

JobsFit == \A j \in Jobs : Fits(job[j])

\* What is stored and shown, but for the jobs.
ShownRight ==
    /\ state = Settled(mode) /\ cache \in {state, "none"}
    /\ status = state \/ (mode = "faulty" /\ status = "Online")
    /\ IF mode = "silent" THEN ~heartbeat /\ ~info
       ELSE heartbeat /\ ~backlog /\ sweep \in {"idle", "again"}

\* A steady system is one that stores and shows what it must and whose jobs fit.
LEMMA SteadyParts ==
    Steady <=> ShownRight /\ JobsFit /\ (mode = "faulty" => Busy("rebuild", "idle"))
BY DEF Steady, ShownRight, JobsFit, Fits, InLine, Busy

\* One job changes to one that fits.
LEMMA OneFits ==
    ASSUME JobsGood, JobsFit, mode' = mode, NEW j \in Jobs, NEW r, Fits(r),
           job' = [job EXCEPT ![j] = r]
    PROVE  JobsFit'
<1>1. \A i \in Jobs : job'[i] = IF i = j THEN r ELSE job[i]
  BY DEF JobsGood
<1>2. ASSUME NEW i \in Jobs
      PROVE  Fits(job'[i])
  BY <1>1 DEF JobsFit
<1> QED
  BY <1>2 DEF JobsFit, Fits

\* In the state of its mode, an event of the mode leads nowhere else.
LEMMA EventsOfModeStay ==
    ASSUME mode \in Modes, NEW e \in Raised(mode)
    PROVE  /\ Refreshes(Settled(mode), e) => Settled(mode) = "Online"
           /\ CanTransition(Settled(mode), e) => Target(Settled(mode), e) = Settled(mode)
<1>1. \A t \in States : <<Settled(mode), e, t>> \in Transitions => t = Settled(mode)
  <2>1. CASE mode = "healthy"
    BY <2>1 DEF Raised, Settled, Transitions, States
  <2>2. CASE mode = "faulty"
    BY <2>2 DEF Raised, Settled, Transitions, States
  <2>3. CASE mode = "silent"
    BY <2>3 DEF Raised, Settled, Transitions, States
  <2> QED
    BY <2>1, <2>2, <2>3 DEF Modes
<1> QED
  BY <1>1 DEF Refreshes, CanTransition, Target

\* A job that rests or begins with events of the mode fits, and so does one that goes on.
LEMMA FittingJobs ==
    ASSUME mode \in Modes
    PROVE  /\ Fits(Idle)
           /\ \A q \in Seq(Raised(mode)) : Fits([Idle EXCEPT !.pc = "event", !.todo = q])
           /\ Fits([Idle EXCEPT !.pc = "start"])
BY DEF Fits, Idle, Raised, Modes

\* After its event, a job that fits goes on to one that fits or rests.
LEMMA AfterFits ==
    ASSUME mode \in Modes, JobsGood, JobsFit, NEW j \in Jobs
    PROVE  Fits(AfterEvent(j))
<1>1. PICK q : q = job[j].todo
  OBVIOUS
<1>2. q \in Seq(Raised(mode))
  BY <1>1 DEF JobsFit, Fits
<1>3. CASE Len(q) > 1
  <2>1. q # << >>
    BY <1>3
  <2>2. Tail(q) \in Seq(Raised(mode))
    BY <1>2, <2>1
  <2> QED
    BY <1>1, <1>3, <2>2, FittingJobs DEF AfterEvent
<1>4. CASE ~(Len(q) > 1)
  BY <1>1, <1>4, FittingJobs DEF AfterEvent
<1> QED
  BY <1>3, <1>4

\* A handler decides for the state that is there.
LEMMA DecideLasts ==
    ASSUME RestOK, JobsGood, ShownRight, JobsFit, mode' = mode, NEW j \in Jobs, Decide(j)
    PROVE  ShownRight' /\ JobsFit'
<1> DEFINE s == Settled(mode)
<1>1. Good(job[j]) /\ job[j].todo # << >> /\ Fits(job[j])
  BY DEF JobsGood, Good, HasEvent, Decide, Busy, JobsFit
<1>2. PICK e : e = Event(j)
  OBVIOUS
<1>3. e \in Raised(mode)
  <2>1. PICK q \in Seq(Raised(mode)) : q = job[j].todo
    BY <1>1 DEF Fits
  <2>2. Head(q) \in Raised(mode)
    BY <1>1, <2>1
  <2> QED
    BY <1>2, <2>1, <2>2 DEF Event
<1>4. mode \in Modes /\ Seen = s /\ cache' = s
  BY DEF Decide, Seen, ShownRight, RestOK
<1>5. UNCHANGED <<backlog, status, sweep, info>>
  BY DEF Decide, device, api
<1>6. CASE /\ Refreshes(s, e) \/ CanTransition(s, e)
           /\ WriteState(IF Refreshes(s, e) THEN "Online" ELSE Target(s, e))
           /\ job' = [job EXCEPT ![j].pc = "post",
                                 ![j].to = IF Refreshes(s, e) THEN "Online" ELSE Target(s, e),
                                 ![j].mark = ~Refreshes(s, e)]
  <2>1. PICK to : to = IF Refreshes(s, e) THEN "Online" ELSE Target(s, e)
    OBVIOUS
  <2>2. to = s
    BY <2>1, <1>3, <1>4, <1>6, EventsOfModeStay
  <2>3. PICK m : m = ~Refreshes(s, e)
    OBVIOUS
  <2>4. PICK r : r = [job[j] EXCEPT !.pc = "post", !.to = s, !.mark = m]
    OBVIOUS
  <2>5. r.pc = "post" /\ r.to = s /\ r.todo = job[j].todo
    BY <2>4, <1>1 DEF Good, JobRows
  <2>6. Fits(r)
    BY <2>5, <1>1 DEF Fits
  <2>7. job' = [job EXCEPT ![j] = r]
    BY <1>6, <2>1, <2>2, <2>3, <2>4 DEF JobsGood
  <2>8. JobsFit'
    BY <2>6, <2>7, OneFits
  <2>9. state' = s /\ heartbeat' = (heartbeat /\ s # "Offline")
    BY <1>6, <2>1, <2>2 DEF WriteState
  <2>10. mode # "silent" => s # "Offline"
    BY <1>4 DEF Settled, Modes
  <2> QED
    BY <2>8, <2>9, <2>10, <1>4, <1>5 DEF ShownRight, Settled
<1>7. CASE /\ job' = [job EXCEPT ![j] = AfterEvent(j)]
           /\ UNCHANGED <<heartbeat, onlineSet, state>>
  <2>1. PICK r : r = AfterEvent(j)
    OBVIOUS
  <2>2. Fits(r) /\ job' = [job EXCEPT ![j] = r]
    BY <1>4, <1>7, <2>1, AfterFits
  <2>3. JobsFit'
    BY <2>2, OneFits
  <2> QED
    BY <2>3, <1>4, <1>5, <1>7 DEF ShownRight, Settled
<1> QED
  BY <1>2, <1>4, <1>6, <1>7 DEF Decide

\* A post shows the state of the mode, and its failure leaves what is shown.
LEMMA PostLasts ==
    ASSUME RestOK, JobsGood, ShownRight, JobsFit, mode' = mode, NEW j \in Jobs,
           PostAnswered(j) \/ PostFails(j) \/ PostSwallowed(j)
    PROVE  ShownRight' /\ JobsFit'
<1>1. job[j].to = Settled(mode) /\ Good(job[j]) /\ Fits(job[j]) /\ mode \in Modes
  BY DEF PostAnswered, PostFails, PostSwallowed, Busy, JobsGood, JobsFit, Fits, RestOK
<1>2. UNCHANGED <<heartbeat, backlog, state, cache, sweep, info>>
  BY DEF PostAnswered, PostFails, PostSwallowed, device, redis, api, DeviceStatus
<1>3. status' \in {status, Settled(mode)}
  BY <1>1 DEF PostAnswered, PostFails, PostSwallowed, api, DeviceStatus, ShownRight
<1>4. PICK r : /\ job' = [job EXCEPT ![j] = r]
               /\ r = AfterEvent(j) \/ r = [job[j] EXCEPT !.pc = "store"]
  <2>1. PICK x : x = IF job[j].mark THEN [job[j] EXCEPT !.pc = "store"] ELSE AfterEvent(j)
    OBVIOUS
  <2>2. x = AfterEvent(j) \/ x = [job[j] EXCEPT !.pc = "store"]
    BY <2>1
  <2>3. job' = [job EXCEPT ![j] = AfterEvent(j)] \/ job' = [job EXCEPT ![j] = x]
    BY <2>1 DEF PostAnswered, PostFails, PostSwallowed, JobsGood
  <2> QED
    BY <2>2, <2>3
<1>5. CASE r = AfterEvent(j)
  <2>1. Fits(r)
    BY <1>1, <1>5, AfterFits
  <2>2. JobsFit'
    BY <2>1, <1>4, OneFits
  <2> QED
    BY <2>2, <1>2, <1>3 DEF ShownRight, Settled
<1>6. CASE r = [job[j] EXCEPT !.pc = "store"]
  <2>1. r.pc = "store" /\ r.to = job[j].to /\ r.todo = job[j].todo
    BY <1>1, <1>6 DEF Good, JobRows
  <2>2. Fits(r)
    BY <2>1, <1>1 DEF Fits
  <2>3. JobsFit'
    BY <2>2, <1>4, OneFits
  <2> QED
    BY <2>3, <1>2, <1>3 DEF ShownRight, Settled
<1> QED
  BY <1>4, <1>5, <1>6

\* Telemetry shows a device online, and only a device that reports sends it.
LEMMA TelemetryLasts ==
    ASSUME RestOK, JobsGood, ShownRight, JobsFit, mode' = mode, NEW j \in Jobs, Telemetry(j)
    PROVE  ShownRight' /\ JobsFit'
<1>1. mode \in Modes /\ mode # "silent"
  <2>1. PICK q : q = job[j].todo
    OBVIOUS
  <2>2. q \in Seq(Raised(mode)) /\ q # << >> /\ Head(q) = "Telemetry"
    BY <2>1 DEF JobsFit, Fits, JobsGood, Good, HasEvent, Telemetry, Busy, Event
  <2>3. "Telemetry" \in Raised(mode)
    BY <2>2
  <2> QED
    BY <2>3 DEF Raised, RestOK
<1>2. PICK r : r = AfterEvent(j)
  OBVIOUS
<1>3. Fits(r) /\ job' = [job EXCEPT ![j] = r]
  BY <1>1, <1>2, AfterFits DEF Telemetry
<1>4. JobsFit'
  BY <1>3, OneFits
<1>5. UNCHANGED <<heartbeat, backlog, state, cache, info>> /\ sweep' = sweep
  BY DEF Telemetry, device, redis, api, DeviceStatus
<1>6. status' \in {status, "Online"}
  BY DEF Telemetry, api, DeviceStatus
<1> QED
  BY <1>1, <1>4, <1>5, <1>6 DEF ShownRight, Settled, Modes

\* The information of the device shows it online, or leaves a fault.
LEMMA RegistryLasts ==
    ASSUME RestOK, JobsGood, ShownRight, JobsFit, mode' = mode, Inform \/ Register
    PROVE  ShownRight' /\ JobsFit'
<1>1. mode \in Modes /\ mode # "silent"
  BY DEF Inform, Register, ShownRight, RestOK
<1>2. UNCHANGED <<heartbeat, backlog, state, cache, sweep, job>>
  BY DEF Inform, Register, device, redis, api
<1>3. status' \in {status, "Online"}
  BY DEF Inform, Register, api
<1>4. JobsFit'
  BY <1>2 DEF JobsFit, Fits
<1> QED
  BY <1>1, <1>2, <1>3, <1>4 DEF ShownRight, Settled, Modes

\* A handler stores the state that is stored.
LEMMA StoreLasts ==
    ASSUME RestOK, JobsGood, ShownRight, JobsFit, mode' = mode, NEW j \in Jobs, Store(j)
    PROVE  ShownRight' /\ JobsFit'
<1>1. cache' = Settled(mode) /\ mode \in Modes
  BY DEF Store, Busy, JobsFit, Fits, RestOK
<1>2. PICK r : r = AfterEvent(j)
  OBVIOUS
<1>3. Fits(r) /\ job' = [job EXCEPT ![j] = r]
  BY <1>1, <1>2, AfterFits DEF Store
<1>4. JobsFit'
  BY <1>3, OneFits
<1>5. UNCHANGED <<heartbeat, backlog, state, status, sweep, info>>
  BY DEF Store, device, api
<1> QED
  BY <1>1, <1>4, <1>5 DEF ShownRight, Settled

\* A worker takes a message with events of the mode.
LEMMA HandleLasts ==
    ASSUME JobsGood, JobsFit, mode \in Modes, mode' = mode, NEW w \in Jobs, NEW beat,
           NEW q \in Seq(Raised(mode)), Handle(w, beat, q)
    PROVE  /\ JobsFit' /\ heartbeat' = (heartbeat \/ beat)
           /\ UNCHANGED <<state, cache, status, sweep, info>>
<1>1. PICK r : r = [Idle EXCEPT !.pc = "event", !.todo = q]
  OBVIOUS
<1>2. Fits(r) /\ job' = [job EXCEPT ![w] = r]
  BY <1>1, FittingJobs DEF Handle
<1>3. JobsFit'
  BY <1>2, OneFits
<1> QED
  BY <1>3 DEF Handle, api

\* The messages of a device that stays in its mode, and a last will it left before.
LEMMA MessagesLast ==
    ASSUME RestOK, JobsGood, ShownRight, JobsFit, mode' = mode, NEW w \in Jobs,
           Parses(w) \/ CallsBack(w)
    PROVE  ShownRight' /\ JobsFit'
<1>0. mode \in Modes
  BY DEF RestOK
<1>1. CASE Heartbeat(w)
  <2>1. PICK c : c = Condition(mode = "faulty")
    OBVIOUS
  <2>2. mode # "silent" /\ Handle(w, TRUE, <<"OnlineReport", c>>) /\ UNCHANGED device
    BY <1>1, <2>1 DEF Heartbeat
  <2>3. "OnlineReport" \in Raised(mode) /\ c \in Raised(mode)
    BY <1>0, <2>1, <2>2 DEF Raised, Condition, Modes
  <2>4. <<"OnlineReport", c>> \in Seq(Raised(mode))
    BY <2>3
  <2>5. JobsFit' /\ heartbeat' /\ UNCHANGED <<state, cache, status, sweep, info>>
    BY <1>0, <2>2, <2>4, HandleLasts
  <2> QED
    BY <2>2, <2>5 DEF ShownRight, device, Settled
<1>2. CASE Uplink(w)
  <2>1. mode # "silent" /\ Handle(w, TRUE, <<"OnlineReport">>) /\ UNCHANGED device
    BY <1>2 DEF Uplink
  <2>2. <<"OnlineReport">> \in Seq(Raised(mode))
    <3>1. "OnlineReport" \in Raised(mode)
      BY <1>0, <2>1 DEF Raised, Modes
    <3> QED
      BY <3>1
  <2>3. JobsFit' /\ heartbeat' /\ UNCHANGED <<state, cache, status, sweep, info>>
    BY <1>0, <2>1, <2>2, HandleLasts
  <2> QED
    BY <2>1, <2>3 DEF ShownRight, device, Settled
<1>6. CASE Sample(w)
  <2>1. PICK c : c = Condition(mode = "faulty")
    OBVIOUS
  <2>2. PICK t : /\ t = <<"OnlineReport", "Telemetry">> \/ t = <<"OnlineReport", c, "Telemetry">>
                 /\ Handle(w, TRUE, t)
    BY <1>6, <2>1 DEF Sample
  <2>3. mode # "silent" /\ UNCHANGED device
    BY <1>6 DEF Sample
  <2>4. {"OnlineReport", c, "Telemetry"} \subseteq Raised(mode)
    BY <1>0, <2>1, <2>3 DEF Raised, Condition, Modes
  <2>5. t \in Seq(Raised(mode))
    <3>1. PICK R : R = Raised(mode)
      OBVIOUS
    <3>2. \A a, b, d \in R : <<a, b>> \in Seq(R) /\ <<a, b, d>> \in Seq(R)
      OBVIOUS
    <3> QED
      BY <2>2, <2>4, <3>1, <3>2
  <2>6. JobsFit' /\ heartbeat' /\ UNCHANGED <<state, cache, status, sweep, info>>
    BY <1>0, <2>2, <2>5, HandleLasts
  <2> QED
    BY <2>3, <2>6 DEF ShownRight, device, Settled
<1>7. CASE Hear(w)
  BY <1>7 DEF Hear, device, api, ShownRight, JobsFit, Fits, Settled
<1>3. CASE Backfill(w)
  BY <1>3 DEF Backfill, ShownRight
<1>4. CASE Goodbye(w)
  BY <1>4 DEF Goodbye
<1>5. CASE LastWill(w)
  <2>1. UNCHANGED <<mode, backlog, turns>>
    BY <1>5 DEF LastWill
  <2>2. CASE UNCHANGED <<redis, cache, job, api, up, info, upsets>>
    BY <2>1, <2>2 DEF redis, api, ShownRight, JobsFit, Fits, Settled
  <2>3. CASE ~heartbeat /\ Handle(w, FALSE, <<"LWTOffline">>)
    <3>1. mode = "silent"
      BY <2>3 DEF ShownRight
    <3>2. <<"LWTOffline">> \in Seq(Raised(mode))
      BY <3>1 DEF Raised
    <3>3. JobsFit' /\ ~heartbeat' /\ UNCHANGED <<state, cache, status, sweep, info>>
      BY <1>0, <2>3, <3>2, HandleLasts
    <3> QED
      BY <3>1, <3>3 DEF ShownRight, Settled
  <2> QED
    BY <2>2, <2>3, <1>5 DEF LastWill
<1> QED
  BY <1>1, <1>2, <1>3, <1>4, <1>5, <1>6, <1>7 DEF Parses, CallsBack

\* A job of the set goes a step further to one that fits.
LEMMA SetJobFits ==
    ASSUME JobsGood, JobsFit, mode' = mode, NEW j \in Jobs, NEW p,
           p \in {"post", "store"} => job[j].to = Settled(mode),
           IF mode = "silent" THEN p # "found" ELSE p \notin {"stale", "missing"},
           job' = [job EXCEPT ![j].pc = p]
    PROVE  JobsFit'
<1>1. job[j] \in JobRows /\ Fits(job[j])
  BY DEF JobsGood, JobsFit
<1>2. PICK r : r = [job[j] EXCEPT !.pc = p]
  OBVIOUS
<1>3. r.pc = p /\ r.todo = job[j].todo /\ r.to = job[j].to
  BY <1>1, <1>2 DEF JobRows
<1>4. Fits(r)
  BY <1>1, <1>3 DEF Fits
<1>5. job' = [job EXCEPT ![j] = r]
  BY <1>2 DEF JobsGood
<1> QED
  BY <1>4, <1>5, OneFits

\* The reconciliation takes out a silent device only.
LEMMA ReconcilerLasts ==
    ASSUME RestOK, JobsGood, ShownRight, JobsFit, mode' = mode, ReconcileList \/ Reconcile
    PROVE  ShownRight' /\ JobsFit'
<1>1. "reconciler" \in Jobs
  BY DEF Jobs
<1>2. CASE ReconcileList
  <2>1. mode = "silent"
    BY <1>2 DEF ReconcileList, ShownRight
  <2>2. job' = [job EXCEPT !["reconciler"].pc = "stale"]
    BY <1>2 DEF ReconcileList
  <2>3. JobsFit'
    BY <1>1, <2>1, <2>2, SetJobFits
  <2> QED
    BY <1>2, <2>3 DEF ReconcileList, device, redis, api, ShownRight, Settled
<1>3. CASE Reconcile
  <2>1. mode = "silent"
    BY <1>1, <1>3 DEF Reconcile, Busy, JobsFit, Fits
  <2>2. job["reconciler"].to = "Offline"
    BY <1>1, <1>3 DEF Reconcile, Busy, JobsGood, Good, HasEvent
  <2>3. job' = [job EXCEPT !["reconciler"].pc = "post"]
    BY <1>3 DEF Reconcile
  <2>4. JobsFit'
    BY <1>1, <2>1, <2>2, <2>3, SetJobFits DEF Settled
  <2> QED
    BY <1>3, <2>1, <2>4 DEF Reconcile, WriteState, device, api, ShownRight, Settled
<1> QED
  BY <1>2, <1>3

\* The rebuild sets online a device that reports, and leaves a silent one.
LEMMA RebuildLasts ==
    ASSUME RestOK, JobsGood, ShownRight, JobsFit, mode' = mode,
           mode = "faulty" => Busy("rebuild", "idle"), RebuildScan \/ Rebuild
    PROVE  ShownRight' /\ JobsFit'
<1>1. "rebuild" \in Jobs /\ mode # "faulty" /\ mode \in Modes
  BY DEF Jobs, RebuildScan, Rebuild, Busy, RestOK
<1>2. CASE RebuildScan
  <2>1. PICK p : p = IF heartbeat THEN "found" ELSE "missing"
    OBVIOUS
  <2>2. job' = [job EXCEPT !["rebuild"].pc = p]
    BY <1>2, <2>1 DEF RebuildScan
  <2>3. JobsFit'
    BY <1>1, <2>1, <2>2, SetJobFits DEF ShownRight
  <2> QED
    BY <1>2, <2>3 DEF RebuildScan, device, redis, api, ShownRight, Settled
<1>3. CASE Busy("rebuild", "found") /\ Rebuild
  <2>1. mode = "healthy"
    BY <1>1, <1>3 DEF Busy, JobsFit, Fits, Modes
  <2>2. PICK r : r = [Idle EXCEPT !.pc = "post", !.to = "Online"]
    OBVIOUS
  <2>3. /\ state' = "Online" /\ cache' = "Online" /\ job' = [job EXCEPT !["rebuild"] = r]
        /\ UNCHANGED <<device, heartbeat, api>>
    BY <1>3, <2>2 DEF Rebuild, Busy
  <2>4. Fits(r)
    BY <2>1, <2>2 DEF Fits, Idle, Settled
  <2>5. JobsFit'
    BY <1>1, <2>3, <2>4, OneFits
  <2> QED
    BY <2>1, <2>3, <2>5 DEF ShownRight, Settled, device, api
<1>4. CASE Busy("rebuild", "missing") /\ Rebuild
  <2>1. /\ job' = [job EXCEPT !["rebuild"] = Idle]
        /\ UNCHANGED <<device, heartbeat, state, cache, api, info>>
    BY <1>4 DEF Rebuild, Busy
  <2>2. JobsFit'
    BY <1>1, <2>1, FittingJobs, OneFits
  <2> QED
    BY <2>1, <2>2 DEF ShownRight, Settled, device, api
<1> QED
  BY <1>2, <1>3, <1>4 DEF Rebuild

\* A recovery of Redis and a restart lose what is under way, and the cache.
LEMMA UpsetsLast ==
    ASSUME RestOK, JobsGood, ShownRight, JobsFit, mode' = mode, RedisRecovers \/ Restart
    PROVE  ShownRight' /\ JobsFit'
<1>1. CASE RedisRecovers
  <2>1. "rebuild" \in Jobs /\ job' = [job EXCEPT !["rebuild"].pc = "start"]
    BY <1>1 DEF Jobs, RedisRecovers
  <2>2. JobsFit'
    BY <2>1, SetJobFits
  <2> QED
    BY <1>1, <2>2 DEF RedisRecovers, device, redis, api, ShownRight, Settled
<1>2. CASE Restart
  <2>1. \A j \in Jobs : Fits(job'[j])
    BY <1>2, FittingJobs DEF Restart, RestOK
  <2>2. JobsFit'
    BY <2>1 DEF JobsFit, Fits
  <2> QED
    BY <1>2, <2>2 DEF Restart, device, redis, api, ShownRight, Settled
<1> QED
  BY <1>1, <1>2

\* Keys expire and the sweep marks only what is silent.
LEMMA OthersLast ==
    ASSUME RestOK, JobsGood, ShownRight, JobsFit, mode' = mode,
           mode # "silent" => ~HeartbeatExpires,
           \/ \E m \in Modes : Turn(m)
           \/ \E e \in Debounced : DebounceExpires(e)
           \/ HeartbeatExpires \/ Started \/ Ages \/ SweepList \/ SweepMark \/ MarkDeviceOffline
    PROVE  ShownRight' /\ JobsFit'
<1>1. ~\E m \in Modes : Turn(m)
  BY DEF Turn
<1>2. job' = job /\ backlog' = backlog /\ state' = state /\ cache' = cache
  BY <1>1 DEF DebounceExpires, HeartbeatExpires, Started, Ages, SweepList, SweepMark, MarkDeviceOffline, device,
              redis
<1>3. JobsFit'
  BY <1>2 DEF JobsFit, Fits
<1>4. CASE HeartbeatExpires
  BY <1>4 DEF HeartbeatExpires, ShownRight
<1>5. CASE SweepList
  BY <1>2, <1>5 DEF SweepList, redis, ShownRight, Settled
<1>6. CASE SweepMark
  <2>1. mode = "silent" /\ state = "Offline"
    BY <1>6 DEF SweepMark, ShownRight, Settled
  <2>2. status' = "Offline" /\ heartbeat' = heartbeat /\ info' = info
    BY <1>6 DEF SweepMark, redis
  <2> QED
    BY <2>1, <2>2, <1>2, <1>3 DEF ShownRight, Settled
<1>7. CASE MarkDeviceOffline
  <2>1. heartbeat' = heartbeat /\ info' = info
    BY <1>7 DEF MarkDeviceOffline, redis
  <2>2. mode = "silent" => status = "Offline" /\ status' = "Offline"
    BY <1>7 DEF MarkDeviceOffline, ShownRight, Settled
  <2>3. mode # "silent" => status' = status /\ sweep' = "idle"
    BY <1>7 DEF MarkDeviceOffline, ShownRight
  <2> QED
    BY <2>1, <2>2, <2>3, <1>2, <1>3 DEF ShownRight, Settled
<1>8. CASE (\E e \in Debounced : DebounceExpires(e)) \/ Started \/ Ages
  <2>1. heartbeat' = heartbeat /\ status' = status /\ sweep' = sweep /\ info' = info
    BY <1>8 DEF DebounceExpires, Started, Ages, redis, api
  <2> QED
    BY <2>1, <1>2, <1>3 DEF ShownRight, Settled
<1> QED
  BY <1>1, <1>3, <1>4, <1>5, <1>6, <1>7, <1>8

\* No step of the system makes what is shown wrong.
LEMMA SteadyStep ==
    ASSUME PresenceInv, [Next]_vars, Steady, mode' = mode,
           mode # "silent" => ~HeartbeatExpires,
           mode = "faulty" => Busy("rebuild", "idle")'
    PROVE  Steady'
<1> SUFFICES ShownRight' /\ JobsFit'
  BY DEF Steady, ShownRight, JobsFit, Fits, InLine, Busy
<1>0. RestOK /\ JobsGood /\ ShownRight /\ JobsFit
      /\ (mode = "faulty" => Busy("rebuild", "idle"))
  BY PresenceInvParts, SteadyParts DEF JobsGood
<1>1. ASSUME NEW j \in Jobs, Advance(j)
      PROVE  ShownRight' /\ JobsFit'
  BY <1>0, <1>1, DecideLasts, PostLasts, StoreLasts, TelemetryLasts DEF Advance
<1>2. ASSUME NEW w \in Parsers \cup Callbacks, Parses(w) \/ CallsBack(w)
      PROVE  ShownRight' /\ JobsFit'
  BY <1>0, <1>2, MessagesLast DEF Jobs
<1>3. CASE UNCHANGED vars
  <2>1. /\ job' = job /\ backlog' = backlog /\ state' = state /\ cache' = cache
        /\ heartbeat' = heartbeat /\ status' = status /\ sweep' = sweep /\ info' = info
    BY <1>3 DEF vars
  <2> QED
    BY <1>0, <2>1 DEF ShownRight, JobsFit, Fits, Settled
<1>4. CASE \/ \E m \in Modes : Turn(m)
           \/ \E e \in Debounced : DebounceExpires(e)
           \/ HeartbeatExpires \/ Started \/ Ages \/ SweepList \/ SweepMark \/ MarkDeviceOffline
  BY <1>0, <1>4, OthersLast
<1>5. CASE ReconcileList \/ Reconcile \/ RebuildScan \/ Rebuild \/ RedisRecovers \/ Restart
  BY <1>0, <1>5, ReconcilerLasts, RebuildLasts, UpsetsLast
<1>6. CASE Inform \/ Register
  BY <1>0, <1>6, RegistryLasts
<1> QED
  BY <1>1, <1>2, <1>3, <1>4, <1>5, <1>6 DEF Next

-----------------------------------------------------------------------------
(* The set of the devices online.                                          *)

StayingEvents == Work \ {"OfflineReport", "LWTOffline"}

\* A row of a job that takes no device out of the set.
Spares(r) == r.todo \in Seq(StayingEvents) /\ r.pc \notin {"stale", "missing"}

JobsSpare == \A j \in Jobs : Spares(job[j])

Listed == heartbeat /\ onlineSet

\* A device that is heard, in parts.
LEMMA HeardParts == Heard <=> mode # "silent" /\ Listed /\ JobsSpare
BY DEF Heard, Listed, JobsSpare, Spares, StayingEvents, Busy

\* One job changes to one that spares the device.
LEMMA OneSpares ==
    ASSUME JobsGood, JobsSpare, NEW j \in Jobs, NEW r, Spares(r),
           job' = [job EXCEPT ![j] = r]
    PROVE  JobsSpare'
<1>1. \A i \in Jobs : job'[i] = IF i = j THEN r ELSE job[i]
  BY DEF JobsGood
<1> QED
  BY <1>1 DEF JobsSpare

\* A job that rests, begins or is about to go on spares the device.
LEMMA SparingJobs ==
    /\ Spares(Idle)
    /\ \A q \in Seq(StayingEvents) : Spares([Idle EXCEPT !.pc = "event", !.todo = q])
    /\ Spares([Idle EXCEPT !.pc = "start"])
    /\ Spares([Idle EXCEPT !.pc = "post", !.to = "Online"])
BY DEF Spares, Idle

\* None of its events leads to the state Offline.
LEMMA StayingEventsStay ==
    ASSUME NEW s, NEW e \in StayingEvents, CanTransition(s, e)
    PROVE  Target(s, e) # "Offline"
<1>1. \A t \in States : <<s, e, t>> \in Transitions => t # "Offline"
  BY DEF StayingEvents, Work, Events, Debounced, Transitions
<1> QED
  BY <1>1 DEF CanTransition, Target

\* After its event, a job goes on with such events or rests.
LEMMA AfterSpares ==
    ASSUME JobsSpare, NEW j \in Jobs
    PROVE  Spares(AfterEvent(j))
<1>1. PICK q : q = job[j].todo
  OBVIOUS
<1>2. q \in Seq(StayingEvents)
  BY <1>1 DEF JobsSpare, Spares
<1>3. CASE Len(q) > 1
  <2>1. q # << >>
    BY <1>3
  <2>2. Tail(q) \in Seq(StayingEvents)
    BY <1>2, <2>1
  <2> QED
    BY <1>1, <1>3, <2>2, SparingJobs DEF AfterEvent
<1>4. CASE ~(Len(q) > 1)
  BY <1>1, <1>4, SparingJobs DEF AfterEvent
<1> QED
  BY <1>3, <1>4

\* A job that goes another step with the events it has.
LEMMA StepSpares ==
    ASSUME JobsGood, JobsSpare, NEW j \in Jobs, NEW r,
           r.todo = job[j].todo, r.pc \notin {"stale", "missing"},
           job' = [job EXCEPT ![j] = r]
    PROVE  JobsSpare'
<1>1. Spares(r)
  BY DEF JobsSpare, Spares
<1> QED
  BY <1>1, OneSpares

\* A handler decides for a state in which the device is in the set.
LEMMA DecideSpares ==
    ASSUME RestOK, JobsGood, Listed, JobsSpare, NEW j \in Jobs, Decide(j)
    PROVE  Listed' /\ JobsSpare'
<1>1. Good(job[j]) /\ job[j] \in JobRows /\ job[j].todo # << >> /\ Spares(job[j])
  BY DEF JobsGood, Good, HasEvent, Decide, Busy, JobsSpare
<1>2. PICK e, s : e = Event(j) /\ s = Seen
  OBVIOUS
<1>3. e \in StayingEvents
  <2>1. PICK q \in Seq(StayingEvents) : q = job[j].todo
    BY <1>1 DEF Spares
  <2>2. Head(q) \in StayingEvents
    BY <1>1, <2>1
  <2> QED
    BY <1>2, <2>1, <2>2 DEF Event
<1>4. CASE /\ Refreshes(s, e) \/ CanTransition(s, e)
           /\ WriteState(IF Refreshes(s, e) THEN "Online" ELSE Target(s, e))
           /\ job' = [job EXCEPT ![j].pc = "post",
                                 ![j].to = IF Refreshes(s, e) THEN "Online" ELSE Target(s, e),
                                 ![j].mark = ~Refreshes(s, e)]
  <2>1. PICK to : to = IF Refreshes(s, e) THEN "Online" ELSE Target(s, e)
    OBVIOUS
  <2>2. to # "Offline"
    BY <2>1, <1>3, <1>4, StayingEventsStay
  <2>3. PICK m : m = ~Refreshes(s, e)
    OBVIOUS
  <2>4. PICK r : r = [job[j] EXCEPT !.pc = "post", !.to = to, !.mark = m]
    OBVIOUS
  <2>5. r.pc = "post" /\ r.todo = job[j].todo
    BY <2>4, <1>1 DEF JobRows
  <2>6. job' = [job EXCEPT ![j] = r]
    BY <1>4, <2>1, <2>3, <2>4 DEF JobsGood
  <2>7. JobsSpare'
    BY <2>5, <2>6, StepSpares
  <2>8. Listed'
    BY <1>4, <2>1, <2>2 DEF WriteState, Listed
  <2> QED
    BY <2>7, <2>8
<1>5. CASE /\ job' = [job EXCEPT ![j] = AfterEvent(j)]
           /\ UNCHANGED <<heartbeat, onlineSet, state>>
  <2>1. PICK r : r = AfterEvent(j)
    OBVIOUS
  <2>2. Spares(r) /\ job' = [job EXCEPT ![j] = r]
    BY <1>5, <2>1, AfterSpares
  <2>3. JobsSpare'
    BY <2>2, OneSpares
  <2> QED
    BY <2>3, <1>5 DEF Listed
<1> QED
  BY <1>2, <1>4, <1>5 DEF Decide

\* Posts and what follows them leave the set alone.
LEMMA PostSpares ==
    ASSUME RestOK, JobsGood, Listed, JobsSpare, NEW j \in Jobs,
           PostAnswered(j) \/ PostFails(j) \/ PostSwallowed(j) \/ Store(j) \/ Telemetry(j)
    PROVE  Listed' /\ JobsSpare'
<1>1. Listed'
  BY DEF PostAnswered, PostFails, PostSwallowed, Store, Telemetry, redis, Listed
<1>2. PICK x : x = IF job[j].mark THEN [job[j] EXCEPT !.pc = "store"] ELSE AfterEvent(j)
  OBVIOUS
<1>3. PICK y : y = AfterEvent(j)
  OBVIOUS
<1>4. job' = [job EXCEPT ![j] = y] \/ job' = [job EXCEPT ![j] = x]
  BY <1>2, <1>3 DEF PostAnswered, PostFails, PostSwallowed, Store, Telemetry, JobsGood
<1>5. Spares(y)
  BY <1>3, AfterSpares
<1>6. Spares(x)
  <2>1. CASE x = y
    BY <2>1, <1>5
  <2>2. CASE x = [job[j] EXCEPT !.pc = "store"]
    <3>1. job[j] \in JobRows /\ Spares(job[j])
      BY DEF JobsGood, JobsSpare
    <3>2. x.pc = "store" /\ x.todo = job[j].todo
      BY <2>2, <3>1 DEF JobRows
    <3> QED
      BY <3>1, <3>2 DEF Spares
  <2> QED
    BY <2>1, <2>2, <1>2, <1>3
<1>7. JobsSpare'
  <2>1. CASE job' = [job EXCEPT ![j] = y]
    BY <2>1, <1>5, OneSpares
  <2>2. CASE job' = [job EXCEPT ![j] = x]
    BY <2>2, <1>6, OneSpares
  <2> QED
    BY <2>1, <2>2, <1>4
<1> QED
  BY <1>1, <1>7

\* The events of a device that is heard.
LEMMA HandleSpares ==
    ASSUME RestOK, JobsGood, Listed, JobsSpare, NEW w \in Jobs, NEW beat,
           NEW q \in Seq(StayingEvents), Handle(w, beat, q)
    PROVE  Listed' /\ JobsSpare'
<1>1. PICK r : r = [Idle EXCEPT !.pc = "event", !.todo = q]
  OBVIOUS
<1>2. Spares(r) /\ job' = [job EXCEPT ![w] = r]
  BY <1>1, SparingJobs DEF Handle
<1>3. JobsSpare'
  BY <1>2, OneSpares
<1> QED
  BY <1>3 DEF Handle, Listed

\* What a device reports of itself does not take it out, except its goodbye, and its
\* last will is ignored.
LEMMA MessagesSpare ==
    ASSUME RestOK, JobsGood, Listed, JobsSpare, mode' # "silent", NEW w \in Jobs,
           Parses(w) \/ CallsBack(w)
    PROVE  Listed' /\ JobsSpare'
<1>1. \A f \in BOOLEAN : /\ <<Condition(f)>> \in Seq(StayingEvents)
                          /\ <<"OnlineReport", Condition(f)>> \in Seq(StayingEvents)
  BY DEF Condition, StayingEvents, Work, Events, Debounced
<1>2. <<"OnlineReport">> \in Seq(StayingEvents)
  BY DEF StayingEvents, Work, Events, Debounced
<1>3. CASE Heartbeat(w)
  <2>1. PICK f \in BOOLEAN : f = (mode = "faulty")
    OBVIOUS
  <2>2. Handle(w, TRUE, <<"OnlineReport", Condition(f)>>)
    BY <1>3, <2>1 DEF Heartbeat
  <2> QED
    BY <1>1, <2>2, HandleSpares
<1>4. CASE Uplink(w)
  BY <1>2, <1>4, HandleSpares DEF Uplink
<1>5. CASE Backfill(w)
  <2>1. PICK f \in BOOLEAN : Handle(w, FALSE, <<Condition(f)>>)
    BY <1>5 DEF Backfill
  <2> QED
    BY <1>1, <2>1, HandleSpares
<1>6. CASE Goodbye(w)
  BY <1>6 DEF Goodbye
<1>7. CASE LastWill(w)
  <2>1. UNCHANGED <<redis, job>>
    BY <1>7 DEF LastWill, Listed
  <2> QED
    BY <2>1 DEF redis, Listed, JobsSpare
<1>8. CASE Sample(w)
  <2>1. PICK f \in BOOLEAN : f = (mode = "faulty")
    OBVIOUS
  <2>2. PICK t : /\ t = <<"OnlineReport", "Telemetry">> \/
                       t = <<"OnlineReport", Condition(f), "Telemetry">>
                 /\ Handle(w, TRUE, t)
    BY <1>8, <2>1 DEF Sample
  <2>3. t \in Seq(StayingEvents)
    <3>1. {"OnlineReport", "Telemetry", Condition(f)} \subseteq StayingEvents
      BY DEF Condition, StayingEvents, Work, Events, Debounced
    <3>2. \A a, b, c \in StayingEvents :
             <<a, b>> \in Seq(StayingEvents) /\ <<a, b, c>> \in Seq(StayingEvents)
      OBVIOUS
    <3> QED
      BY <2>2, <3>1, <3>2
  <2> QED
    BY <2>2, <2>3, HandleSpares
<1>9. CASE Hear(w)
  BY <1>9 DEF Hear, Listed, JobsSpare
<1> QED
  BY <1>3, <1>4, <1>5, <1>6, <1>7, <1>8, <1>9 DEF Parses, CallsBack

\* The jobs of the set see the heartbeat.
LEMMA SetJobsSpare ==
    ASSUME RestOK, JobsGood, Listed, JobsSpare,
           ReconcileList \/ Reconcile \/ RebuildScan \/ Rebuild \/ RedisRecovers \/ Restart
    PROVE  Listed' /\ JobsSpare'
<1>0. "reconciler" \in Jobs /\ "rebuild" \in Jobs
  BY DEF Jobs
<1>1. CASE ReconcileList
  BY <1>1 DEF ReconcileList, Listed
<1>2. CASE Reconcile
  BY <1>0, <1>2 DEF Reconcile, Busy, JobsSpare, Spares
<1>3. CASE RebuildScan \/ RedisRecovers
  <2>1. Listed' /\ heartbeat
    BY <1>3 DEF RebuildScan, RedisRecovers, redis, Listed
  <2>2. PICK p \in {"found", "start"} : job' = [job EXCEPT !["rebuild"].pc = p]
    BY <1>3, <2>1 DEF RebuildScan, RedisRecovers
  <2>3. PICK r : r = [job["rebuild"] EXCEPT !.pc = p]
    OBVIOUS
  <2>4. job["rebuild"] \in JobRows
    BY <1>0 DEF JobsGood
  <2>5. r.pc = p /\ r.todo = job["rebuild"].todo
    BY <2>3, <2>4 DEF JobRows
  <2>6. job' = [job EXCEPT !["rebuild"] = r]
    BY <2>2, <2>3 DEF JobsGood
  <2>7. JobsSpare'
    BY <1>0, <2>5, <2>6, StepSpares
  <2> QED
    BY <2>1, <2>7
<1>4. CASE Rebuild
  <2>1. ~Busy("rebuild", "missing")
    BY <1>0 DEF Busy, JobsSpare, Spares
  <2>2. PICK r : r = [Idle EXCEPT !.pc = "post", !.to = "Online"]
    OBVIOUS
  <2>3. job' = [job EXCEPT !["rebuild"] = r] /\ Listed'
    BY <1>4, <2>1, <2>2 DEF Rebuild, Listed
  <2>4. Spares(r)
    BY <2>2, SparingJobs
  <2>5. JobsSpare'
    BY <1>0, <2>3, <2>4, OneSpares
  <2> QED
    BY <2>3, <2>5
<1>5. CASE Restart
  <2>1. \A j \in Jobs : Spares(job'[j])
    BY <1>5, SparingJobs DEF Restart
  <2> QED
    BY <1>5, <2>1 DEF JobsSpare, Restart, redis, Listed
<1> QED
  BY <1>1, <1>2, <1>3, <1>4, <1>5

\* Debounce keys, the sweep, the registry and the device's changes of mode leave the set alone.
LEMMA OthersSpare ==
    ASSUME RestOK, JobsGood, Listed, JobsSpare, mode # "silent",
           \/ \E m \in Modes : Turn(m)
           \/ \E e \in Debounced : DebounceExpires(e)
           \/ Inform \/ Register \/ Started \/ Ages \/ SweepList \/ SweepMark \/ MarkDeviceOffline
    PROVE  Listed' /\ JobsSpare'
<1>1. job' = job /\ heartbeat' = heartbeat /\ onlineSet' = onlineSet
  BY DEF Turn, DebounceExpires, Inform, Register, Started, Ages, SweepList, SweepMark, MarkDeviceOffline, redis
<1> QED
  BY <1>1 DEF Listed, JobsSpare

\* No step takes a device that is heard out of the set.
LEMMA HeardStep ==
    ASSUME PresenceInv, [Next]_vars, Heard, mode' # "silent", ~HeartbeatExpires
    PROVE  Heard'
<1> SUFFICES Listed' /\ JobsSpare'
  BY DEF Heard, Listed, JobsSpare, Spares, StayingEvents, Busy
<1>0. RestOK /\ JobsGood /\ mode # "silent" /\ Listed /\ JobsSpare
  BY PresenceInvParts, HeardParts DEF JobsGood
<1>1. ASSUME NEW j \in Jobs, Advance(j)
      PROVE  Listed' /\ JobsSpare'
  BY <1>0, <1>1, DecideSpares, PostSpares DEF Advance
<1>2. ASSUME NEW w \in Parsers \cup Callbacks, Parses(w) \/ CallsBack(w)
      PROVE  Listed' /\ JobsSpare'
  BY <1>0, <1>2, MessagesSpare DEF Jobs
<1>3. CASE UNCHANGED vars
  <2>1. job' = job /\ heartbeat' = heartbeat /\ onlineSet' = onlineSet
    BY <1>3 DEF vars
  <2> QED
    BY <1>0, <2>1 DEF Listed, JobsSpare
<1>4. CASE \/ \E m \in Modes : Turn(m)
           \/ \E e \in Debounced : DebounceExpires(e)
           \/ Inform \/ Register \/ Started \/ Ages \/ SweepList \/ SweepMark \/ MarkDeviceOffline
  BY <1>0, <1>4, OthersSpare
<1>5. CASE ReconcileList \/ Reconcile \/ RebuildScan \/ Rebuild \/ RedisRecovers \/ Restart
  BY <1>0, <1>5, SetJobsSpare
<1> QED
  BY <1>1, <1>2, <1>3, <1>4, <1>5 DEF Next

\* What is right stays right: while the mode of a device lasts, and the key of one that reports
\* does not expire, no step makes its state wrong, nor its status, except that telemetry and
\* information show a faulty device online; and none takes it out of the set of the devices
\* online, however messages, failed posts, restarts, the reconciliation and the rebuild
\* interleave.
THEOREM RightLasts == Spec => RightStays
<1>1. PresenceInv /\ [Next]_vars =>
          [/\ Steady /\ mode' = mode
           /\ mode # "silent" => ~HeartbeatExpires
           /\ mode = "faulty" => Busy("rebuild", "idle")'
           => Steady']_vars
  BY SteadyStep
<1>2. PresenceInv /\ [Next]_vars =>
          [Heard /\ mode' # "silent" /\ ~HeartbeatExpires => Heard']_vars
  BY HeardStep
<1> QED
  BY <1>1, <1>2, PresenceBegins, PresenceSteps, PTL DEF Spec, RightStays
=============================================================================
