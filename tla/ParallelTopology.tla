------------------------- MODULE ParallelTopology -------------------------
(***************************************************************************)
(* The parallel group a master inverter reports: the state shown for its   *)
(* station and the list of events. A report reaches the business-api more  *)
(* than once, late, and at the same time as another; each is stored in a   *)
(* transaction. The lock of the row of the station orders transactions     *)
(* only once there is a row.                                               *)
(*                                                                         *)
(* One master, which may be moved to another station. A report is its time *)
(* and its data; reports that are not valid, and members that are not in   *)
(* the station, are refused before anything is written.                    *)
(***************************************************************************)
EXTENDS Naturals

CONSTANTS
    Ingests,     \* requests under way
    Stations,    \* stations of the master
    Times,       \* times of reports
    Topologies,  \* what a report can say
    MaxMoves     \* bound: moves of the master

ASSUME TopologyAssumption ==
    /\ Times \subseteq Nat \ {0} /\ MaxMoves \in Nat
    /\ "nowhere" \notin Stations /\ "none" \notin Topologies

VARIABLES
    station,   \* devices.station_id of the master
    moves,     \* moves so far
    group,     \* group[st]: the row of device_parallel_state
    changes,   \* device_parallel_events
    ingest     \* ingest[i]: the request, the report it stores and what it has read

topologyVars == <<station, moves, group, changes, ingest>>

NoGroup  == [time |-> 0, data |-> "none"]
NoIngest == [pc |-> "idle", report |-> NoGroup, station |-> "nowhere", found |-> NoGroup]
Reported == [time : Times, data : Topologies]

TopologyInit ==
    /\ station = "nowhere" /\ moves = 0
    /\ group = [st \in Stations |-> NoGroup]
    /\ changes = {}
    /\ ingest = [i \in Ingests |-> NoIngest]

\* FOR UPDATE locks the row that was found, until the transaction ends.
Unlocked(i, st) ==
    \A j \in Ingests \ {i} :
        ~(ingest[j].pc = "storing" /\ ingest[j].station = st /\ ingest[j].found # NoGroup)

-----------------------------------------------------------------------------
\* IngestParallel reads the station of the master, without which the report is refused,
\* and the row of that station.
IngestRead(i, r) ==
    /\ ingest[i].pc = "idle" /\ station # "nowhere"
    /\ group[station] # NoGroup => Unlocked(i, station)
    /\ ingest' = [ingest EXCEPT ![i] =
                     [pc |-> "storing", report |-> r, station |-> station,
                      found |-> group[station]]]
    /\ UNCHANGED <<station, moves, group, changes>>

\* The same data again is no event.
IsChange(i) == ingest[i].found = NoGroup \/ ingest[i].found.data # ingest[i].report.data

IsLate(i) == ingest[i].report.time <= ingest[i].found.time

\* An event of this master, time and data is there, of whatever station: the
\* transaction ends with it.
IsKnown(i) ==
    \E e \in changes : e.time = ingest[i].report.time /\ e.data = ingest[i].report.data

\* Mutant: the row is overwritten without a look at its time.
UpsertAnyway(old, new) == new

\* ON CONFLICT (station_id) DO UPDATE ... WHERE EXCLUDED.event_time > event_time
Upsert(old, new) == IF new.time > old.time THEN new ELSE old

\* The event, the row and the commit. A report that was found as it is changes nothing.
IngestCommit(i) ==
    LET r == ingest[i].report  st == ingest[i].station IN
    /\ ingest[i].pc = "storing" /\ Unlocked(i, st)
    /\ changes' = IF ingest[i].found # r /\ IsChange(i) /\ ~IsKnown(i)
                  THEN changes \cup {[station |-> st, time |-> r.time, data |-> r.data]}
                  ELSE changes
    /\ group' = IF IsLate(i) \/ (IsChange(i) /\ IsKnown(i))
                THEN group ELSE [group EXCEPT ![st] = Upsert(@, r)]
    /\ ingest' = [ingest EXCEPT ![i] = NoIngest]
    /\ UNCHANGED <<station, moves>>

\* A statement fails: rolled back, and the device server sends the report again.
IngestFails(i) ==
    /\ ingest[i].pc = "storing"
    /\ ingest' = [ingest EXCEPT ![i] = NoIngest]
    /\ UNCHANGED <<station, moves, group, changes>>

\* The master gets a station, or another.
MoveMaster(st) ==
    /\ st # station /\ moves < MaxMoves
    /\ station' = st /\ moves' = moves + 1
    /\ UNCHANGED <<group, changes, ingest>>

-----------------------------------------------------------------------------
TopologyNext ==
    \/ \E i \in Ingests :
          \/ \E r \in Reported : IngestRead(i, r)
          \/ IngestCommit(i) \/ IngestFails(i)
    \/ \E st \in Stations : MoveMaster(st)

TopologySpec == TopologyInit /\ [][TopologyNext]_topologyVars

-----------------------------------------------------------------------------
TopologyTypeOK ==
    /\ station \in Stations \cup {"nowhere"} /\ moves \in 0 .. MaxMoves
    /\ \A st \in Stations : group[st] \in Reported \cup {NoGroup}
    /\ changes \subseteq [station : Stations, time : Times, data : Topologies]
    /\ \A i \in Ingests :
          /\ ingest[i].pc \in {"idle", "storing"}
          /\ ingest[i].report \in Reported \cup {NoGroup}
          /\ ingest[i].found \in Reported \cup {NoGroup}

\* The group shown for a station never goes back in time, also when two first reports
\* race and there is no row to lock yet; and it never says anything else than before
\* without the event that tells so, of that station and that time (IngestParallel).
ParallelForward ==
    [][\A st \in Stations : group'[st] # group[st] =>
          /\ group'[st].time > group[st].time
          /\ group'[st].data # group[st].data =>
                [station |-> st, time |-> group'[st].time, data |-> group'[st].data]
                    \in changes']_topologyVars
=============================================================================
