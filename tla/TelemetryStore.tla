-------------------------- MODULE TelemetryStore --------------------------
(***************************************************************************)
(* What the database keeps of the heartbeats of a device: the facts, the   *)
(* newest of them and a sum for each day. The device server stores a       *)
(* heartbeat in a transaction under an advisory lock; a trigger on the     *)
(* facts keeps the rest up to date. Kafka hands a heartbeat out again, and *)
(* out of order: a device that was off line sends its old ones late. The   *)
(* older modular reports of energy reach the row of a day through the      *)
(* business-api, without the lock.                                         *)
(*                                                                         *)
(* One device, whose row and timezone stay. Of a heartbeat the models keep *)
(* its time and the energy counter of the day, and it is identified by     *)
(* both. The cells follow in the same transaction by the same rule. Left   *)
(* out: months, maxima of power, minutes, the copies in Redis.             *)
(***************************************************************************)
EXTENDS Integers, FiniteSets, FiniteSetsExt

CONSTANTS
    Savers,       \* workers of the device server that store heartbeats
    Instants,     \* times of heartbeats, two of them to a day
    Energies,     \* values of the counter
    MaxFacts,     \* bound: facts stored
    MaxModular    \* bound: modular reports

ASSUME StoreAssumption ==
    /\ Instants \subseteq Nat \ {0} /\ Energies \subseteq Nat \ {0}
    /\ MaxFacts \in Nat /\ MaxModular \in Nat

DayOf(time) == (time + 1) \div 2
EnergyDays  == {DayOf(time) : time \in Instants}
Samples     == [time : Instants, energy : Energies]

VARIABLES
    facts,     \* device_telemetry_3min
    newest,    \* device_latest_state
    energyDay, \* energyDay[d]: the row of device_energy_day; a count of 0 is no row
    modular,   \* the modular reports that were stored
    saver      \* saver[w]: the transaction of the worker

storeVars == <<facts, newest, energyDay, modular, saver>>

NoSample == [time |-> 0, energy |-> 0]
NoSaver  == [pc |-> "idle", sample |-> NoSample, late |-> FALSE]
NoDay    == [energy |-> 0, count |-> 0]

StoreInit ==
    /\ facts = {} /\ newest = NoSample
    /\ energyDay = [d \in EnergyDays |-> NoDay] /\ modular = {}
    /\ saver = [w \in Savers |-> NoSaver]

Larger(x, y) == IF x < y THEN y ELSE x

-----------------------------------------------------------------------------
\* SaveTelemetryV2 takes the advisory lock of the device and reads the newest time:
\* an earlier heartbeat is flagged.
SaveBegin(w, s) ==
    /\ saver[w].pc = "idle" /\ \A v \in Savers : saver[v].pc = "idle"
    /\ s \in facts \/ Cardinality(facts) < MaxFacts
    /\ saver' = [saver EXCEPT ![w] =
                    [pc |-> "saving", sample |-> s, late |-> s.time < newest.time]]
    /\ UNCHANGED <<facts, newest, energyDay, modular>>

\* Mutant: the conflict is resolved by an update, and the trigger runs again.
IsNewAlways(s) == TRUE

\* ON CONFLICT (device_sn, event_time, data_hash) DO NOTHING: no trigger then.
IsNew(s) == s \notin facts

\* maintain_telemetry_v2_derived: a flagged heartbeat leaves the newest alone; others
\* delete it unless it is newer, and insert themselves unless one is there.
Newest(s, late) == IF late \/ newest.time > s.time THEN newest ELSE s

\* The row of the day is made, or takes the larger counter and counts one more.
Counted(s) ==
    [energyDay EXCEPT ![DayOf(s.time)] =
        [energy |-> Larger(@.energy, s.energy), count |-> @.count + 1]]

\* The insert, the trigger and the commit, which releases the lock.
SaveCommit(w) ==
    LET s == saver[w].sample
    IN  /\ saver[w].pc = "saving"
        /\ facts' = facts \cup {s}
        /\ IF IsNew(s)
           THEN newest' = Newest(s, saver[w].late) /\ energyDay' = Counted(s)
           ELSE UNCHANGED <<newest, energyDay>>
        /\ saver' = [saver EXCEPT ![w] = NoSaver]
        /\ UNCHANGED modular

\* A statement fails or the worker dies: rolled back, and Kafka has the heartbeat still.
SaveFails(w) ==
    /\ saver[w].pc = "saving"
    /\ saver' = [saver EXCEPT ![w] = NoSaver]
    /\ UNCHANGED <<facts, newest, energyDay, modular>>

\* DeviceData and handleBatchEnergyData: one statement, which adds no count to a row
\* that is there.
StoreModular(d, energy) ==
    /\ Cardinality(modular) < MaxModular \/ [day |-> d, energy |-> energy] \in modular
    /\ modular' = modular \cup {[day |-> d, energy |-> energy]}
    /\ energyDay' = [energyDay EXCEPT ![d] =
                        [energy |-> Larger(@.energy, energy), count |-> Larger(@.count, 1)]]
    /\ UNCHANGED <<facts, newest, saver>>

-----------------------------------------------------------------------------
StoreNext ==
    \/ \E w \in Savers :
          \/ \E s \in Samples : SaveBegin(w, s)
          \/ SaveCommit(w) \/ SaveFails(w)
    \/ \E d \in EnergyDays, energy \in Energies : StoreModular(d, energy)

StoreSpec == StoreInit /\ [][StoreNext]_storeVars

-----------------------------------------------------------------------------
StoreTypeOK ==
    /\ facts \subseteq Samples
    /\ newest \in Samples \cup {NoSample}
    /\ \A d \in EnergyDays : energyDay[d].energy \in Nat /\ energyDay[d].count \in Nat
    /\ modular \subseteq [day : EnergyDays, energy : Energies]
    /\ \A w \in Savers : saver[w].sample \in Samples \cup {NoSample}

FactsOf(d)   == {s \in facts : DayOf(s.time) = d}
ModularOf(d) == {r \in modular : r.day = d}

\* What is derived agrees with the facts, however often and in whatever order the
\* heartbeats came: the state that is shown is a fact that no other is newer than, the
\* energy of a day is the largest counter reported on it, and every fact of the day is
\* counted once; a modular report that made the row is counted as well
\* (maintain_telemetry_v2_derived).
DerivedAgrees ==
    /\ facts = {} => newest = NoSample
    /\ facts # {} => newest \in facts /\ \A s \in facts : s.time <= newest.time
    /\ \A d \in EnergyDays :
          LET reported == {s.energy : s \in FactsOf(d)} \cup {r.energy : r \in ModularOf(d)}
              extra    == energyDay[d].count - Cardinality(FactsOf(d))
          IN  /\ energyDay[d].energy = Max(reported \cup {0})
              /\ extra = 0 \/ (extra = 1 /\ ModularOf(d) # {})
=============================================================================
