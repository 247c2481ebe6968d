----------------------------- MODULE MCDevices ------------------------------
(***************************************************************************)
(* Instances of the services of a device, which share no state in the      *)
(* models: its debug sessions, alarms, claims, binding, stored heartbeats  *)
(* and parallel group. A behaviour is one of any of them, while the others *)
(* stay as they began; so one run checks them all.                         *)
(***************************************************************************)
EXTENDS DebugSession, AlarmIngest, DeviceClaim, DeviceBinding, TelemetryStore,
        ParallelTopology

CONSTANT MaxUnderWay    \* bound: what is under way of debug sessions

VARIABLE devicesPart    \* the service that acts

devicesVars ==
    <<devicesPart, debugVars, alarmVars, claimVars, bindingVars, storeVars, topologyVars>>

DevicesInit ==
    /\ devicesPart \in {"debug", "alarm", "claim", "binding", "store", "topology"}
    /\ DebugInit /\ AlarmInit /\ ClaimInit /\ BindingInit /\ StoreInit /\ TopologyInit

\* The calls and results being handled, and the commands and results there are.
UnderWay ==
    Cardinality({c \in Callers : ~Calls(c, "idle")}) + Cardinality(verdicts)
        + Cardinality(commands) + Cardinality(results)

DevicesNext ==
    \/ /\ devicesPart = "debug" /\ DebugNext /\ UnderWay' <= MaxUnderWay
       /\ UNCHANGED <<devicesPart, alarmVars, claimVars, bindingVars, storeVars, topologyVars>>
    \/ /\ devicesPart = "alarm" /\ AlarmNext
       /\ UNCHANGED <<devicesPart, debugVars, claimVars, bindingVars, storeVars, topologyVars>>
    \/ /\ devicesPart = "claim" /\ ClaimNext
       /\ UNCHANGED <<devicesPart, debugVars, alarmVars, bindingVars, storeVars, topologyVars>>
    \/ /\ devicesPart = "binding" /\ BindingNext
       /\ UNCHANGED <<devicesPart, debugVars, alarmVars, claimVars, storeVars, topologyVars>>
    \/ /\ devicesPart = "store" /\ StoreNext
       /\ UNCHANGED <<devicesPart, debugVars, alarmVars, claimVars, bindingVars, topologyVars>>
    \/ /\ devicesPart = "topology" /\ TopologyNext
       /\ UNCHANGED <<devicesPart, debugVars, alarmVars, claimVars, bindingVars, storeVars>>

\* The fairness of the service that acts; it says nothing of one that rests.
DevicesSpec ==
    /\ DevicesInit /\ [][DevicesNext]_devicesVars
    /\ DebugFairness /\ AlarmFairness

-----------------------------------------------------------------------------
\* The values the state of each service can take.
DevicesTypeOK ==
    /\ DebugTypeOK /\ AlarmTypeOK /\ ClaimTypeOK
    /\ BindingTypeOK /\ StoreTypeOK /\ TopologyTypeOK
=============================================================================
