---------------------------- MODULE MCOtaUpgrade ----------------------------
(* Instances of OtaUpgrade for TLC: the upgrades of one device. *)
EXTENDS OtaUpgrade, TLC

CONSTANTS d1, app1, app2, plan

\* One upgrade of a scheduled task.
PlanDeviceOf == [u \in {1} |-> d1]
PlanTaskOf   == [u \in {1} |-> plan]
PlanChipOf   == [u \in {1} |-> "arm"]

\* Two upgrades of the App's flow, of different chips.
AppDeviceOf == [u \in {1, 2} |-> d1]
AppTaskOf   == 1 :> app1 @@ 2 :> app2
AppChipOf   == 1 :> "arm" @@ 2 :> "esp"

\* A scheduled task created before the App asks for another upgrade.
MixTaskOf   == 1 :> plan @@ 2 :> app1
=============================================================================
