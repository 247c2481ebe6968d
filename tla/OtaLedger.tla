------------------------------ MODULE OtaLedger ------------------------------
(***************************************************************************)
(* What the table device_upgrades promises about one upgrade, whatever the *)
(* order in which administrators, timers, retries, devices and restarts    *)
(* touch it:                                                               *)
(*   - an upgrade is recorded as a success only for a device that really   *)
(*     installed its firmware;                                             *)
(*   - a closed upgrade (success, failed, cancelled) is never reopened     *)
(*     except by a retry, only a failed one is retried, and every retry    *)
(*     opens a new attempt;                                                *)
(*   - the only way to overwrite a closed upgrade is to call it failed.    *)
(* OtaUpgrade is shown to implement this module.                           *)
(***************************************************************************)
EXTENDS Naturals

CONSTANT Upgrades      \* the identifiers of device_upgrades

VARIABLES status,      \* status[u]: the status column; "none" before the insert
          attempt,     \* attempt[u]: the retry_count column
          installed    \* the upgrades whose firmware a device has installed

ledger == <<status, attempt, installed>>

Open == {"pending", "upgrading"}

Init == /\ status = [u \in Upgrades |-> "none"]
        /\ attempt = [u \in Upgrades |-> 0]
        /\ installed = {}

\* What one step may do to upgrade u.
Create(u)  == status[u] = "none" /\ status'[u] = "pending" /\ attempt'[u] = attempt[u]
Start(u)   == status[u] \in Open /\ status'[u] = "upgrading" /\ attempt'[u] = attempt[u]
Succeed(u) == /\ status[u] \in Open /\ status'[u] = "success"
              /\ u \in installed /\ attempt'[u] = attempt[u]
Cancel(u)  == status[u] \in Open /\ status'[u] = "cancelled" /\ attempt'[u] = attempt[u]
Fail(u)    == status[u] # "none" /\ status'[u] = "failed" /\ attempt'[u] = attempt[u]
Retry(u)   == status[u] = "failed" /\ status'[u] = "pending" /\ attempt'[u] = attempt[u] + 1
Keep(u)    == status'[u] = status[u] /\ attempt'[u] = attempt[u]

\* One statement may touch several upgrades: a task is cancelled, timed out or
\* retried as a whole.
Next == /\ installed \subseteq installed'
        /\ status' = [u \in Upgrades |-> status'[u]]
        /\ attempt' = [u \in Upgrades |-> attempt'[u]]
        /\ \A u \in Upgrades : \/ Create(u) \/ Start(u) \/ Succeed(u) \/ Cancel(u)
                               \/ Fail(u) \/ Retry(u) \/ Keep(u)

Spec == Init /\ [][Next]_ledger
=============================================================================
