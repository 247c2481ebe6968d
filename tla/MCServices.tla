----------------------------- MODULE MCServices -----------------------------
(***************************************************************************)
(* Instances of the services for TLC. The accounts, the devices and the    *)
(* records of hardware share no state in the models, so a behaviour is one *)
(* of one of the three, while the others stay as they began, and one run   *)
(* checks them all.                                                        *)
(***************************************************************************)
EXTENDS MCAccounts, MCDevices, MCHardware

VARIABLE service    \* which of the three acts

partsVars == <<recordsPart, recordsVars>>

servicesVars == <<service, accountsVars, devicesVars, partsVars>>

\* Which part of a service would act is of no account while it rests.
ServicesInit ==
    /\ service \in {"accounts", "devices", "records"}
    /\ AccountsInit /\ DevicesInit /\ PartsInit
    /\ service # "accounts" => accountsPart = "auth"
    /\ service # "devices" => devicesPart = "debug"
    /\ service # "records" => recordsPart = "windows"

ServicesNext ==
    \/ /\ service = "accounts" /\ AccountsNext
       /\ UNCHANGED <<service, devicesVars, partsVars>>
    \/ /\ service = "devices" /\ DevicesNext
       /\ UNCHANGED <<service, accountsVars, partsVars>>
    \/ /\ service = "records" /\ PartsNext
       /\ UNCHANGED <<service, accountsVars, devicesVars>>

\* The fairness of the service that acts; it says nothing of one that rests.
ServicesSpec ==
    /\ ServicesInit /\ [][ServicesNext]_servicesVars
    /\ DebugFairness /\ AlarmFairness

-----------------------------------------------------------------------------
\* The values the state of each service can take.
ServicesTypeOK == AccountsTypeOK /\ DevicesTypeOK /\ ImportTypeOK
=============================================================================
