--------------------------- MODULE ServicesProofs ---------------------------
(***************************************************************************)
(* Proofs about the services together, MCServices: a behaviour of them is  *)
(* one of the accounts, one of the devices and one of the records, so what *)
(* is proved of each of those holds of it.                                 *)
(***************************************************************************)
EXTENDS MCServices, AccountProofs, DeviceProofs, HardwareProofs

\* A step of the services is a step of each of the three or leaves its state alone.
LEMMA EachServiceActsOrRests ==
    ASSUME [ServicesNext]_servicesVars
    PROVE  /\ [AccountsNext]_accountsVars /\ [DevicesNext]_devicesVars
           /\ [PartsNext]_<<recordsPart, recordsVars>>
BY DEF ServicesNext, servicesVars, partsVars

\* The services together do what each of the three may do.
THEOREM ServicesAreParts ==
    ServicesSpec => AccountsSpec /\ DevicesSpec /\ PartsSpec
BY EachServiceActsOrRests, PTL
   DEF ServicesSpec, ServicesInit, AccountsSpec, DevicesSpec, PartsSpec

\* Whatever service acts, and however the others would, all are safe: what is proved of
\* each of them is true of them together, in every state and of every step.
THEOREM ServicesAreSafe ==
    ServicesSpec =>
        /\ [](/\ ServicesTypeOK
              /\ RedeemedOnce /\ ChangeEndsSessions /\ TransferIsWhole
              /\ ClosureIsTree /\ LimitsDescend
              /\ StoppedIsConfirmed /\ NotifiedOnce /\ ShownAsStored /\ CommittedIsStored
              /\ ClaimedOnce /\ RevisionNamesState /\ DerivedAgrees
              /\ RecordIsAudited /\ WindowIsLawful /\ ImportIsSettled)
        /\ EndedStaysEnded /\ NoLateAccount /\ SessionsMoveForward /\ ParallelForward
<1>1. AccountsTypeOK /\ DevicesTypeOK /\ ImportTypeOK => ServicesTypeOK
  BY DEF ServicesTypeOK
<1> QED
  BY <1>1, ServicesAreParts, AccountsAreSafe, DevicesAreSafe, PartsAreRecords,
     RecordsAreSafe, PTL
=============================================================================
