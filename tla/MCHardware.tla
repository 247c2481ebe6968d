----------------------------- MODULE MCHardware -----------------------------
(***************************************************************************)
(* The records of hardware with all that writes them: administrators,      *)
(* reports, firmware and windows, and the import of a file. TLC looks at   *)
(* the behaviours without the import and at those without the windows, one *)
(* after the other in one run; with both at once there are too many.       *)
(***************************************************************************)
EXTENDS HardwareImport

recordsVars == <<hardwareVars, importVars>>

RecordsNext ==
    \/ HardwareNext /\ UNCHANGED importVars
    \/ ImportNext

RecordsSpec == ImportInit /\ [][RecordsNext]_recordsVars

-----------------------------------------------------------------------------
VARIABLE recordsPart    \* what happens to the records beside what administrators do

PartsInit == recordsPart \in {"windows", "import"} /\ ImportInit

PartsNext ==
    \/ /\ recordsPart = "windows" /\ HardwareNext
       /\ UNCHANGED <<recordsPart, importVars>>
    \/ /\ recordsPart = "import" /\ ImportNext
       /\ UNCHANGED recordsPart

PartsSpec == PartsInit /\ [][PartsNext]_<<recordsPart, recordsVars>>
=============================================================================
