-------------------------- MODULE MCDevicePresence --------------------------
(***************************************************************************)
(* Instances of DevicePresence for TLC, which looks at three kinds of      *)
(* behaviour in one run: "will", of a device that is silent at first and   *)
(* whose will the broker still has when it is heard again; "upset", with a *)
(* restart, a recovery of Redis or a failed post; and "report", of a       *)
(* device that also sends telemetry and information, and whose key expires *)
(* between its reports any number of times, with the second look of the    *)
(* sweep, but without the callbacks of MQTT and samples of an earlier      *)
(* time. The proofs have no such restriction.                              *)
(***************************************************************************)
EXTENDS DevicePresence

VARIABLE kind

KindInit ==
    /\ Init
    /\ kind \in {"will", "upset", "report"} /\ (will <=> kind = "will")

OfReport ==
    \/ info' \/ sweep' = "again"
    \/ \E p \in Parsers : Sample(p)
    \/ mode # "silent" /\ HeartbeatExpires

OfOthers ==
    \/ \E p \in Parsers : Backfill(p)
    \/ \E c \in Callbacks : CallsBack(c)

KindNext ==
    /\ Next /\ UNCHANGED kind
    /\ kind # "upset" => upsets' = upsets
    /\ IF kind = "report" THEN ~OfOthers ELSE ~OfReport

KindSpec == KindInit /\ [][KindNext]_<<vars, kind>> /\ Fairness
=============================================================================
