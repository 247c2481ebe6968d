---------------------------- MODULE CommandLedger ----------------------------
(***************************************************************************)
(* What device_commands promises of each command of a device: its status   *)
(* only moves forward; what it says of the device, the device said; and    *)
(* what is closed stays closed. A command that was submitted may still     *)
(* become a success, by a confirmation that names its stage. Only a        *)
(* command nothing is known of but that it was sent can fail without a     *)
(* word of the device: one that was just recorded, or a stop of a debug    *)
(* session that was sent before and could not be sent again.               *)
(***************************************************************************)
EXTENDS Naturals

CONSTANT Commands

VARIABLES status,  \* status[c] in device_commands, "none" before it is recorded
          stops,   \* the commands that may be sent again
          said     \* said[c]: the replies the device gave to c

ledger == <<status, stops, said>>

\* The status each reply of a device stands for.
Means == [acknowledged |-> "acknowledged", executing |-> "executing", submitted |-> "submitted",
          applied |-> "success", ok |-> "success", failed |-> "failed"]

Rank == [none |-> 0, pending |-> 1, queued |-> 2, sent |-> 2, acknowledged |-> 3,
         executing |-> 4, submitted |-> 5, success |-> 6, failed |-> 6]

Init == status = [c \in Commands |-> "none"] /\ stops = {} /\ said = [c \in Commands |-> {}]

Become(c, st) == status' = [status EXCEPT ![c] = st] /\ UNCHANGED said

Create(c)    == status[c] = "none" /\ Become(c, "pending") /\ stops' \in {stops, stops \cup {c}}
Transport(c) == status[c] = "pending" /\ \E st \in {"queued", "sent", "failed"} : Become(c, st)
                                      /\ UNCHANGED stops
FailAgain(c) == status[c] = "sent" /\ c \in stops /\ Become(c, "failed") /\ UNCHANGED stops
Hear(c)      == \E r \in said[c] : /\ Rank[status[c]] < Rank[Means[r]]
                                   /\ status[c] = "submitted" => r = "applied"
                                   /\ Become(c, Means[r]) /\ UNCHANGED stops

\* A device speaks of commands it was sent, and never of one both well and badly.
Speak(c) == \E r \in DOMAIN Means :
    /\ status[c] # "none"
    /\ r = "failed" => said[c] \cap {"applied", "ok"} = {}
    /\ r \in {"applied", "ok"} => "failed" \notin said[c]
    /\ said' = [said EXCEPT ![c] = @ \cup {r}]
    /\ UNCHANGED <<status, stops>>

Next == \E c \in Commands : Create(c) \/ Transport(c) \/ FailAgain(c) \/ Hear(c) \/ Speak(c)

Spec == Init /\ [][Next]_ledger
=============================================================================
