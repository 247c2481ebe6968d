----------------------------- MODULE DeviceClaim -----------------------------
(***************************************************************************)
(* How a device gets to its user and from one tenant to another. A claim   *)
(* code is a row of device_claim_tokens; whoever presents it claims the    *)
(* device, if its status is 0. A request to transfer the device is a row   *)
(* of device_transfer_requests, decided by the tenant that gives it away.  *)
(* Each call reads first and writes in a transaction of its own.           *)
(*                                                                         *)
(* One device and its tenant. The status is the one of DevicePresence: a   *)
(* claim sets it as a device on line does, and the sweep of silent devices *)
(* sets it back. An approved request changes no owner. Codes that expired, *)
(* who may call what, and devices without a row are left out.              *)
(***************************************************************************)
EXTENDS Naturals

CONSTANTS
    Holders,      \* calls under way, each of a user of its own
    MaxCodes,     \* bound: claim codes made
    MaxAsked      \* bound: transfer requests

ASSUME ClaimAssumption == MaxCodes \in Nat /\ MaxAsked \in Nat

Asked    == 1 .. MaxAsked
Decided  == {"approved", "rejected", "cancelled"}

VARIABLES
    shown,     \* devices.status, 0 or 1
    code,      \* number of the claim code in the row, or 0
    codeState, \* its status
    claims,    \* claims that succeeded since the status last became 0
    asked,     \* asked[r]: status of transfer request r, or "none"
    holder     \* holder[h]: what the call does next, for which request, with which verdict

claimVars == <<shown, code, codeState, claims, asked, holder>>

Idles == [pc |-> "idle", id |-> 0, verdict |-> "none"]

ClaimInit ==
    /\ shown = 0 /\ code = 0 /\ codeState = "unclaimed" /\ claims = 0
    /\ asked = [r \in Asked |-> "none"]
    /\ holder = [h \in Holders |-> Idles]

Stands(h, pc) == holder[h].pc = pc
Turns(h, pc, id, verdict) ==
    holder' = [holder EXCEPT ![h] = [pc |-> pc, id |-> id, verdict |-> verdict]]
Leaves(h) == holder' = [holder EXCEPT ![h] = Idles]

-----------------------------------------------------------------------------
(* Claims.                                                                 *)

\* GenerateClaimCode: the row has one code; a new one opens it again, although the
\* device was claimed.
Generate ==
    /\ code < MaxCodes
    /\ code' = code + 1 /\ codeState' = "unclaimed"
    /\ UNCHANGED <<shown, claims, asked, holder>>

\* ClaimDevice reads the row and finds the code right and unclaimed ...
ClaimRead(h) ==
    /\ Stands(h, "idle") /\ code # 0 /\ codeState = "unclaimed"
    /\ Turns(h, "claim", 0, "none")
    /\ UNCHANGED <<shown, code, codeState, claims, asked>>

\* Mutant: the update of the device has no condition on its status.
ClaimAnyway(h) ==
    /\ Stands(h, "claim") /\ Leaves(h)
    /\ shown' = 1 /\ codeState' = "claimed" /\ claims' = claims + 1
    /\ UNCHANGED <<code, asked>>

\* ... and takes the device if its status is 0. The row is marked whatever code it
\* has by now.
ClaimDevice(h) ==
    /\ Stands(h, "claim") /\ Leaves(h)
    /\ \/ shown = 0 /\ shown' = 1 /\ codeState' = "claimed" /\ claims' = claims + 1
       \/ shown # 0 /\ UNCHANGED <<shown, codeState, claims>>
    /\ UNCHANGED <<code, asked>>

\* DevicePresence: a report of the device, and the sweep of a silent one.
ShowOnline ==
    /\ shown' = 1
    /\ UNCHANGED <<code, codeState, claims, asked, holder>>

ShowOffline ==
    /\ shown = 1 /\ shown' = 0 /\ claims' = 0
    /\ UNCHANGED <<code, codeState, asked, holder>>

-----------------------------------------------------------------------------
(* Transfers.                                                              *)

\* RequestTransfer counts the pending requests of the device ...
AskRead(h) ==
    /\ Stands(h, "idle") /\ \A r \in Asked : asked[r] # "pending"
    /\ Turns(h, "ask", 0, "none")
    /\ UNCHANGED <<shown, code, codeState, claims, asked>>

\* UNIQUE (device_sn, status)
Taken(r, s) == \E k \in Asked \ {r} : asked[k] = s

\* A row to write: the first that is free.
FreeAsked(r) == asked[r] = "none" /\ \A k \in Asked : k < r => asked[k] # "none"

\* ... and inserts one.
Ask(h) ==
    /\ Stands(h, "ask") /\ Leaves(h)
    /\ \E r \in Asked :
          /\ FreeAsked(r)
          /\ asked' = IF Taken(r, "pending") THEN asked ELSE [asked EXCEPT ![r] = "pending"]
    /\ UNCHANGED <<shown, code, codeState, claims>>

\* ApproveTransfer, RejectTransfer and CancelTransfer find the request pending ...
DecideRead(h, r, verdict) ==
    /\ Stands(h, "idle") /\ asked[r] = "pending"
    /\ Turns(h, "decide", r, verdict)
    /\ UNCHANGED <<shown, code, codeState, claims, asked>>

\* ... and write the verdict by id, over another if there is one by now. It fails
\* if the device has a row with that verdict.
DecideRequest(h) ==
    LET q == holder[h] IN
    /\ Stands(h, "decide") /\ Leaves(h)
    /\ asked' = IF Taken(q.id, q.verdict) THEN asked ELSE [asked EXCEPT ![q.id] = q.verdict]
    /\ UNCHANGED <<shown, code, codeState, claims>>

ClaimNext ==
    \/ Generate \/ ShowOnline \/ ShowOffline
    \/ \E h \in Holders :
          \/ ClaimRead(h) \/ ClaimDevice(h) \/ AskRead(h) \/ Ask(h) \/ DecideRequest(h)
          \/ \E r \in Asked, verdict \in Decided : DecideRead(h, r, verdict)

ClaimSpec == ClaimInit /\ [][ClaimNext]_claimVars

-----------------------------------------------------------------------------
\* The values the state can take: the device, its code, the requests, the calls.
ClaimTypeOK ==
    /\ shown \in {0, 1} /\ code \in 0 .. MaxCodes /\ codeState \in {"unclaimed", "claimed"}
    /\ claims \in Nat /\ asked \in [Asked -> Decided \cup {"none", "pending"}]
    /\ holder \in [Holders -> [pc : {"idle", "claim", "ask", "decide"},
                               id : 0 .. MaxAsked, verdict : Decided \cup {"none"}]]

\* Between two times at which the device is set off line it is claimed once at most,
\* by however many users who read its code, or different ones, as unclaimed.
ClaimedOnce == claims <= 1
=============================================================================
