--------------------------- MODULE DeviceBinding ---------------------------
(***************************************************************************)
(* Who owns a device, and what the device is told of it. The owner is a    *)
(* column of the row in devices. Calls of the business-api read the row    *)
(* first and write it later, each statement on its own. A trigger counts   *)
(* the changes in binding_state_revisions, a table that outlives the row.  *)
(* A device asks whether it is bound; one worker of the device server      *)
(* reads state and revision in one statement, signs and publishes them.    *)
(* The device keeps the answer with the highest revision: answers may come *)
(* late and twice.                                                         *)
(*                                                                         *)
(* One device. Stations, keys and PINs are left out. The responder answers *)
(* only while the trigger is installed: the order its manual prescribes.   *)
(***************************************************************************)
EXTENDS Integers

CONSTANTS
    Clerks,         \* calls of the business-api under way
    Owners,         \* users
    MaxRevision     \* bound: changes of the row

ASSUME BindingAssumption == MaxRevision \in Nat /\ "nobody" \notin Owners

VARIABLES
    row,        \* the row of devices: is it there, its user_id, deleted_at
    revision,   \* binding_state_revisions.revision, 0 without a row
    phase,      \* the trigger: "off", "migrating" or "on"
    asking,     \* a pending row of device_unbind_requests
    clerk,      \* clerk[k]: what the call does next, for which user
    told        \* an answer that was published, the last one

bindingVars == <<row, revision, phase, asking, clerk, told>>

NoRow    == [there |-> FALSE, owner |-> "nobody", deleted |-> FALSE]
FreshRow == [there |-> TRUE,  owner |-> "nobody", deleted |-> FALSE]
NoAnswer == [revision |-> -1, state |-> "none", owner |-> "nobody"]
NoClerk  == [pc |-> "idle", user |-> "nobody"]

BindingInit ==
    /\ row = NoRow /\ revision = 0 /\ phase = "off"
    /\ asking = FALSE /\ clerk = [k \in Clerks |-> NoClerk]
    /\ told = NoAnswer

-----------------------------------------------------------------------------
(* The row and its trigger.                                                *)

\* GetBySN: a deleted device is not found.
Visible == row.there /\ ~row.deleted

\* A statement on the row, with the trigger if it is installed: it counts a row that
\* appears or goes, or gets another owner or time of deletion. "again" tells that
\* deleted_at gets a new time although it had one.
Writes(new, again) ==
    /\ row' = new
    /\ IF phase = "on" /\ (new # row \/ again)
       THEN revision < MaxRevision /\ revision' = revision + 1
       ELSE UNCHANGED revision

Resumes(k, pc, u) == clerk' = [clerk EXCEPT ![k] = [pc |-> pc, user |-> u]]
Closes(k) == clerk' = [clerk EXCEPT ![k] = NoClerk]

\* The call has read what it needs and goes on, or it is refused.
Sees(k, from, ok, pc, u) ==
    /\ clerk[k].pc = from
    /\ IF ok THEN Resumes(k, pc, u) ELSE Closes(k)
    /\ UNCHANGED <<row, revision, phase, asking, told>>

\* The call writes the row and ends, or goes on.
Stores(k, from, new, again, pc) ==
    /\ clerk[k].pc = from
    /\ Writes(new, again)
    /\ clerk' = [clerk EXCEPT ![k] = IF pc = "idle" THEN NoClerk ELSE [@ EXCEPT !.pc = pc]]
    /\ UNCHANGED <<phase, asking, told>>

\* UPDATE devices ... WHERE sn: nothing without a row.
Set(owner) == IF row.there THEN [row EXCEPT !.owner = owner] ELSE row

-----------------------------------------------------------------------------
(* The calls of the business-api.                                          *)

\* Bind and ImportExcel read the device; one that is not found is made first.
BindRead(k, u) ==
    /\ ~Visible \/ row.owner = "nobody"
    /\ Sees(k, "idle", TRUE, IF Visible THEN "bind" ELSE "ensure", u)

\* EnsureDevice: a deleted row is revived with the owner it had.
EnsureDevice(k) ==
    Stores(k, "ensure",
           IF row.there THEN [row EXCEPT !.deleted = FALSE] ELSE FreshRow, FALSE, "reread")

BindReread(k) ==
    Sees(k, "reread", Visible /\ row.owner = "nobody", "bind", clerk[k].user)

\* Bind: WHERE sn = $4 AND user_id = 0, deleted or not.
Bind(k) ==
    Stores(k, "bind",
           IF row.owner = "nobody" THEN Set(clerk[k].user) ELSE row, FALSE, "idle")

\* Unbind, RequestUnbind and DeleteDevice let the owner, or an administrator, go on.
OwnRead(k, pc) == Visible /\ Sees(k, "idle", TRUE, pc, "nobody")

Unbind(k) == Stores(k, "unbind", Set("nobody"), FALSE, "idle")

DeleteDevice(k) ==
    Stores(k, "delete",
           IF row.there THEN [row EXCEPT !.deleted = TRUE] ELSE row, row.there, "idle")

\* RequestUnbind: one pending request of a device, by a partial unique index.
RequestUnbind(k) ==
    /\ clerk[k].pc = "request" /\ Closes(k)
    /\ asking' = TRUE
    /\ UNCHANGED <<row, revision, phase, told>>

\* ApproveUnbind decides the request in one statement and unlinks the device in another,
\* as Unbind does, whoever owns it by then. An error of that one is ignored.
ApproveUnbind(k) ==
    /\ clerk[k].pc = "idle" /\ asking
    /\ asking' = FALSE /\ Resumes(k, "unbind", "nobody")
    /\ UNCHANGED <<row, revision, phase, told>>

RejectUnbind ==
    /\ asking /\ asking' = FALSE
    /\ UNCHANGED <<row, revision, phase, clerk, told>>

\* Create: refused if the device is found; a deleted row starts anew.
RegisterRead(k) == ~Visible /\ Sees(k, "idle", TRUE, "create", "nobody")
CreateDevice(k) ==
    Stores(k, "create", IF Visible THEN row ELSE FreshRow, FALSE, "idle")

\* A statement fails, or the process restarts.
ClerkFails(k) ==
    /\ clerk[k].pc # "idle"
    /\ Sees(k, clerk[k].pc, FALSE, "idle", "nobody")

\* Assign: the station of the device gets another owner, and its devices with it.
AssignStation(u) ==
    /\ Visible /\ Writes(Set(u), FALSE)
    /\ UNCHANGED <<phase, asking, clerk, told>>

\* InternalDeviceInfo: a device that reports itself gets a row; one that has a row
\* keeps owner and deletion.
Appear ==
    /\ ~row.there /\ Writes(FreshRow, FALSE)
    /\ UNCHANGED <<phase, asking, clerk, told>>

\* Raw SQL of an administrator.
Purge ==
    /\ row.there /\ Writes(NoRow, FALSE)
    /\ UNCHANGED <<phase, asking, clerk, told>>

-----------------------------------------------------------------------------
(* The migration and the responder.                                        *)

\* Mutant: counters that were kept are not advanced.
AdvancedKept == IF revision > 0 THEN revision ELSE IF row.there THEN 1 ELSE 0

\* The counters that were kept are advanced, rows without one get theirs ...
Advanced == IF revision > 0 THEN revision + 1 ELSE IF row.there THEN 1 ELSE 0

MigrateCounters ==
    /\ phase = "off" /\ revision < MaxRevision
    /\ phase' = "migrating" /\ revision' = Advanced
    /\ UNCHANGED <<row, asking, clerk, told>>

\* ... and the trigger follows, in the same transaction: until it locks the table, calls
\* change rows uncounted.
MigrateTrigger ==
    /\ phase = "migrating" /\ phase' = "on"
    /\ UNCHANGED <<row, revision, asking, clerk, told>>

\* The down migration drops the trigger and keeps the counters.
RollBack ==
    /\ phase = "on" /\ phase' = "off"
    /\ UNCHANGED <<row, revision, asking, clerk, told>>

BindingState ==
    IF ~Visible THEN "UNKNOWN" ELSE IF row.owner = "nobody" THEN "UNBOUND" ELSE "BOUND"

\* SignBindingState: without a counter nothing but UNKNOWN is signed.
Signable == revision > 0 \/ BindingState = "UNKNOWN"

\* BindingSnapshot, one statement. The owner is no part of the answer; it is kept to
\* state what the revision stands for.
Snapshot == [revision |-> revision, state |-> BindingState,
             owner |-> IF BindingState = "BOUND" THEN row.owner ELSE "nobody"]

\* A query that finds the queue full, or the database or the broker away, has no answer;
\* the device asks again.
Respond ==
    /\ phase = "on" /\ Signable
    /\ told' = Snapshot
    /\ UNCHANGED <<row, revision, phase, asking, clerk>>

-----------------------------------------------------------------------------
BindingNext ==
    \/ \E k \in Clerks :
          \/ \E u \in Owners : BindRead(k, u)
          \/ \E pc \in {"unbind", "request", "delete"} : OwnRead(k, pc)
          \/ EnsureDevice(k) \/ BindReread(k) \/ Bind(k)
          \/ Unbind(k) \/ DeleteDevice(k) \/ RequestUnbind(k)
          \/ ApproveUnbind(k) \/ RegisterRead(k) \/ CreateDevice(k) \/ ClerkFails(k)
    \/ \E u \in Owners : AssignStation(u)
    \/ RejectUnbind \/ Appear \/ Purge
    \/ MigrateCounters \/ MigrateTrigger \/ RollBack
    \/ Respond

BindingSpec == BindingInit /\ [][BindingNext]_bindingVars

-----------------------------------------------------------------------------
BindingTypeOK ==
    /\ row \in [there : BOOLEAN, owner : Owners \cup {"nobody"}, deleted : BOOLEAN]
    /\ revision \in 0 .. MaxRevision
    /\ phase \in {"off", "migrating", "on"}
    /\ asking \in BOOLEAN
    /\ clerk \in [Clerks -> [pc : {"idle", "ensure", "reread", "bind", "unbind", "request",
                                   "delete", "create"},
                             user : Owners \cup {"nobody"}]]
    /\ told \in [revision : -1 .. MaxRevision,
                 state : {"none", "UNKNOWN", "UNBOUND", "BOUND"},
                 owner : Owners \cup {"nobody"}]

\* A revision names one state of the binding: an answer the device has is older than
\* the present state by its revision, or is the answer it would get now. So a device
\* that keeps the highest revision ends with the state of the database, whatever was
\* lost, late or doubled, across deletions, new rows and a rollback of the trigger
\* (record_device_binding_revision, SignBindingState).
RevisionNamesState ==
    told # NoAnswer =>
        /\ told.revision <= revision
        /\ (phase = "on" /\ told.revision = revision /\ Signable) => told = Snapshot
=============================================================================
