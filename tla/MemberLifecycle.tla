--------------------------- MODULE MemberLifecycle ---------------------------
(***************************************************************************)
(* The memberships of one user: rows of organization_memberships, and the  *)
(* requests to transfer one of them, rows of member_transfer_requests. The *)
(* handlers read outside of their transactions what they decide on, so a   *)
(* call is its reads and then its transaction; a transaction whose         *)
(* statement meets a unique index, a foreign key or a verdict that was     *)
(* given already changes nothing.                                          *)
(*                                                                         *)
(* The organizations are those of one tenant, and the user's own, which a  *)
(* registration or a login makes. A row has a role or none; which roles,   *)
(* the permissions they grant, the caches of them and the expiry of rows   *)
(* are left out, and so are who may call what, and the quota. Deactivating *)
(* and reactivating a member always fail, since the table allows no status *)
(* but active, disabled, expired and revoked.                              *)
(***************************************************************************)
EXTENDS Naturals

CONSTANTS
    Orgs,          \* organizations of the tenant
    Admins,        \* calls under way
    MaxRows,       \* bound: memberships
    MaxTransfers   \* bound: requests for a transfer

ASSUME MemberAssumption ==
    /\ "home" \notin Orgs /\ MaxRows \in Nat /\ MaxTransfers \in Nat

Members   == 1 .. MaxRows
Transfers == 1 .. MaxTransfers
Places    == Orgs \cup {"home"}

VARIABLES
    member,    \* member[m]: organization, status and whether a role refers to it
    personal,  \* the user's own organization exists
    transfer,  \* transfer[r]: the request's membership, from, to and status
    admin      \* admin[a]: what the call does next, and what it read

memberVars == <<member, personal, transfer, admin>>

NoMember   == [org |-> "home", status |-> "none", role |-> FALSE]
NoTransfer == [mem |-> 0, from |-> "home", to |-> "home", status |-> "none"]
NoAdmin    == [pc |-> "idle", id |-> 0, org |-> "home", seen |-> FALSE]

\* A user who registered: a membership of the organization of their own.
MemberInit ==
    /\ member = [m \in Members |-> IF m = 1 THEN [org |-> "home", status |-> "active", role |-> TRUE]
                                            ELSE NoMember]
    /\ personal = TRUE
    /\ transfer = [r \in Transfers |-> NoTransfer]
    /\ admin = [a \in Admins |-> NoAdmin]

Active(m) == member[m].status = "active"
ActiveIn(o) == \E m \in Members : Active(m) /\ member[m].org = o
NoneActive == \A m \in Members : ~Active(m)
Does(a, pc) == admin[a].pc = pc
Proceeds(a, pc, id, o, seen) ==
    admin' = [admin EXCEPT ![a] = [pc |-> pc, id |-> id, org |-> o, seen |-> seen]]
Done(a) == admin' = [admin EXCEPT ![a] = NoAdmin]

\* uq_memberships_active_org_user
Conflicts(o) == ActiveIn(o)

\* The next row to insert.
FreeMember(m) == member[m].status = "none" /\ \A k \in Members : k < m => member[k].status # "none"
Insert(f, m, o, role) == [f EXCEPT ![m] = [org |-> o, status |-> "active", role |-> role]]

-----------------------------------------------------------------------------
(* Joining.                                                                *)

\* AddMember: the user is a member of no organization ...
AddRead(a, o) ==
    /\ Does(a, "idle") /\ NoneActive
    /\ Proceeds(a, "add", 0, o, FALSE)
    /\ UNCHANGED <<member, personal, transfer>>

\* ... and becomes one without a role.
AddCommit(a) ==
    /\ Does(a, "add") /\ Done(a)
    /\ \/ \E m \in Members : /\ FreeMember(m) /\ ~Conflicts(admin[a].org)
                             /\ member' = Insert(member, m, admin[a].org, FALSE)
       \/ Conflicts(admin[a].org) /\ UNCHANGED member
    /\ UNCHANGED <<personal, transfer>>

\* ApproveJoin, in one transaction; a row that is there is used.
ApproveJoin(o) ==
    /\ \/ \E m \in Members : ~ActiveIn(o) /\ FreeMember(m) /\ member' = Insert(member, m, o, TRUE)
       \/ \E m \in Members : /\ Active(m) /\ member[m].org = o
                             /\ member' = [member EXCEPT ![m].role = TRUE]
    /\ UNCHANGED <<personal, transfer, admin>>

\* EnsureUserOrgIdentity, at a login; the user's own organization is made once.
EnsureRead(a) ==
    /\ Does(a, "idle") /\ NoneActive
    /\ Proceeds(a, "ensure", 0, "home", FALSE)
    /\ UNCHANGED <<member, personal, transfer>>

EnsureCommit(a) ==
    /\ Does(a, "ensure") /\ Done(a)
    /\ personal' = TRUE
    /\ \/ ~personal /\ \E m \in Members : FreeMember(m) /\ member' = Insert(member, m, "home", TRUE)
       \/ personal /\ UNCHANGED member
    /\ UNCHANGED transfer

-----------------------------------------------------------------------------
(* Changing and leaving.                                                   *)

\* UpdateMembership to active, by id; other values fail or change no status.
Activate(m) ==
    /\ member[m].status = "revoked" /\ ~Conflicts(member[m].org)
    /\ member' = [member EXCEPT ![m].status = "active"]
    /\ UNCHANGED <<personal, transfer, admin>>

\* RemoveMember; the roles of the row stay.
Remove(m) ==
    /\ Active(m)
    /\ member' = [member EXCEPT ![m].status = "revoked"]
    /\ UNCHANGED <<personal, transfer, admin>>

\* UpdateMemberRole: the row is active and of the tenant ...
RoleRead(a, m, o) ==
    /\ Does(a, "idle") /\ Active(m) /\ member[m].org \in Orgs
    /\ Proceeds(a, "role", m, o, FALSE)
    /\ UNCHANGED <<member, personal, transfer>>

\* ... and is moved by its id, whatever its status is now; the user's other active
\* rows are revoked. It fails on a deleted row, and when it is active beside
\* another of the organization.
RoleCommit(a) ==
    LET m == admin[a].id  o == admin[a].org
        fails == \/ member[m].status = "deleted"
                 \/ Active(m) /\ member[m].org # o /\ Conflicts(o)
    IN /\ Does(a, "role") /\ Done(a)
       /\ member' = IF fails THEN member ELSE
             [k \in Members |-> IF k = m THEN [member[m] EXCEPT !.org = o, !.role = TRUE]
                                ELSE IF Active(k) THEN [member[k] EXCEPT !.status = "revoked"]
                                ELSE member[k]]
       /\ UNCHANGED <<personal, transfer>>

-----------------------------------------------------------------------------
(* Transfers.                                                              *)

\* TransferInitiate: the row is active and has no pending request ...
InitiateRead(a, m, o) ==
    /\ Does(a, "idle") /\ Active(m) /\ member[m].org \in Orgs \ {o}
    /\ \A r \in Transfers : transfer[r].mem = m => transfer[r].status # "pending"
    /\ admin' = [admin EXCEPT ![a] = [pc |-> "initiate", id |-> m, org |-> o, seen |-> FALSE]]
    /\ UNCHANGED <<member, personal, transfer>>

\* ... which nothing but that look ensures.
InitiateCommit(a) ==
    /\ Does(a, "initiate") /\ Done(a)
    /\ \E r \in Transfers :
          /\ transfer[r].status = "none" /\ \A k \in Transfers : k < r => transfer[k].status # "none"
          /\ transfer' = [transfer EXCEPT ![r] =
                [mem |-> admin[a].id, from |-> member[admin[a].id].org, to |-> admin[a].org,
                 status |-> "pending"]]
    /\ UNCHANGED <<member, personal>>

\* TransferAccept: the request is pending, the row active in the source ...
AcceptRead(a, r) ==
    /\ Does(a, "idle") /\ transfer[r].status = "pending"
    /\ Active(transfer[r].mem) /\ member[transfer[r].mem].org = transfer[r].from
    /\ Proceeds(a, "look", r, transfer[r].to, FALSE)
    /\ UNCHANGED <<member, personal, transfer>>

\* ... the target is looked at, outside of the transaction ...
AcceptLook(a) ==
    /\ Does(a, "look")
    /\ Proceeds(a, "accept", admin[a].id, admin[a].org, ActiveIn(admin[a].org))
    /\ UNCHANGED <<member, personal, transfer>>

\* Mutant: the row moves although the verdict was given by another call.
AcceptFailsLess(a) ==
    LET r == admin[a].id  m == transfer[r].mem IN
    \/ member[m].status # "deleted" /\ member[m].role
    \/ ~admin[a].seen /\ Conflicts(admin[a].org)

\* ... and then: a role refers to the row, the user is in the target by now, or the
\* verdict was given.
AcceptFails(a) ==
    LET r == admin[a].id  m == transfer[r].mem IN
    \/ member[m].status # "deleted" /\ member[m].role
    \/ ~admin[a].seen /\ Conflicts(admin[a].org)
    \/ transfer[r].status # "pending"

\* The row is deleted by its id, and a new one inserted unless one was seen.
AcceptCommit(a) ==
    LET r == admin[a].id  m == transfer[r].mem
        gone == [member EXCEPT ![m].status = "deleted"]
    IN /\ Does(a, "accept") /\ Done(a)
       /\ \/ AcceptFails(a) /\ UNCHANGED <<member, transfer>>
          \/ /\ ~AcceptFails(a)
             /\ IF admin[a].seen THEN member' = gone
                ELSE \E k \in Members : FreeMember(k) /\ member' = Insert(gone, k, admin[a].org, FALSE)
             /\ transfer' = IF transfer[r].status = "pending"
                            THEN [transfer EXCEPT ![r].status = "approved"] ELSE transfer
       /\ UNCHANGED personal

\* TransferReject, whose statement looks again at what it read.
Reject(r) ==
    /\ transfer[r].status = "pending"
    /\ transfer' = [transfer EXCEPT ![r].status = "rejected"]
    /\ UNCHANGED <<member, personal, admin>>

MemberNext ==
    \/ \E a \in Admins :
          \/ AddCommit(a) \/ EnsureRead(a) \/ EnsureCommit(a) \/ RoleCommit(a)
          \/ InitiateCommit(a) \/ AcceptLook(a) \/ AcceptCommit(a)
          \/ \E o \in Orgs : AddRead(a, o)
          \/ \E m \in Members, o \in Orgs : RoleRead(a, m, o) \/ InitiateRead(a, m, o)
          \/ \E r \in Transfers : AcceptRead(a, r)
    \/ \E o \in Orgs : ApproveJoin(o)
    \/ \E m \in Members : Activate(m) \/ Remove(m)
    \/ \E r \in Transfers : Reject(r)

MemberSpec == MemberInit /\ [][MemberNext]_memberVars

-----------------------------------------------------------------------------
\* The values the state can take: the rows, the requests and the calls.
MemberTypeOK ==
    /\ member \in [Members -> [org : Places, status : {"none", "active", "revoked", "deleted"},
                               role : BOOLEAN]]
    /\ personal \in BOOLEAN
    /\ transfer \in [Transfers -> [mem : 0 .. MaxRows, from : Places, to : Places,
                                   status : {"none", "pending", "approved", "rejected"}]]
    /\ admin \in [Admins -> [pc : {"idle", "add", "ensure", "role", "initiate", "look", "accept"},
                             id : 0 .. MaxRows + MaxTransfers, org : Places, seen : BOOLEAN]]

\* A transfer is carried out as a whole or not at all: a row is gone exactly if a
\* request for it was approved, although another call may give its verdict, or
\* change the row, between the reads and the transaction.
TransferIsWhole ==
    \A m \in Members :
        member[m].status = "deleted" <=>
            \E r \in Transfers : transfer[r].mem = m /\ transfer[r].status = "approved"
=============================================================================
