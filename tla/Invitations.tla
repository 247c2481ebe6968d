----------------------------- MODULE Invitations -----------------------------
(***************************************************************************)
(* Invitations to an organization, rows of the table invitations. An       *)
(* administrator invites several addresses in one call; whoever has the    *)
(* code of an invitation makes an account with it. A user who has an       *)
(* account may ask to join instead, which is a row of the same table that  *)
(* an administrator of the organization accepts or rejects. Reads come     *)
(* before the transactions that use them.                                  *)
(*                                                                         *)
(* Memberships and roles are those of MemberLifecycle. The quota of        *)
(* pending invitations is read before the transaction and so is no bound;  *)
(* it is left out, with the permissions, the roles and the e-mails.        *)
(***************************************************************************)
EXTENDS Naturals

CONSTANTS
    Hosts,        \* organizations
    Emails,       \* addresses
    Parties,      \* calls under way
    MaxInvites    \* bound: invitations of an address to an organization

ASSUME InviteAssumption == MaxInvites \in Nat

\* An invitation is the n-th of an address to an organization.
Invites == Hosts \X Emails \X (1 .. MaxInvites)
NoOne   == <<"none", "none", 0>>

VARIABLES
    invite,    \* invite[i]: the row's status, whether a user asked for it, whether it is old
    account,   \* account[e]: "none", "invited" or "registered"
    maker,     \* maker[e]: the invitation that made the account of e
    party      \* party[p]: what the call does next, for which row or addresses

inviteVars == <<invite, account, maker, party>>

NoInvite == [status |-> "none", join |-> FALSE, old |-> FALSE]
NoParty  == [pc |-> "idle", row |-> NoOne, org |-> "none", emails |-> {}]

InviteInit ==
    /\ invite = [i \in Invites |-> NoInvite]
    /\ account = [e \in Emails |-> "none"] /\ maker = [e \in Emails |-> NoOne]
    /\ party = [p \in Parties |-> NoParty]

Stage(p, pc) == party[p].pc = pc
Enters(p, pc, i, o, E) ==
    party' = [party EXCEPT ![p] = [pc |-> pc, row |-> i, org |-> o, emails |-> E]]
Quits(p) == party' = [party EXCEPT ![p] = NoParty]

IsPending(i) == invite[i].status = "pending"
Rows(o, e) == {i \in Invites : i[1] = o /\ i[2] = e}
Known(e) == account[e] # "none"

\* uq_invitations_pending_recipient
Invited(o, e) == \E i \in Rows(o, e) : IsPending(i)

\* The row that the next invitation of its address to its organization takes.
IsNext(i) == invite[i].status = "none" /\ \A k \in Rows(i[1], i[2]) : k[3] < i[3] => invite[k].status # "none"

Add(o, E, join) ==
    /\ \A e \in E : \E i \in Rows(o, e) : IsNext(i)
    /\ invite' = [i \in Invites |->
          IF i[1] = o /\ i[2] \in E /\ IsNext(i)
          THEN [status |-> "pending", join |-> join, old |-> FALSE] ELSE invite[i]]

-----------------------------------------------------------------------------
(* Inviting.                                                               *)

\* Create leaves out the addresses that have an account ...
CreateRead(p, o, E) ==
    /\ Stage(p, "idle")
    /\ Enters(p, "create", NoOne, o, {e \in E : ~Known(e)})
    /\ UNCHANGED <<invite, account, maker>>

\* ... and inserts the others in one transaction, which a single duplicate aborts.
Create(p) ==
    /\ Stage(p, "create") /\ Quits(p)
    /\ LET o == party[p].org  E == party[p].emails IN
       \/ (\E e \in E : Invited(o, e)) /\ UNCHANGED invite
       \/ (\A e \in E : ~Invited(o, e)) /\ Add(o, E, FALSE)
    /\ UNCHANGED <<account, maker>>

\* JoinOrg, of a user with an account; its look for a pending row is no guard.
JoinOrg(o, e) ==
    /\ Known(e) /\ ~Invited(o, e)
    /\ Add(o, {e}, TRUE)
    /\ UNCHANGED <<account, maker, party>>

\* ApproveJoin, either way: the pending rows of the user, an invitation included.
AnswerJoin(o, e, verdict) ==
    /\ Known(e) /\ Invited(o, e)
    /\ invite' = [i \in Invites |->
          IF i \in Rows(o, e) /\ IsPending(i)
          THEN [invite[i] EXCEPT !.status = verdict] ELSE invite[i]]
    /\ UNCHANGED <<account, maker, party>>

\* Revoke, whose statement looks for a pending row again.
RevokeInvite(i) ==
    /\ IsPending(i)
    /\ invite' = [invite EXCEPT ![i].status = "revoked"]
    /\ UNCHANGED <<account, maker, party>>

\* Time passes over expires_at, and List marks what is old.
GrowOld(i) ==
    /\ IsPending(i) /\ ~invite[i].old
    /\ invite' = [invite EXCEPT ![i].old = TRUE]
    /\ UNCHANGED <<account, maker, party>>

MarkExpired ==
    /\ invite' = [i \in Invites |-> IF IsPending(i) /\ invite[i].old
                                    THEN [invite[i] EXCEPT !.status = "expired"] ELSE invite[i]]
    /\ UNCHANGED <<account, maker, party>>

-----------------------------------------------------------------------------
(* Accepting.                                                              *)

\* Accept finds the row pending, by the code of an invitation: it goes on, or the
\* row is old.
AcceptFind(p, i) ==
    /\ Stage(p, "idle") /\ IsPending(i) /\ ~invite[i].join
    /\ Enters(p, IF invite[i].old THEN "expire" ELSE "accept", i, "none", {})
    /\ UNCHANGED <<invite, account, maker>>

\* UpdateStatus, by id, whatever the status is now.
AcceptExpires(p) ==
    /\ Stage(p, "expire") /\ Quits(p)
    /\ invite' = [invite EXCEPT ![party[p].row].status = "expired"]
    /\ UNCHANGED <<account, maker>>

\* Mutant: MarkUsed has no condition on the status.
MarkUsedAnyway(i) == invite[i].status # "none"

\* MarkUsed looks for a pending row again.
MarkUsed(i) == IsPending(i)

\* One transaction: the account, its membership, and the mark on the row. It fails
\* if the address has an account by now, or the row is not pending.
Accept(p) ==
    LET i == party[p].row  e == i[2] IN
    /\ Stage(p, "accept") /\ Quits(p)
    /\ \/ (Known(e) \/ ~MarkUsed(i)) /\ UNCHANGED <<invite, account, maker>>
       \/ /\ ~Known(e) /\ MarkUsed(i)
          /\ account' = [account EXCEPT ![e] = "invited"] /\ maker' = [maker EXCEPT ![e] = i]
          /\ invite' = [invite EXCEPT ![i].status = "accepted"]

\* A registration without an invitation.
RegisterUser(e) ==
    /\ ~Known(e)
    /\ account' = [account EXCEPT ![e] = "registered"]
    /\ UNCHANGED <<invite, maker, party>>

InviteNext ==
    \/ \E p \in Parties :
          \/ Create(p) \/ AcceptExpires(p) \/ Accept(p)
          \/ \E o \in Hosts, E \in SUBSET Emails : E # {} /\ CreateRead(p, o, E)
          \/ \E i \in Invites : AcceptFind(p, i)
    \/ \E o \in Hosts, e \in Emails :
          JoinOrg(o, e) \/ \E verdict \in {"accepted", "rejected"} : AnswerJoin(o, e, verdict)
    \/ \E i \in Invites : RevokeInvite(i) \/ GrowOld(i)
    \/ MarkExpired
    \/ \E e \in Emails : RegisterUser(e)

InviteSpec == InviteInit /\ [][InviteNext]_inviteVars

-----------------------------------------------------------------------------
\* The values the state can take: the rows, the accounts and the calls.
InviteTypeOK ==
    /\ invite \in [Invites -> [status : {"none", "pending", "accepted", "rejected", "revoked", "expired"},
                               join : BOOLEAN, old : BOOLEAN]]
    /\ account \in [Emails -> {"none", "invited", "registered"}]
    /\ maker \in [Emails -> Invites \cup {NoOne}]
    /\ party \in [Parties -> [pc : {"idle", "create", "accept", "expire"}, row : Invites \cup {NoOne},
                               org : Hosts \cup {"none"}, emails : SUBSET Emails]]

\* An account comes of an invitation that is pending at that moment, and not of one
\* that was revoked, rejected or expired while its code was being accepted.
NoLateAccount ==
    [][\A e \in Emails : maker'[e] # maker[e] => IsPending(maker'[e])]_inviteVars
=============================================================================
