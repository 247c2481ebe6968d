----------------------------- MODULE MCAccounts -----------------------------
(***************************************************************************)
(* Instances of the services of users and organizations, which share no    *)
(* state in the models: logins, memberships, invitations and the tree of   *)
(* organizations. A behaviour is one of any of them, while the others stay *)
(* as they began; so one run checks them all.                              *)
(***************************************************************************)
EXTENDS AuthSession, MemberLifecycle, Invitations, OrganizationTree

VARIABLE accountsPart    \* the service that acts; "moves" is the tree with moves at once

accountsVars == <<accountsPart, authVars, memberVars, inviteVars, treeVars>>

AccountsInit ==
    /\ accountsPart \in {"auth", "member", "invite", "tree", "moves"}
    /\ AuthInit /\ MemberInit /\ InviteInit /\ TreeInit

\* Bound: of the calls about memberships two are under way at once only while one of
\* them accepts a transfer, which looks at more than one row before it writes.
Overlaps ==
    (\A a \in Admins : ~Does(a, "idle")) =>
        \E a \in Admins : Does(a, "look") \/ Does(a, "accept")

\* Bound: moves of organizations are under way at once only in a tree in which nothing is
\* deleted and no limit set.
Alone == LET first == CHOOSE v \in Movers : TRUE IN \A v \in Movers \ {first} : moving[v] = NoMove

OnlyGrows ==
    \A o \in Organizations :
        standing[o] # "none" => standing'[o] = standing[o] /\ limit'[o] = limit[o]

AccountsNext ==
    \/ /\ accountsPart = "auth" /\ AuthNext
       /\ UNCHANGED <<accountsPart, memberVars, inviteVars, treeVars>>
    \/ /\ accountsPart = "member" /\ MemberNext /\ Overlaps'
       /\ UNCHANGED <<accountsPart, authVars, inviteVars, treeVars>>
    \/ /\ accountsPart = "invite" /\ InviteNext
       /\ UNCHANGED <<accountsPart, authVars, memberVars, treeVars>>
    \/ /\ \/ accountsPart = "tree" /\ TreeNext /\ Alone'
          \/ accountsPart = "moves" /\ TreeNext /\ OnlyGrows
       /\ UNCHANGED <<accountsPart, authVars, memberVars, inviteVars>>

AccountsSpec == AccountsInit /\ [][AccountsNext]_accountsVars

-----------------------------------------------------------------------------
\* The values the state of each service can take.
AccountsTypeOK == AuthTypeOK /\ MemberTypeOK /\ InviteTypeOK /\ TreeTypeOK
=============================================================================
