-------------------------- MODULE OrganizationTree --------------------------
(***************************************************************************)
(* The organizations of one tenant: a manufacturer, agents below it,       *)
(* distributors below those and installers below those. Next to the parent *)
(* of each organization the tables hold the closure, a row for every       *)
(* ancestor with its distance, which authorization and quotas read, and    *)
(* the limit of a quota with the organization it is inherited from.        *)
(*                                                                         *)
(* A call is a transaction of many statements at READ COMMITTED. Creating  *)
(* an organization and moving one read first and write later, with what    *)
(* others commit in between; a move locks nothing before it deletes. The   *)
(* two others write one row. One kind of quota; its usage is never written *)
(* by the program. Names, memberships, the personal organizations of       *)
(* customers and permissions are left out.                                 *)
(***************************************************************************)
EXTENDS Naturals

CONSTANTS
    Root, Agents, Distributors, Installers,   \* organizations, by org_type
    Movers,                                   \* calls of governed_move_org
    MaxLimit                                  \* bound: the default limit, and the largest

\* An organization has one type.
ASSUME TreeAssumption ==
    /\ MaxLimit \in Nat \ {0}
    /\ Root \notin Agents \cup Distributors \cup Installers
    /\ Agents \cap (Distributors \cup Installers) = {} /\ Distributors \cap Installers = {}

Organizations == {Root} \cup Agents \cup Distributors \cup Installers
Limits        == 1 .. MaxLimit

VARIABLES
    standing,   \* standing[o]: "none", "live" or "deleted"
    parent,     \* parent[o], itself for the root
    closure,    \* rows <<ancestor, descendant, depth>>
    limit,      \* limit[o]: quota_limit, 0 if there is no row
    inherited,  \* inherited[o]: inherited_from_organization_id, itself for the root
    creating,   \* the organization that is being created: its row and those it brings
    moving,     \* moving[v]: the move under way, what it has read and the rows it deletes
    moved,      \* organizations that were moved since they were made
    crossed     \* organizations made below one while it was moved, or moved twice at once

treeVars == <<standing, parent, closure, limit, inherited, creating, moving, moved, crossed>>

NoCreation == [org |-> Root, parent |-> Root, rows |-> {}, limit |-> 0, crossed |-> FALSE]
NoMove == [org |-> Root, to |-> Root, levels |-> <<{}, {}, {}>>, doomed |-> {}, late |-> FALSE]

\* ensure_tenant_root has made the manufacturer and its quota.
TreeInit ==
    /\ standing = [o \in Organizations |-> IF o = Root THEN "live" ELSE "none"]
    /\ parent = [o \in Organizations |-> Root]
    /\ closure = {<<Root, Root, 0>>}
    /\ limit = [o \in Organizations |-> IF o = Root THEN MaxLimit ELSE 0]
    /\ inherited = [o \in Organizations |-> Root]
    /\ creating = NoCreation /\ moving = [v \in Movers |-> NoMove]
    /\ moved = {} /\ crossed = {}

IsLive(o) == standing[o] = "live"
Children(o) == {c \in Organizations \ {Root} : IsLive(c) /\ parent[c] = o}

\* validate_org_hierarchy
Fits(o, p) ==
    \/ o \in Agents /\ p = Root
    \/ o \in Distributors /\ p \in Agents
    \/ o \in Installers /\ p \in Distributors

Ancestors(o)   == {r[1] : r \in {q \in closure : q[2] = o /\ q[3] > 0}}
Descendants(o) == {r[2] : r \in {q \in closure : q[1] = o /\ q[3] > 0}}

\* The rows of an organization at depth d below p.
RowsBelow(o, p, d) == {<<r[1], o, r[3] + 1 + d>> : r \in {q \in closure : q[2] = p}}

Smaller(m, n) == IF m < n THEN m ELSE n

-----------------------------------------------------------------------------
\* Create inserts the row, and its triggers the closure; the quota is capped at the
\* parent's. The trigger compares it with every ancestor's: a failure there aborts
\* the transaction.
CreateOrganization(o, p) ==
    /\ creating = NoCreation
    /\ standing[o] = "none" /\ IsLive(p) /\ Fits(o, p)
    /\ LET capped == Smaller(MaxLimit, limit[p]) IN
       /\ \A a \in Ancestors(p) : capped <= limit[a]
       /\ creating' = [org |-> o, parent |-> p, rows |-> RowsBelow(o, p, 0) \cup {<<o, o, 0>>},
                       limit |-> capped, crossed |-> p \in crossed]
    /\ UNCHANGED <<standing, parent, closure, limit, inherited, moving, moved, crossed>>

\* The others see it all when it commits.
CreateCommit ==
    LET n == creating IN
    /\ n # NoCreation
    /\ standing' = [standing EXCEPT ![n.org] = "live"]
    /\ parent' = [parent EXCEPT ![n.org] = n.parent]
    /\ closure' = closure \cup n.rows
    /\ limit' = [limit EXCEPT ![n.org] = n.limit]
    /\ inherited' = [inherited EXCEPT ![n.org] = n.parent]
    /\ crossed' = IF n.crossed THEN crossed \cup {n.org} ELSE crossed
    /\ creating' = NoCreation
    /\ UNCHANGED <<moving, moved>>

\* governed_move_org counts the subtree by parent, deleted organizations left out:
\* an organization is at most two levels below a moved one.
AtDepth(o) == <<{o}, Children(o), UNION {Children(c) : c \in Children(o)}>>
Subtree(o) == UNION {AtDepth(o)[d] : d \in 1 .. 3}
NewRows(levels, p) == UNION {UNION {RowsBelow(m, p, d - 1) : m \in levels[d]} : d \in 1 .. 3}

\* Mutant: the function as migration 070 had it, which deletes the rows inside the
\* subtree too.
OutwardOf070(sub) == {r \in closure : r[2] \in sub}

\* The rows that lead out of a subtree.
Outward(sub) == {r \in closure : r[2] \in sub /\ r[1] \notin sub}

\* Its checks, the temporary table and the snapshot of the DELETE. A parent that is
\* below the organization is of another type than the hierarchy asks for.
MoveRead(v, o, p) ==
    /\ moving[v] = NoMove
    /\ IsLive(o) /\ IsLive(p) /\ o \in Agents \cup Distributors /\ Fits(o, p)
    /\ moving' = [moving EXCEPT ![v] = [org |-> o, to |-> p, levels |-> AtDepth(o),
                                       doomed |-> Outward(Subtree(o)), late |-> FALSE]]
    /\ UNCHANGED <<standing, parent, closure, limit, inherited, creating, moved, crossed>>

\* What a committing move of a distributor leaves wrong: installers made since it read
\* and, if another move of the same distributor has committed since then, all.
Missed(m) ==
    IF m.org \notin Distributors THEN {}
    ELSE IF m.late THEN {m.org} \cup Children(m.org)
    ELSE Children(m.org) \ m.levels[2]

\* The DELETE, which waits for another that deletes the same rows and then passes over
\* them, the UPDATE, whose trigger looks at the parent again, the INSERT and the commit.
\* The depth of a row that is there already is the same.
MoveCommit(v) ==
    LET m == moving[v] IN
    /\ m # NoMove /\ IsLive(m.to)
    /\ parent' = [parent EXCEPT ![m.org] = m.to]
    /\ closure' = (closure \ m.doomed) \cup NewRows(m.levels, m.to)
    /\ moving' = [w \in Movers |->
          IF w = v THEN NoMove
          ELSE [moving[w] EXCEPT !.doomed = @ \ m.doomed, !.late = @ \/ moving[w].org = m.org]]
    /\ moved' = moved \cup {m.org}
    /\ crossed' = crossed \cup Missed(m)
    /\ creating' = IF m.org \in Distributors /\ creating.parent = m.org
                   THEN [creating EXCEPT !.crossed = TRUE] ELSE creating
    /\ UNCHANGED <<standing, limit, inherited>>

\* The parent is gone, or two moves wait for each other's rows.
MoveAborts(v) ==
    /\ moving[v] # NoMove
    /\ moving' = [moving EXCEPT ![v] = NoMove]
    /\ UNCHANGED <<standing, parent, closure, limit, inherited, creating, moved, crossed>>

\* Delete, of the root as well. The row stays, and so do the closure and the quota.
Delete(o) ==
    /\ IsLive(o) /\ Children(o) = {}
    /\ standing' = [standing EXCEPT ![o] = "deleted"]
    /\ UNCHANGED <<parent, closure, limit, inherited, creating, moving, moved, crossed>>

\* Mutant: the trigger does not look at the descendants.
AllowsDescendantsNever(o, l) == TRUE

\* validate_organization_quota_limit: no descendant has more.
AllowsDescendants(o, l) == \A d \in Descendants(o) : limit[d] <= l

\* SetOrgQuota. The trigger runs for the insert, which names the parent, and for the
\* update, which keeps the organization named before: either must be an ancestor. A
\* creation below o holds a lock on the row. Refused or not, the answer is success.
SetOrgQuota(o, l) ==
    /\ IsLive(o) /\ (creating = NoCreation \/ creating.parent # o)
    /\ o # Root => {parent[o], inherited[o]} \subseteq Ancestors(o)
    /\ \A a \in Ancestors(o) : l <= limit[a]
    /\ AllowsDescendants(o, l)
    /\ limit' = [limit EXCEPT ![o] = l]
    /\ UNCHANGED <<standing, parent, closure, inherited, creating, moving, moved, crossed>>

TreeNext ==
    \/ \E o, p \in Organizations : CreateOrganization(o, p)
    \/ CreateCommit
    \/ \E v \in Movers :
          (\E o, p \in Organizations : MoveRead(v, o, p)) \/ MoveCommit(v) \/ MoveAborts(v)
    \/ \E o \in Organizations : Delete(o) \/ \E l \in Limits : SetOrgQuota(o, l)

TreeSpec == TreeInit /\ [][TreeNext]_treeVars

-----------------------------------------------------------------------------
\* The values the state can take: the organizations, the closure, the limits.
TreeTypeOK ==
    /\ standing \in [Organizations -> {"none", "live", "deleted"}]
    /\ parent \in [Organizations -> Organizations] /\ inherited \in [Organizations -> Organizations]
    /\ closure \subseteq Organizations \X Organizations \X (0 .. 3)
    /\ limit \in [Organizations -> 0 .. MaxLimit]
    /\ creating.org \in Organizations /\ creating.parent \in Organizations
    /\ \A v \in Movers : moving[v].org \in Organizations /\ moving[v].to \in Organizations
    /\ moved \subseteq Organizations /\ crossed \subseteq Organizations

\* The closure is the one the parents make: the ancestors of a live organization are
\* its parent and the ancestors of that, each one step further, however whole subtrees
\* were moved to and fro, and however moves of different organizations, above and below
\* each other, overlapped. Not so for one that was being made as an organization above
\* it was moved, and for a distributor of which two moves overlapped: the rows that the
\* first one made stay beside those of the second, for it and for the installers below,
\* although Move (organization_handler.go:728-730) calls the rebuild atomic.
ClosureIsTree ==
    \A o \in Organizations \ {Root} :
        IsLive(o) /\ o \notin crossed =>
            {r \in closure : r[2] = o} = RowsBelow(o, parent[o], 0) \cup {<<o, o, 0>>}

\* An organization that was never moved has no larger limit than its parent, in
\* whatever order the limits of both were set and organizations above them moved.
LimitsDescend ==
    \A o \in Organizations :
        IsLive(o) /\ o \notin moved => limit[o] <= limit[parent[o]]
=============================================================================
