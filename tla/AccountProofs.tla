---------------------------- MODULE AccountProofs ----------------------------
(***************************************************************************)
(* The proofs about the accounts of users: their logins (AuthSession),     *)
(* their memberships (MemberLifecycle), how they are invited               *)
(* (Invitations), and the tree of the organizations they are members of    *)
(* (OrganizationTree), for any number of requests, sessions, rows, calls   *)
(* and organizations.                                                      *)
(***************************************************************************)
EXTENDS MCAccounts, FiniteSetTheorems, TLAPS

-----------------------------------------------------------------------------
(* Logins: types.                                                          *)

AuthPcs == {"idle", "store", "resolve", "swap", "revoke", "cut", "scan", "delete"}

AuthRequest ==
    [pc : AuthPcs, sid : 0 .. MaxSessions, from : 0 .. MaxTokens, ver : 0 .. MaxVersion,
     acc : 0 .. MaxVersion, iat : 0 .. MaxSeconds, keys : SUBSET Sids]

\* What a request has read, once it has read it.
RequestsHaveRead == \A c \in Clients :
    /\ request[c].pc \in {"store", "resolve", "swap", "revoke"} => request[c].sid \in Sids
    /\ request[c].pc \in {"store", "resolve", "swap", "cut", "scan", "delete"} =>
          request[c].ver \in Versions
    /\ request[c].pc \in {"store", "swap"} =>
          request[c].acc \in Versions /\ request[c].iat \in Seconds

\* The tokens are numbered in the order in which they were given out.
TokensNumbered ==
    /\ IsFiniteSet(tokens)
    /\ \A t \in tokens : t.n <= Cardinality(tokens)
    /\ \A t, u \in tokens : t.n = u.n => t = u

AuthTyped ==
    /\ AuthTypeOK /\ current \in [Sids -> 0 .. MaxTokens]
    /\ RequestsHaveRead /\ TokensNumbered

\* Nobody is logged in at first.
LEMMA AuthTypedInit == AuthInit => AuthTyped
  <1>. SUFFICES ASSUME AuthInit PROVE AuthTyped
    OBVIOUS
  <1>. USE DEF AuthInit
  <1>1. NoRequest \in AuthRequest
    BY AuthAssumption DEF NoRequest, AuthRequest, AuthPcs, AuthAssumption
  <1>2. AuthTypeOK
    BY <1>1, AuthAssumption
    DEF AuthTypeOK, AuthRequest, AuthPcs, AuthAssumption, Versions, Seconds
  <1>3. current \in [Sids -> 0 .. MaxTokens]
    BY AuthAssumption DEF AuthAssumption
  <1>4. RequestsHaveRead
    BY DEF RequestsHaveRead, NoRequest
  <1>5. TokensNumbered
    BY FS_EmptySet DEF TokensNumbered
  <1>. QED BY <1>2, <1>3, <1>4, <1>5 DEF AuthTyped

\* The token that is given out next has a number that no other has, and the set of
\* tokens stays numbered.
LEMMA GiveNumbers ==
    ASSUME AuthTyped, NEW c \in Clients, request[c].pc \in {"store", "swap"}, Give(c)
    PROVE  /\ Cardinality(tokens) \in Nat
           /\ tokens' \subseteq Tokens /\ access' \subseteq Access
           /\ current' \in [Sids -> 0 .. MaxTokens]
           /\ \A s \in Sids : current'[s] # 0 => \E t \in tokens' : t.n = current'[s] /\ t.sid = s
           /\ TokensNumbered'
  <1>. DEFINE n == Cardinality(tokens) + 1
              q == request[c]
              t0 == [n |-> n, sid |-> q.sid, ver |-> q.ver, from |-> q.from]
              a0 == [n |-> n, sid |-> q.sid, ver |-> q.acc, iat |-> q.iat]
  <1>1. Cardinality(tokens) \in Nat
    BY FS_CardinalityType DEF AuthTyped, TokensNumbered
  <1>2. q.sid \in Sids /\ q.ver \in Versions /\ q.acc \in Versions /\ q.iat \in Seconds
    BY DEF AuthTyped, RequestsHaveRead
  <1>3. q.from \in 0 .. MaxTokens
    BY DEF AuthTyped, AuthTypeOK
  <1>4. n \in 1 .. MaxTokens
    BY <1>1, AuthAssumption DEF Give, AuthAssumption
  <1>5. t0 \in Tokens /\ a0 \in Access
    BY <1>2, <1>3, <1>4 DEF Tokens, Access
  <1>6. tokens' = tokens \cup {t0} /\ access' = access \cup {a0}
        /\ current' = [current EXCEPT ![q.sid] = n]
    BY DEF Give
  <1>7. tokens' \subseteq Tokens /\ access' \subseteq Access
    BY <1>5, <1>6 DEF AuthTyped, AuthTypeOK
  <1>8. current' \in [Sids -> 0 .. MaxTokens]
    <2>1. n \in 0 .. MaxTokens
      BY <1>4
    <2>2. current \in [Sids -> 0 .. MaxTokens]
      BY DEF AuthTyped
    <2>3. current' = [current EXCEPT ![q.sid] = n]
      BY <1>6
    <2>. HIDE DEF n, q
    <2>. QED BY <2>1, <2>2, <2>3
  <1>9. \A s \in Sids : current'[s] # 0 => \E t \in tokens' : t.n = current'[s] /\ t.sid = s
    <2>1. current \in [Sids -> 0 .. MaxTokens] /\ t0.n = n /\ t0.sid = q.sid /\ t0 \in tokens'
      BY <1>6 DEF AuthTyped
    <2>2. current'[q.sid] = n /\ \A s \in Sids \ {q.sid} : current'[s] = current[s]
      BY <1>2, <1>6, <2>1
    <2>3. \A s \in Sids : current[s] # 0 => \E t \in tokens' : t.n = current[s] /\ t.sid = s
      BY <1>6 DEF AuthTyped, AuthTypeOK
    <2>. HIDE DEF n, q, t0
    <2>. QED BY <2>1, <2>2, <2>3
  <1>10. t0 \notin tokens
    BY <1>1 DEF AuthTyped, TokensNumbered
  <1>11. IsFiniteSet(tokens') /\ Cardinality(tokens') = n
    BY <1>6, <1>10, FS_AddElement DEF AuthTyped, TokensNumbered
  <1>12. \A t \in tokens : t.n \in Nat
    BY DEF AuthTyped, AuthTypeOK, Tokens
  <1>13. TokensNumbered'
    <2>1. \A t \in tokens' : t.n <= n
      BY <1>1, <1>6, <1>12 DEF AuthTyped, TokensNumbered
    <2>2. \A t, u \in tokens' : t.n = u.n => t = u
      BY <1>1, <1>6, <1>12 DEF AuthTyped, TokensNumbered
    <2>. QED BY <1>11, <2>1, <2>2 DEF TokensNumbered
  <1>. QED BY <1>1, <1>7, <1>8, <1>9, <1>13

\* Request c goes on with these values, and no other request moves.
Moved(c, pc, sid, from, ver, acc, iat, keys) ==
    /\ request' \in [Clients -> AuthRequest]
    /\ request'[c].pc = pc /\ request'[c].sid = sid /\ request'[c].from = from
    /\ request'[c].ver = ver /\ request'[c].acc = acc /\ request'[c].iat = iat
    /\ request'[c].keys = keys
    /\ \A d \in Clients \ {c} : request'[d] = request[d]

\* A request ends.
LEMMA AnswersMoves ==
    ASSUME AuthTyped, NEW c \in Clients, Answers(c)
    PROVE  Moved(c, "idle", 0, 0, 0, 0, 0, {})
  BY AuthAssumption
  DEF AuthTyped, AuthTypeOK, AuthAssumption, Answers, NoRequest, Moved, AuthRequest, AuthPcs

\* What each step of a request makes of it.
LEMMA RequestMoves ==
    ASSUME AuthTyped, NEW c \in Clients
    PROVE  /\ LoginResolve(c) => Moved(c, "store", logins + 1, 0, version, version, second, {})
           /\ \A t \in tokens :
                 /\ RefreshCheck(c, t) => Moved(c, "resolve", t.sid, t.n, version, 0, 0, {})
                 /\ ContextResolve(c, t) =>
                       Moved(c, "swap", t.sid, t.n, version, version, second, {})
           /\ RefreshResolve(c) => \E v \in Versions :
                 Moved(c, "swap", request[c].sid, request[c].from, request[c].ver, v, second,
                       request[c].keys)
           /\ \A a \in access : Logout(c, a) => Moved(c, "revoke", a.sid, 0, 0, 0, 0, {})
           /\ ChangePassword(c) => Moved(c, "cut", 0, 0, version + 1, 0, 0, {})
           /\ RevokeCut(c) =>
                 Moved(c, "scan", request[c].sid, request[c].from, request[c].ver,
                       request[c].acc, request[c].iat, request[c].keys)
           /\ RevokeScan(c) =>
                 Moved(c, "delete", request[c].sid, request[c].from, request[c].ver,
                       request[c].acc, request[c].iat, {s \in Sids : current[s] # 0})
  <1>1. request \in [Clients -> AuthRequest] /\ NoRequest \in AuthRequest
    BY AuthAssumption
    DEF AuthTyped, AuthTypeOK, AuthRequest, AuthPcs, NoRequest, AuthAssumption
  <1>2. /\ NoRequest.sid = 0 /\ NoRequest.from = 0 /\ NoRequest.ver = 0 /\ NoRequest.acc = 0
        /\ NoRequest.iat = 0 /\ NoRequest.keys = {}
    BY DEF NoRequest
  <1>3. /\ MaxSessions \in Nat /\ MaxTokens \in Nat /\ MaxVersion \in Nat /\ MaxSeconds \in Nat
        /\ version \in 1 .. MaxVersion /\ second \in 1 .. MaxSeconds /\ logins \in 0 .. MaxSessions
        /\ version \in 0 .. MaxVersion /\ second \in 0 .. MaxSeconds
        /\ 0 \in 0 .. MaxVersion /\ 0 \in 0 .. MaxSeconds /\ 0 \in 0 .. MaxTokens
    BY AuthAssumption DEF AuthTyped, AuthTypeOK, Versions, Seconds, AuthAssumption
  <1>4. \A t \in tokens : t.sid \in 0 .. MaxSessions /\ t.n \in 0 .. MaxTokens
    <2>1. \A t \in tokens : t.sid \in 1 .. MaxSessions /\ t.n \in 1 .. MaxTokens
      BY DEF AuthTyped, AuthTypeOK, Tokens, Sids
    <2>. QED BY <1>3, <2>1
  <1>5. \A a \in access : a.sid \in 0 .. MaxSessions
    BY <1>3 DEF AuthTyped, AuthTypeOK, Access, Sids
  <1>. USE <1>1, <1>2, <1>3 DEF Moved, AuthRequest, AuthPcs
  <1>6. ASSUME LoginResolve(c)
        PROVE  Moved(c, "store", logins + 1, 0, version, version, second, {})
    <2>1. logins + 1 \in 0 .. MaxSessions
      BY <1>6 DEF LoginResolve
    <2>. QED BY <1>6, <2>1 DEF LoginResolve
  <1>7. ASSUME NEW t \in tokens
        PROVE  /\ RefreshCheck(c, t) => Moved(c, "resolve", t.sid, t.n, version, 0, 0, {})
               /\ ContextResolve(c, t) =>
                     Moved(c, "swap", t.sid, t.n, version, version, second, {})
    <2>. DEFINE n == t.n
                sid == t.sid
    <2>1. sid \in 0 .. MaxSessions /\ n \in 0 .. MaxTokens
      BY <1>4
    <2>. DEFINE x == [NoRequest EXCEPT !.pc = "resolve", !.sid = sid, !.from = n, !.ver = version]
                y == [NoRequest EXCEPT !.pc = "swap", !.sid = sid, !.from = n, !.ver = version,
                                       !.acc = version, !.iat = second]
    <2>2. /\ RefreshCheck(c, t) => request' = [request EXCEPT ![c] = x]
          /\ ContextResolve(c, t) => request' = [request EXCEPT ![c] = y]
      BY DEF RefreshCheck, ContextResolve
    <2>. HIDE DEF n, sid
    <2>3. /\ x \in AuthRequest /\ x.pc = "resolve" /\ x.sid = sid /\ x.from = n /\ x.ver = version
          /\ x.acc = 0 /\ x.iat = 0 /\ x.keys = {}
      BY <2>1
    <2>4. /\ y \in AuthRequest /\ y.pc = "swap" /\ y.sid = sid /\ y.from = n /\ y.ver = version
          /\ y.acc = version /\ y.iat = second /\ y.keys = {}
      BY <2>1
    <2>. HIDE DEF x, y
    <2>5. RefreshCheck(c, t) => Moved(c, "resolve", sid, n, version, 0, 0, {})
      BY <2>2, <2>3
    <2>6. ContextResolve(c, t) => Moved(c, "swap", sid, n, version, version, second, {})
      BY <2>2, <2>4
    <2>. QED BY <2>5, <2>6 DEF n, sid
  <1>8. ASSUME RefreshResolve(c)
        PROVE  \E v \in Versions :
                 Moved(c, "swap", request[c].sid, request[c].from, request[c].ver, v, second,
                       request[c].keys)
    <2>1. PICK v \in {request[c].ver} \cup (IF enabled THEN {version} ELSE {}) :
             request' = [request EXCEPT ![c].pc = "swap", ![c].acc = v, ![c].iat = second]
      BY <1>8 DEF RefreshResolve
    <2>2. v \in Versions
      BY <1>8, <2>1 DEF RefreshResolve, AuthTyped, RequestsHaveRead, Versions, Asks
    <2>3. v \in 0 .. MaxVersion
      BY <2>2 DEF Versions
    <2>4. Moved(c, "swap", request[c].sid, request[c].from, request[c].ver, v, second,
                request[c].keys)
      BY <2>1, <2>3
    <2>. QED BY <2>2, <2>4
  <1>9. ASSUME NEW a \in access, Logout(c, a) PROVE Moved(c, "revoke", a.sid, 0, 0, 0, 0, {})
    <2>. DEFINE sid == a.sid
    <2>1. sid \in 0 .. MaxSessions
      BY <1>5
    <2>2. request' = [request EXCEPT ![c] = [NoRequest EXCEPT !.pc = "revoke", !.sid = sid]]
      BY <1>9 DEF Logout
    <2>. HIDE DEF sid
    <2>3. Moved(c, "revoke", sid, 0, 0, 0, 0, {})
      BY <2>1, <2>2
    <2>. QED BY <2>3 DEF sid
  <1>10. ASSUME ChangePassword(c) PROVE Moved(c, "cut", 0, 0, version + 1, 0, 0, {})
    <2>1. version + 1 \in 0 .. MaxVersion
      BY <1>10 DEF ChangePassword
    <2>. QED BY <1>10, <2>1 DEF ChangePassword
  <1>11. RevokeCut(c) => Moved(c, "scan", request[c].sid, request[c].from, request[c].ver,
                               request[c].acc, request[c].iat, request[c].keys)
    BY DEF RevokeCut
  <1>12. RevokeScan(c) => Moved(c, "delete", request[c].sid, request[c].from, request[c].ver,
                                request[c].acc, request[c].iat, {s \in Sids : current[s] # 0})
    <2>. DEFINE keys == {s \in Sids : current[s] # 0}
    <2>1. keys \in SUBSET Sids
      OBVIOUS
    <2>2. RevokeScan(c) => request' = [request EXCEPT ![c].pc = "delete", ![c].keys = keys]
      BY DEF RevokeScan
    <2>. HIDE DEF keys
    <2>3. RevokeScan(c) => Moved(c, "delete", request[c].sid, request[c].from, request[c].ver,
                                 request[c].acc, request[c].iat, keys)
      BY <2>1, <2>2
    <2>. QED BY <2>3 DEF keys
  <1>. QED
    BY <1>6, <1>7, <1>8, <1>9, <1>10, <1>11, <1>12

\* A request that has read what its next step needs keeps the types of all requests.
LEMMA MovedReads ==
    ASSUME AuthTyped, NEW c \in Clients, NEW pc, NEW sid, NEW from, NEW ver, NEW acc, NEW iat,
           NEW keys, Moved(c, pc, sid, from, ver, acc, iat, keys),
           pc \in {"store", "resolve", "swap", "revoke"} => sid \in Sids,
           pc \in {"store", "resolve", "swap", "cut", "scan", "delete"} => ver \in Versions,
           pc \in {"store", "swap"} => acc \in Versions /\ iat \in Seconds
    PROVE  RequestsHaveRead' /\ request' \in [Clients -> AuthRequest]
  <1>1. ASSUME NEW d \in Clients
        PROVE  /\ request'[d].pc \in {"store", "resolve", "swap", "revoke"} => request'[d].sid \in Sids
               /\ request'[d].pc \in {"store", "resolve", "swap", "cut", "scan", "delete"} =>
                     request'[d].ver \in Versions
               /\ request'[d].pc \in {"store", "swap"} =>
                     request'[d].acc \in Versions /\ request'[d].iat \in Seconds
    <2>1. CASE d = c
      BY <2>1 DEF Moved
    <2>2. CASE d # c
      BY <2>2 DEF Moved, AuthTyped, RequestsHaveRead
    <2>. QED BY <2>1, <2>2
  <1>2. RequestsHaveRead'
    BY <1>1 DEF RequestsHaveRead
  <1>. QED BY <1>2 DEF Moved

\* The parts of the types that a step of a request leaves alone, or gives out.
LEMMA AuthTypedRest ==
    ASSUME AuthTyped, RequestsHaveRead', request' \in [Clients -> AuthRequest],
           version' \in Versions, enabled' \in BOOLEAN, second' \in Seconds,
           logins' \in 0 .. MaxSessions, cutoff' \in 0 .. second',
           blacklist' \subseteq 1 .. MaxTokens, cleaned' \in Versions,
           \/ UNCHANGED given /\ current' \in [Sids -> 0 .. MaxTokens]
              /\ \A s \in Sids : current'[s] \in {0, current[s]}
           \/ \E c \in Clients : request[c].pc \in {"store", "swap"} /\ Give(c)
    PROVE  AuthTyped'
  <1>1. /\ tokens' \subseteq Tokens /\ access' \subseteq Access
        /\ current' \in [Sids -> 0 .. MaxTokens]
        /\ \A s \in Sids : current'[s] # 0 => \E t \in tokens' : t.n = current'[s] /\ t.sid = s
        /\ TokensNumbered'
    <2>1. CASE \E c \in Clients : request[c].pc \in {"store", "swap"} /\ Give(c)
      BY <2>1, GiveNumbers
    <2>2. CASE UNCHANGED given /\ current' \in [Sids -> 0 .. MaxTokens]
               /\ \A s \in Sids : current'[s] \in {0, current[s]}
      BY <2>2 DEF given, AuthTyped, AuthTypeOK, TokensNumbered
    <2>. QED BY <2>1, <2>2
  <1>. QED BY <1>1 DEF AuthTyped, AuthTypeOK, AuthRequest, AuthPcs

\* Every step keeps the types, and what a request has read stays in them.
LEMMA AuthTypedStep == AuthTyped /\ [AuthNext]_authVars => AuthTyped'
  <1>. SUFFICES ASSUME AuthTyped, [AuthNext]_authVars PROVE AuthTyped'
    OBVIOUS
  <1>1. /\ MaxSessions \in Nat /\ MaxTokens \in Nat /\ MaxVersion \in Nat /\ MaxSeconds \in Nat
        /\ version \in Versions /\ second \in Seconds /\ logins \in 0 .. MaxSessions
        /\ enabled \in BOOLEAN /\ cutoff \in 0 .. second /\ cleaned \in Versions
        /\ blacklist \subseteq 1 .. MaxTokens
        /\ current \in [Sids -> 0 .. MaxTokens]
        /\ request \in [Clients -> AuthRequest] /\ RequestsHaveRead
    BY AuthAssumption DEF AuthTyped, AuthTypeOK, AuthAssumption, AuthRequest, AuthPcs
  <1>2. \A t \in tokens : t.sid \in Sids /\ t.n \in 1 .. MaxTokens /\ t.ver \in Versions
    BY DEF AuthTyped, AuthTypeOK, Tokens
  <1>3. \A a \in access : a.sid \in Sids /\ a.n \in 1 .. MaxTokens
    BY DEF AuthTyped, AuthTypeOK, Access
  <1>. USE <1>1 DEF database, given, Asks
  <1>4. ASSUME NEW c \in Clients, LoginResolve(c) PROVE AuthTyped'
    <2>1. logins + 1 \in Sids
      BY <1>4 DEF LoginResolve, Sids
    <2>2. RequestsHaveRead' /\ request' \in [Clients -> AuthRequest]
      BY <1>4, <2>1, RequestMoves, MovedReads
    <2>. QED BY <1>4, <2>1, <2>2, AuthTypedRest DEF LoginResolve, Sids
  <1>5. ASSUME NEW c \in Clients, NEW t \in tokens, RefreshCheck(c, t) \/ ContextResolve(c, t)
        PROVE  AuthTyped'
    <2>1. RequestsHaveRead' /\ request' \in [Clients -> AuthRequest]
      BY <1>2, <1>5, RequestMoves, MovedReads
    <2>. QED BY <1>5, <2>1, AuthTypedRest DEF RefreshCheck, ContextResolve
  <1>6. ASSUME NEW c \in Clients, RefreshResolve(c) PROVE AuthTyped'
    <2>1. RequestsHaveRead' /\ request' \in [Clients -> AuthRequest]
      BY <1>6, RequestMoves, MovedReads DEF RefreshResolve, RequestsHaveRead
    <2>. QED BY <1>6, <2>1, AuthTypedRest DEF RefreshResolve
  <1>7. ASSUME NEW c \in Clients, NEW a \in access, Logout(c, a) PROVE AuthTyped'
    <2>1. RequestsHaveRead' /\ request' \in [Clients -> AuthRequest]
      <3>1. Moved(c, "revoke", a.sid, 0, 0, 0, 0, {})
        BY <1>7, RequestMoves
      <3>. QED BY <1>3, <3>1, MovedReads
    <2>. QED BY <1>3, <1>7, <2>1, AuthTypedRest DEF Logout
  <1>8. ASSUME NEW c \in Clients, ChangePassword(c) PROVE AuthTyped'
    <2>1. version + 1 \in Versions
      BY <1>8 DEF ChangePassword, Versions
    <2>2. RequestsHaveRead' /\ request' \in [Clients -> AuthRequest]
      BY <1>8, <2>1, RequestMoves, MovedReads
    <2>. QED BY <1>8, <2>1, <2>2, AuthTypedRest DEF ChangePassword
  <1>9. ASSUME NEW c \in Clients, RevokeCut(c) \/ RevokeScan(c) PROVE AuthTyped'
    <2>1. RequestsHaveRead' /\ request' \in [Clients -> AuthRequest]
      <3>1. request[c].ver \in Versions
        BY <1>9 DEF RevokeCut, RevokeScan, RequestsHaveRead
      <3>2. \E pc \in {"scan", "delete"}, keys \in SUBSET Sids :
               Moved(c, pc, request[c].sid, request[c].from, request[c].ver,
                     request[c].acc, request[c].iat, keys)
        <4>1. request[c].keys \in SUBSET Sids /\ {s \in Sids : current[s] # 0} \in SUBSET Sids
          BY DEF AuthRequest
        <4>. QED BY <1>9, <4>1, RequestMoves
      <3>. QED BY <3>1, <3>2, MovedReads
    <2>2. second \in 0 .. second
      BY DEF Seconds
    <2>. QED BY <1>9, <2>1, <2>2, AuthTypedRest DEF RevokeCut, RevokeScan
  <1>10. ASSUME NEW c \in Clients, Answers(c)
         PROVE  RequestsHaveRead' /\ request' \in [Clients -> AuthRequest]
    BY <1>10, AnswersMoves, MovedReads
  <1>11. ASSUME NEW c \in Clients, LoginStore(c) PROVE AuthTyped'
    <2>1. RequestsHaveRead' /\ request' \in [Clients -> AuthRequest]
      BY <1>10, <1>11 DEF LoginStore
    <2>. QED BY <1>11, <2>1, AuthTypedRest DEF LoginStore
  <1>12. ASSUME NEW c \in Clients, Swap(c) PROVE AuthTyped'
    <2>1. CASE Give(c) /\ Answers(c)
      BY <1>10, <1>12, <2>1, AuthTypedRest DEF Swap
    <2>2. CASE ~(Give(c) /\ Answers(c))
      <3>1. /\ current' = [current EXCEPT ![request[c].sid] = 0]
            /\ request' = [request EXCEPT ![c].pc = "revoke"]
            /\ request[c].sid \in Sids /\ UNCHANGED given
        BY <1>12, <2>2 DEF Swap, RequestsHaveRead
      <3>2. /\ current' \in [Sids -> 0 .. MaxTokens]
            /\ \A s \in Sids : current'[s] \in {0, current[s]}
        BY <3>1
      <3>3. RequestsHaveRead' /\ request' \in [Clients -> AuthRequest]
        BY <3>1 DEF RequestsHaveRead, AuthRequest, AuthPcs
      <3>. QED BY <1>12, <2>2, <3>1, <3>2, <3>3, AuthTypedRest DEF Swap
    <2>. QED BY <2>1, <2>2
  <1>13. ASSUME NEW c \in Clients, Revoke(c) PROVE AuthTyped'
    <2>1. /\ current' \in [Sids -> 0 .. MaxTokens]
          /\ \A s \in Sids : current'[s] \in {0, current[s]}
      BY <1>13, request[c].sid \in Sids DEF Revoke, RequestsHaveRead
    <2>. QED BY <1>10, <1>13, <2>1, AuthTypedRest DEF Revoke
  <1>14. ASSUME NEW c \in Clients, RevokeDelete(c) PROVE AuthTyped'
    <2>1. /\ current' \in [Sids -> 0 .. MaxTokens]
          /\ \A s \in Sids : current'[s] \in {0, current[s]}
      BY <1>14 DEF RevokeDelete
    <2>2. cleaned' \in Versions
      BY <1>14 DEF RevokeDelete, RequestsHaveRead
    <2>. QED BY <1>10, <1>14, <2>1, <2>2, AuthTypedRest DEF RevokeDelete
  <1>15. ASSUME NEW c \in Clients, Abandon(c) PROVE AuthTyped'
    BY <1>10, <1>15, AuthTypedRest DEF Abandon
  <1>16. ASSUME NEW s \in Sids, KeyExpires(s) PROVE AuthTyped'
    <2>1. /\ current' \in [Sids -> 0 .. MaxTokens]
          /\ \A x \in Sids : current'[x] \in {0, current[x]}
      BY <1>16 DEF KeyExpires
    <2>. QED BY <1>16, <2>1, AuthTypedRest DEF KeyExpires, RequestsHaveRead
  <1>17. CASE SetStatus
    <2>1. version + 1 \in Versions
      BY <1>17 DEF SetStatus, Versions
    <2>. QED BY <1>17, <2>1, AuthTypedRest DEF SetStatus, RequestsHaveRead
  <1>18. CASE Tick
    <2>1. second + 1 \in Seconds /\ cutoff \in 0 .. (second + 1)
      BY <1>18 DEF Tick, Seconds
    <2>. QED BY <1>18, <2>1, AuthTypedRest DEF Tick, RequestsHaveRead
  <1>19. CASE UNCHANGED authVars
    BY <1>19, AuthTypedRest DEF authVars, RequestsHaveRead
  <1>. QED
    BY <1>4, <1>5, <1>6, <1>7, <1>8, <1>9, <1>11, <1>12, <1>13, <1>14, <1>15, <1>16, <1>17, <1>18,
       <1>19
    DEF AuthNext

\* Every reachable state of the sessions is well typed.
THEOREM AuthTypeCorrect == AuthSpec => []AuthTypeOK
  <1>1. AuthTyped => AuthTypeOK
    BY DEF AuthTyped
  <1>. QED BY <1>1, AuthTypedInit, AuthTypedStep, PTL DEF AuthSpec

-----------------------------------------------------------------------------
(* Logins: the tokens of a session.                                        *)

\* A session has tokens.
Given(s) == \E t \in tokens : t.sid = s

\* All tokens of a session carry one version; a session that is being made has none
\* yet, and is made by one request; a refresh presents a token that was given out.
SessionInv ==
    /\ \A t \in tokens : t.sid <= logins
    /\ \A a \in access : Given(a.sid)
    /\ \A t, u \in tokens : t.sid = u.sid => t.ver = u.ver
    /\ \A c \in Clients : request[c].pc = "store" =>
          /\ request[c].sid <= logins /\ ~Given(request[c].sid)
          /\ request[c].from = 0 /\ request[c].acc = request[c].ver
    /\ \A c, d \in Clients :
          request[c].pc = "store" /\ request[d].pc = "store" /\ request[c].sid = request[d].sid => c = d
    /\ \A c \in Clients : request[c].pc \in {"resolve", "swap"} =>
          \E t \in tokens :
             t.n = request[c].from /\ t.sid = request[c].sid /\ t.ver = request[c].ver

\* A token that was exchanged is nobody's current token any more.
ExchangedIsSpent ==
    \A u \in tokens : u.from # 0 =>
        (\E t \in tokens : t.n = u.from) /\ \A s \in Sids : current[s] # u.from

\* Steps that give out no token and start neither a login nor a refresh.
Quiet ==
    /\ UNCHANGED <<tokens, access, logins>>
    /\ \A s \in Sids : current'[s] \in {0, current[s]}
    /\ \A d \in Clients :
          request'[d] = request[d] \/ request'[d].pc \notin {"store", "resolve", "swap"}

\* Every step but a login, a refresh and a change of context is quiet, those that
\* end a session or give nothing out included.
LEMMA QuietSteps ==
    ASSUME AuthTyped,
           \/ \E c \in Clients :
                 \/ Revoke(c) \/ ChangePassword(c) \/ RevokeCut(c) \/ RevokeScan(c)
                 \/ RevokeDelete(c) \/ Abandon(c) \/ (Swap(c) /\ ~Give(c))
                 \/ \E a \in access : Logout(c, a)
           \/ \E s \in Sids : KeyExpires(s)
           \/ SetStatus \/ Tick \/ UNCHANGED authVars
    PROVE  Quiet
  <1>. USE DEF Quiet, database, given
  <1>1. current \in [Sids -> 0 .. MaxTokens] /\ request \in [Clients -> AuthRequest]
    BY DEF AuthTyped, AuthTypeOK, AuthRequest, AuthPcs
  <1>2. ASSUME NEW c \in Clients, Answers(c)
        PROVE  \A d \in Clients :
                  request'[d] = request[d] \/ request'[d].pc \notin {"store", "resolve", "swap"}
    BY <1>2, AnswersMoves DEF Moved
  <1>3. ASSUME NEW c \in Clients, Revoke(c) \/ RevokeDelete(c) \/ Abandon(c) PROVE Quiet
    BY <1>1, <1>2, <1>3 DEF Revoke, RevokeDelete, Abandon
  <1>4. ASSUME NEW c \in Clients, ChangePassword(c) \/ RevokeCut(c) \/ RevokeScan(c) PROVE Quiet
    <2>1. \A d \in Clients :
             request'[d] = request[d] \/ request'[d].pc \notin {"store", "resolve", "swap"}
      BY <1>4, RequestMoves DEF Moved
    <2>. QED BY <1>1, <1>4, <2>1 DEF ChangePassword, RevokeCut, RevokeScan
  <1>5. ASSUME NEW c \in Clients, NEW a \in access, Logout(c, a) PROVE Quiet
    <2>1. Moved(c, "revoke", a.sid, 0, 0, 0, 0, {})
      BY <1>5, RequestMoves
    <2>. QED BY <1>1, <1>5, <2>1 DEF Logout, Moved
  <1>6. ASSUME NEW c \in Clients, Swap(c), ~Give(c) PROVE Quiet
    BY <1>1, <1>6 DEF Swap, AuthRequest
  <1>7. ASSUME NEW s \in Sids, KeyExpires(s) PROVE Quiet
    BY <1>1, <1>7 DEF KeyExpires
  <1>8. CASE SetStatus \/ Tick \/ UNCHANGED authVars
    BY <1>1, <1>8 DEF SetStatus, Tick, authVars
  <1>. QED BY <1>3, <1>4, <1>5, <1>6, <1>7, <1>8

\* What a request gives out.
LEMMA GiveAdds ==
    ASSUME AuthTyped, NEW c \in Clients, request[c].pc \in {"store", "swap"}, Give(c)
    PROVE  \E t \in Tokens, a \in Access :
              /\ tokens' = tokens \cup {t} /\ access' = access \cup {a}
              /\ t.sid = request[c].sid /\ t.ver = request[c].ver /\ t.from = request[c].from
              /\ a.sid = request[c].sid /\ a.ver = request[c].acc
              /\ \A u \in tokens : u.n < t.n
              /\ t.n # 0 /\ current'[t.sid] = t.n
              /\ \A s \in Sids \ {t.sid} : current'[s] = current[s]
  <1>. DEFINE n == Cardinality(tokens) + 1
              q == request[c]
              t == [n |-> n, sid |-> q.sid, ver |-> q.ver, from |-> q.from]
              a == [n |-> n, sid |-> q.sid, ver |-> q.acc, iat |-> q.iat]
  <1>1. tokens' = tokens \cup {t} /\ access' = access \cup {a}
        /\ current' = [current EXCEPT ![q.sid] = n]
    BY DEF Give
  <1>2. Cardinality(tokens) \in Nat /\ t \in Tokens /\ a \in Access
    BY <1>1, GiveNumbers
  <1>3. \A u \in tokens : u.n < n
    BY <1>2 DEF AuthTyped, TokensNumbered, AuthTypeOK, Tokens
  <1>4. q.sid \in Sids /\ current \in [Sids -> 0 .. MaxTokens]
    BY DEF AuthTyped, RequestsHaveRead
  <1>5. n # 0
    BY <1>2
  <1>6. t.n = n /\ t.sid = q.sid /\ t.ver = q.ver /\ t.from = q.from /\ a.sid = q.sid /\ a.ver = q.acc
    OBVIOUS
  <1>7. current'[q.sid] = n /\ \A s \in Sids \ {q.sid} : current'[s] = current[s]
    BY <1>1, <1>4
  <1>. HIDE DEF n, t, a
  <1>. QED BY <1>1, <1>2, <1>3, <1>5, <1>6, <1>7

\* A step that gives out a token, of a login or of a refresh.
LEMMA GivingStep ==
    ASSUME NEW c \in Clients, LoginStore(c) \/ (Swap(c) /\ Give(c)), AuthTyped
    PROVE  /\ request[c].pc \in {"store", "swap"} /\ Give(c) /\ UNCHANGED logins
           /\ request[c].pc = "swap" => current[request[c].sid] = request[c].from
           /\ \A d \in Clients : request'[d].pc \in {"store", "resolve", "swap"} =>
                 d # c /\ request'[d] = request[d]
  <1>1. Answers(c) => \A d \in Clients : request'[d].pc \in {"store", "resolve", "swap"} =>
                         d # c /\ request'[d] = request[d]
    BY AnswersMoves DEF Moved
  <1>2. request[c].sid \in Sids /\ current \in [Sids -> 0 .. MaxTokens]
    BY DEF LoginStore, Swap, Asks, AuthTyped, RequestsHaveRead
  <1>3. CASE LoginStore(c)
    BY <1>1, <1>3 DEF LoginStore, Asks
  <1>4. CASE Swap(c) /\ Give(c)
    <2>1. ~UNCHANGED given
      <3>1. PICK t \in Tokens : tokens' = tokens \cup {t} /\ \A u \in tokens : u.n < t.n
        BY <1>4, GiveAdds DEF Swap, Asks
      <3>2. t \notin tokens
        BY <3>1 DEF Tokens
      <3>. QED BY <3>1, <3>2 DEF given
    <2>. QED BY <1>1, <1>4, <2>1 DEF Swap, Asks
  <1>. QED BY <1>3, <1>4

\* Without tokens there is nothing to say of them.
LEMMA SessionInit == AuthInit => SessionInv /\ ExchangedIsSpent /\ RedeemedOnce
  BY DEF AuthInit, SessionInv, ExchangedIsSpent, RedeemedOnce, NoRequest

\* The steps of a behaviour, by what they do to the sessions.
LEMMA AuthSteps ==
    ASSUME AuthTyped, [AuthNext]_authVars
    PROVE  \/ Quiet
           \/ \E c \in Clients :
                 \/ LoginResolve(c) \/ RefreshResolve(c) \/ LoginStore(c) \/ (Swap(c) /\ Give(c))
                 \/ \E t \in tokens : RefreshCheck(c, t) \/ ContextResolve(c, t)
  BY QuietSteps DEF AuthNext

\* Every step keeps what is said of the tokens of a session and of the requests for them.
LEMMA SessionStep == AuthTyped /\ SessionInv /\ [AuthNext]_authVars => SessionInv'
  <1>. SUFFICES ASSUME AuthTyped, SessionInv, [AuthNext]_authVars PROVE SessionInv'
    OBVIOUS
  <1>. USE DEF SessionInv, Given, database, given
  <1>1. /\ \A t \in tokens : t.sid \in Nat /\ t.ver \in Nat
        /\ logins \in Nat
    BY DEF AuthTyped, AuthTypeOK, Tokens, Sids, Versions
  <1>2. CASE Quiet
    BY <1>2 DEF Quiet
  <1>3. ASSUME NEW c \in Clients, LoginResolve(c) PROVE SessionInv'
    <2>1. Moved(c, "store", logins + 1, 0, version, version, second, {})
          /\ UNCHANGED <<tokens, access>> /\ logins' = logins + 1
      BY <1>3, RequestMoves DEF LoginResolve
    <2>2. \A t \in tokens : t.sid <= logins' /\ t.sid # logins + 1
      BY <1>1, <2>1
    <2>3. ASSUME NEW d \in Clients, request'[d].pc = "store"
          PROVE  /\ request'[d].sid <= logins' /\ ~Given(request'[d].sid)
                 /\ request'[d].from = 0 /\ request'[d].acc = request'[d].ver
                 /\ d # c => request'[d].sid # logins + 1
      <3>1. request[d].sid \in Nat
        BY DEF AuthTyped, AuthTypeOK
      <3>2. CASE d = c
        BY <1>1, <2>1, <2>2, <2>3, <3>2 DEF Moved
      <3>3. CASE d # c
        BY <1>1, <2>1, <2>3, <3>1, <3>3 DEF Moved
      <3>. QED BY <3>2, <3>3
    <2>4. \A d, e \in Clients :
             request'[d].pc = "store" /\ request'[e].pc = "store" /\ request'[d].sid = request'[e].sid
                => d = e
      BY <2>1, <2>3 DEF Moved
    <2>5. \A d \in Clients : request'[d].pc \in {"resolve", "swap"} => request'[d] = request[d]
      BY <2>1 DEF Moved
    <2>. QED BY <2>1, <2>2, <2>3, <2>4, <2>5
  <1>4. ASSUME NEW c \in Clients, NEW t \in tokens, RefreshCheck(c, t) \/ ContextResolve(c, t)
        PROVE  SessionInv'
    <2>1. PICK pc \in {"resolve", "swap"} : \E acc, iat :
             Moved(c, pc, t.sid, t.n, version, acc, iat, {})
      BY <1>4, RequestMoves
    <2>2. t.ver = version /\ UNCHANGED <<tokens, access, logins>>
      BY <1>4 DEF RefreshCheck, ContextResolve
    <2>. QED BY <2>1, <2>2 DEF Moved
  <1>5. ASSUME NEW c \in Clients, RefreshResolve(c) PROVE SessionInv'
    <2>1. \E acc, iat, keys :
             Moved(c, "swap", request[c].sid, request[c].from, request[c].ver, acc, iat, keys)
      BY <1>5, RequestMoves
    <2>2. request[c].pc = "resolve" /\ UNCHANGED <<tokens, access, logins>>
      BY <1>5 DEF RefreshResolve, Asks
    <2>. QED BY <2>1, <2>2 DEF Moved
  <1>6. ASSUME NEW c \in Clients, LoginStore(c) \/ (Swap(c) /\ Give(c)) PROVE SessionInv'
    <2>1. /\ request[c].pc \in {"store", "swap"} /\ Give(c) /\ UNCHANGED logins
          /\ \A d \in Clients : request'[d].pc \in {"store", "resolve", "swap"} =>
                d # c /\ request'[d] = request[d]
      BY <1>6, GivingStep
    <2>2. PICK t \in Tokens, a \in Access :
              /\ tokens' = tokens \cup {t} /\ access' = access \cup {a}
              /\ t.sid = request[c].sid /\ t.ver = request[c].ver
              /\ a.sid = request[c].sid
      BY <2>1, GiveAdds
    <2>3. t.sid <= logins /\ \A u \in tokens : u.sid = t.sid => u.ver = t.ver
      <3>1. CASE request[c].pc = "store"
        BY <2>2, <3>1
      <3>2. CASE request[c].pc = "swap"
        BY <2>2, <3>2
      <3>. QED BY <2>1, <3>1, <3>2
    <2>4. \A d \in Clients : request'[d].pc = "store" => request[d].sid # t.sid
      <3>1. CASE request[c].pc = "store"
        BY <2>1, <2>2, <3>1
      <3>2. CASE request[c].pc = "swap"
        BY <2>1, <2>2, <3>2
      <3>. QED BY <2>1, <3>1, <3>2
    <2>. QED BY <2>1, <2>2, <2>3, <2>4
  <1>. QED BY <1>2, <1>3, <1>4, <1>5, <1>6, AuthSteps

\* A token is current in one session only, and is spent when it is exchanged.
LEMMA ExchangeStep ==
    AuthTyped /\ SessionInv /\ ExchangedIsSpent /\ RedeemedOnce /\ [AuthNext]_authVars
        => ExchangedIsSpent' /\ RedeemedOnce'
  <1>. SUFFICES ASSUME AuthTyped, SessionInv, ExchangedIsSpent, RedeemedOnce, [AuthNext]_authVars
                PROVE  ExchangedIsSpent' /\ RedeemedOnce'
    OBVIOUS
  <1>. USE DEF ExchangedIsSpent, RedeemedOnce
  <1>1. CASE Quiet
    BY <1>1 DEF Quiet
  <1>2. ASSUME UNCHANGED <<tokens, current>> PROVE ExchangedIsSpent' /\ RedeemedOnce'
    BY <1>2
  <1>3. ASSUME NEW c \in Clients, LoginStore(c) \/ (Swap(c) /\ Give(c))
        PROVE  ExchangedIsSpent' /\ RedeemedOnce'
    <2>1. /\ request[c].pc \in {"store", "swap"} /\ Give(c)
          /\ request[c].pc = "swap" => current[request[c].sid] = request[c].from
      BY <1>3, GivingStep
    <2>2. PICK t \in Tokens :
              /\ tokens' = tokens \cup {t}
              /\ t.sid = request[c].sid /\ t.from = request[c].from
              /\ \A u \in tokens : u.n < t.n
              /\ t.n # 0 /\ current'[t.sid] = t.n
              /\ \A s \in Sids \ {t.sid} : current'[s] = current[s]
      BY <2>1, GiveAdds
    <2>3. t.sid \in Sids /\ t.n \in Nat /\ \A u \in tokens : u.n \in Nat /\ u.sid \in Sids
      BY <2>2, AuthAssumption DEF AuthTyped, AuthTypeOK, Tokens, AuthAssumption
    <2>4. t.from = 0 \/ (current[t.sid] = t.from /\ \E u \in tokens : u.n = t.from /\ u.sid = t.sid)
      BY <2>1, <2>2 DEF SessionInv
    <2>5. ASSUME NEW s \in Sids, s # t.sid, t.from # 0 PROVE current'[s] # t.from
      <3>1. PICK u \in tokens : u.n = t.from /\ u.sid = t.sid
        BY <2>4, <2>5
      <3>2. current[s] # 0 => \E v \in tokens : v.n = current[s] /\ v.sid = s
        BY DEF AuthTyped, AuthTypeOK
      <3>3. \A v \in tokens : v.n = u.n => v = u
        BY DEF AuthTyped, TokensNumbered
      <3>. QED BY <2>2, <2>5, <3>1, <3>2, <3>3
    <2>6. \A u \in tokens' : u.from # 0 =>
             (\E v \in tokens' : v.n = u.from) /\ \A s \in Sids : current'[s] # u.from
      <3>1. ASSUME NEW u \in tokens, u.from # 0
            PROVE  (\E v \in tokens : v.n = u.from) /\ \A s \in Sids : current'[s] # u.from
        BY <2>2, <2>3, <3>1
      <3>2. t.from # 0 =>
               (\E v \in tokens : v.n = t.from) /\ \A s \in Sids : current'[s] # t.from
        BY <2>2, <2>3, <2>4, <2>5
      <3>. QED BY <2>2, <3>1, <3>2
    <2>7. \A u \in tokens : u.from # 0 => u.from # t.from
      BY <2>3, <2>4
    <2>8. RedeemedOnce'
      BY <2>2, <2>7
    <2>. QED BY <2>6, <2>8
  <1>4. ASSUME NEW c \in Clients,
               \/ LoginResolve(c) \/ RefreshResolve(c)
               \/ \E t \in tokens : RefreshCheck(c, t) \/ ContextResolve(c, t)
        PROVE  UNCHANGED <<tokens, current>>
    BY <1>4 DEF LoginResolve, RefreshResolve, RefreshCheck, ContextResolve, given
  <1>. QED BY <1>1, <1>2, <1>3, <1>4, AuthSteps

\* A refresh token is exchanged for one other at most.
THEOREM TokensRedeemedOnce == AuthSpec => []RedeemedOnce
  BY AuthTypedInit, SessionInit, AuthTypedStep, SessionStep, ExchangeStep, PTL DEF AuthSpec

\* A session that has ended has no key again: a login gives the first key of its
\* session, and a refresh needs the key it found.
LEMMA EndedStep ==
    ASSUME AuthTyped, SessionInv, [AuthNext]_authVars, NEW s \in Sids,
           current[s] = 0, Given(s)
    PROVE  current'[s] = 0 /\ Given(s)'
  <1>1. CASE Quiet
    BY <1>1 DEF Quiet, Given
  <1>2. ASSUME NEW c \in Clients, LoginStore(c) \/ (Swap(c) /\ Give(c))
        PROVE  current'[s] = 0 /\ Given(s)'
    <2>1. /\ request[c].pc \in {"store", "swap"} /\ Give(c)
          /\ request[c].pc = "swap" => current[request[c].sid] = request[c].from
      BY <1>2, GivingStep
    <2>2. PICK t \in Tokens :
              /\ tokens' = tokens \cup {t} /\ t.sid = request[c].sid
              /\ \A x \in Sids \ {t.sid} : current'[x] = current[x]
      BY <2>1, GiveAdds
    <2>3. CASE request[c].pc = "store"
      BY <2>2, <2>3 DEF SessionInv, Given
    <2>4. CASE request[c].pc = "swap"
      <3>1. \E u \in tokens : u.n = request[c].from
        BY <2>4 DEF SessionInv
      <3>2. request[c].from # 0
        BY <3>1, AuthAssumption DEF AuthTyped, AuthTypeOK, Tokens, AuthAssumption
      <3>. QED BY <2>1, <2>2, <2>4, <3>2 DEF Given
    <2>. QED BY <2>1, <2>3, <2>4
  <1>3. ASSUME NEW c \in Clients,
               \/ LoginResolve(c) \/ RefreshResolve(c)
               \/ \E t \in tokens : RefreshCheck(c, t) \/ ContextResolve(c, t)
        PROVE  UNCHANGED <<tokens, current>>
    BY <1>3 DEF LoginResolve, RefreshResolve, RefreshCheck, ContextResolve, given
  <1>. QED BY <1>1, <1>2, <1>3, AuthSteps DEF Given

\* A session that has ended does not come back.
THEOREM EndedSessionsStayEnded == AuthSpec => EndedStaysEnded
  <1>1. AuthTyped /\ SessionInv /\ [AuthNext]_authVars =>
            [\A s \in Sids :
                current[s] = 0 /\ (\E t \in tokens : t.sid = s) => current'[s] = 0]_authVars
    BY EndedStep DEF Given
  <1>2. AuthInit => SessionInv
    BY SessionInit
  <1>. QED
    BY <1>1, <1>2, AuthTypedInit, AuthTypedStep, SessionStep, PTL DEF AuthSpec, EndedStaysEnded

-----------------------------------------------------------------------------
(* Logins: a change of the password.                                       *)

\* Session s is of no use at version w any more: it has ended, or its only tokens are
\* those of a login that was slower than the change, and no refresh is under way.
Useless(s, w) ==
    \/ current[s] = 0
    \/ /\ \A a \in access : a.sid = s => a.ver < w
       /\ \A c \in Clients : request[c].pc \in {"resolve", "swap"} => request[c].sid # s

\* What a change of the password has cut off, and is about to delete.
CutInv ==
    /\ cleaned <= version
    /\ \A c \in Clients :
          request[c].pc \in {"cut", "scan", "delete"} => request[c].ver <= version
    /\ \A t \in tokens : t.ver < cleaned => Useless(t.sid, cleaned)
    /\ \A c \in Clients, t \in tokens :
          request[c].pc = "delete" /\ t.ver < request[c].ver =>
             t.sid \in request[c].keys \/ Useless(t.sid, request[c].ver)

\* Nothing is cut off at first.
LEMMA CutInit == AuthInit => CutInv
  BY DEF AuthInit, CutInv, NoRequest

\* The version of the user only grows.
LEMMA VersionGrows ==
    ASSUME AuthTyped, [AuthNext]_authVars
    PROVE  version <= version'
  <1>1. version \in Nat
    BY DEF AuthTyped, AuthTypeOK, Versions
  <1>2. version' = version \/ version' = version + 1
    BY DEF AuthNext, authVars, LoginResolve, LoginStore, RefreshResolve, Swap, Revoke,
           ChangePassword, RevokeCut, RevokeScan, RevokeDelete, Abandon, RefreshCheck,
           ContextResolve, Logout, KeyExpires, SetStatus, Tick, database
  <1>. QED BY <1>1, <1>2

\* Nothing makes a session of a former version useful again.
LEMMA UselessStep ==
    ASSUME AuthTyped, SessionInv, [AuthNext]_authVars, NEW w \in Nat, w <= version,
           NEW u \in tokens, u.ver < w, Useless(u.sid, w)
    PROVE  Useless(u.sid, w)'
  <1>1. u.sid \in Sids /\ u.ver \in Nat /\ version \in Nat /\ Given(u.sid)
    BY DEF AuthTyped, AuthTypeOK, Tokens, Versions, Given
  <1>2. CASE current[u.sid] = 0
    BY <1>1, <1>2, EndedStep DEF Useless
  <1>3. CASE /\ \A a \in access : a.sid = u.sid => a.ver < w
             /\ \A c \in Clients : request[c].pc \in {"resolve", "swap"} => request[c].sid # u.sid
    <2>1. CASE Quiet
      BY <1>3, <2>1 DEF Quiet, Useless
    <2>2. ASSUME NEW c \in Clients, LoginResolve(c) PROVE Useless(u.sid, w)'
      <3>1. Moved(c, "store", logins + 1, 0, version, version, second, {})
            /\ UNCHANGED <<tokens, access>>
        BY <2>2, RequestMoves DEF LoginResolve, given
      <3>. QED BY <1>3, <3>1 DEF Useless, Moved
    <2>3. ASSUME NEW c \in Clients, NEW t \in tokens, RefreshCheck(c, t) \/ ContextResolve(c, t)
          PROVE  Useless(u.sid, w)'
      <3>1. \E pc, acc, iat : Moved(c, pc, t.sid, t.n, version, acc, iat, {})
        BY <2>3, RequestMoves
      <3>2. t.ver = version /\ UNCHANGED access
        BY <2>3 DEF RefreshCheck, ContextResolve, given
      <3>3. t.sid # u.sid
        BY <1>1, <3>2 DEF SessionInv
      <3>. QED BY <1>3, <3>1, <3>2, <3>3 DEF Useless, Moved
    <2>4. ASSUME NEW c \in Clients, RefreshResolve(c) PROVE Useless(u.sid, w)'
      <3>1. \E acc, iat, keys :
               Moved(c, "swap", request[c].sid, request[c].from, request[c].ver, acc, iat, keys)
        BY <2>4, RequestMoves
      <3>2. request[c].pc = "resolve" /\ UNCHANGED access
        BY <2>4 DEF RefreshResolve, Asks, given
      <3>. QED BY <1>3, <3>1, <3>2 DEF Useless, Moved
    <2>5. ASSUME NEW c \in Clients, LoginStore(c) \/ (Swap(c) /\ Give(c))
          PROVE  Useless(u.sid, w)'
      <3>1. /\ request[c].pc \in {"store", "swap"} /\ Give(c)
            /\ \A d \in Clients : request'[d].pc \in {"store", "resolve", "swap"} =>
                  d # c /\ request'[d] = request[d]
        BY <2>5, GivingStep
      <3>2. PICK a \in Access : access' = access \cup {a} /\ a.sid = request[c].sid
        BY <3>1, GiveAdds
      <3>3. a.sid # u.sid
        BY <1>1, <1>3, <3>1, <3>2 DEF SessionInv
      <3>. QED BY <1>3, <3>1, <3>2, <3>3 DEF Useless
    <2>. QED BY <2>1, <2>2, <2>3, <2>4, <2>5, AuthSteps
  <1>. QED BY <1>2, <1>3 DEF Useless

\* A new token of a former version is the first of a login that was overtaken.
LEMMA LateLogin ==
    ASSUME AuthTyped, SessionInv, NEW w \in Nat, w <= version,
           NEW c \in Clients, LoginStore(c), request[c].ver < w, NEW s, s = request[c].sid
    PROVE  Useless(s, w)'
  <1>1. /\ request[c].pc = "store" /\ Give(c)
        /\ \A d \in Clients : request'[d].pc \in {"store", "resolve", "swap"} =>
              d # c /\ request'[d] = request[d]
    BY GivingStep DEF LoginStore, Asks
  <1>2. PICK a \in Access : access' = access \cup {a} /\ a.ver = request[c].acc
    BY <1>1, GiveAdds
  <1>3. ~Given(request[c].sid) /\ request[c].acc = request[c].ver
    BY <1>1 DEF SessionInv
  <1>4. \A b \in access : b.sid # request[c].sid
    BY <1>3 DEF SessionInv
  <1>5. \A d \in Clients : request[d].pc \in {"resolve", "swap"} => request[d].sid # request[c].sid
    BY <1>3 DEF SessionInv, Given
  <1>. QED BY <1>1, <1>2, <1>3, <1>4, <1>5 DEF Useless

\* A step leaves what is cut off useless, also for the token that it gives out.
LEMMA CutOffStep ==
    ASSUME AuthTyped, SessionInv, [AuthNext]_authVars, NEW w \in Nat, w <= version,
           NEW K, \A t \in tokens : t.ver < w => t.sid \in K \/ Useless(t.sid, w)
    PROVE  \A t \in tokens' : t.ver < w => t.sid \in K \/ Useless(t.sid, w)'
  <1>1. ASSUME NEW t \in tokens, t.ver < w PROVE t.sid \in K \/ Useless(t.sid, w)'
    BY <1>1, UselessStep
  <1>2. CASE tokens' = tokens
    BY <1>1, <1>2
  <1>3. ASSUME NEW c \in Clients, LoginStore(c) \/ (Swap(c) /\ Give(c)),
               NEW t \in tokens', t.ver < w, t \notin tokens
        PROVE  t.sid \in K \/ Useless(t.sid, w)'
    <2>1. /\ request[c].pc \in {"store", "swap"} /\ Give(c)
          /\ request[c].pc = "swap" => current[request[c].sid] = request[c].from
      BY <1>3, GivingStep
    <2>2. t.sid = request[c].sid /\ t.ver = request[c].ver
      BY <1>3, <2>1, GiveAdds
    <2>3. CASE LoginStore(c)
      BY <1>3, <2>2, <2>3, LateLogin
    <2>4. CASE request[c].pc = "swap"
      <3>1. PICK u \in tokens :
                u.n = request[c].from /\ u.sid = request[c].sid /\ u.ver = request[c].ver
        BY <2>4 DEF SessionInv
      <3>2. u.n # 0
        BY AuthAssumption DEF AuthTyped, AuthTypeOK, Tokens, AuthAssumption
      <3>3. ~Useless(u.sid, w)
        BY <2>1, <2>4, <3>1, <3>2 DEF Useless
      <3>. QED BY <1>3, <2>2, <3>1, <3>3
    <2>. QED BY <1>3, <2>3, <2>4 DEF Swap, Asks
  <1>4. ASSUME Quiet \/ \E c \in Clients :
                 \/ LoginResolve(c) \/ RefreshResolve(c)
                 \/ \E t \in tokens : RefreshCheck(c, t) \/ ContextResolve(c, t)
        PROVE  tokens' = tokens
    BY <1>4 DEF Quiet, LoginResolve, RefreshResolve, RefreshCheck, ContextResolve, given
  <1>. QED BY <1>1, <1>2, <1>3, <1>4, AuthSteps

\* The requests that are deleting keys after a step are those of before, except for
\* one that has scanned now.
LEMMA DeletingStep ==
    ASSUME AuthTyped, [AuthNext]_authVars, NEW c \in Clients
    PROVE  /\ request'[c].pc = "delete" => request'[c] = request[c] \/ RevokeScan(c)
           /\ request'[c].pc \in {"cut", "scan", "delete"} =>
                 \/ /\ request'[c].ver = request[c].ver
                    /\ request[c].pc \in {"cut", "scan", "delete"}
                 \/ request'[c].ver = version'
  <1>. DEFINE Fine(d) ==
           /\ request'[d].pc = "delete" => request'[d] = request[d] \/ RevokeScan(d)
           /\ request'[d].pc \in {"cut", "scan", "delete"} =>
                 \/ /\ request'[d].ver = request[d].ver
                    /\ request[d].pc \in {"cut", "scan", "delete"}
                 \/ request'[d].ver = version'
  <1>1. ASSUME NEW d \in Clients, c # d,
               NEW pc, NEW sid, NEW from, NEW ver, NEW acc, NEW iat, NEW keys,
               Moved(d, pc, sid, from, ver, acc, iat, keys)
        PROVE  Fine(c)
    BY <1>1 DEF Moved
  <1>2. ASSUME NEW pc, NEW sid, NEW from, NEW ver, NEW acc, NEW iat, NEW keys,
               Moved(c, pc, sid, from, ver, acc, iat, keys), pc \notin {"cut", "scan", "delete"}
        PROVE  Fine(c)
    BY <1>2 DEF Moved
  <1>3. ASSUME NEW d \in Clients, Answers(d) PROVE Fine(c)
    <2>1. Moved(d, "idle", 0, 0, 0, 0, 0, {})
      BY <1>3, AnswersMoves
    <2>. QED BY <2>1, <1>1, <1>2
  <1>4. ASSUME NEW d \in Clients, LoginResolve(d) \/ RefreshResolve(d) PROVE Fine(c)
    <2>1. \E pc \in {"store", "swap"} : \E sid, from, ver, acc, iat, keys :
             Moved(d, pc, sid, from, ver, acc, iat, keys)
      BY <1>4, RequestMoves
    <2>. QED BY <2>1, <1>1, <1>2
  <1>5. ASSUME NEW d \in Clients, NEW t \in tokens, RefreshCheck(d, t) \/ ContextResolve(d, t)
        PROVE  Fine(c)
    <2>1. \E pc \in {"resolve", "swap"} : \E sid, from, ver, acc, iat, keys :
             Moved(d, pc, sid, from, ver, acc, iat, keys)
      BY <1>5, RequestMoves
    <2>. QED BY <2>1, <1>1, <1>2
  <1>6. ASSUME NEW d \in Clients, NEW a \in access, Logout(d, a) PROVE Fine(c)
    <2>1. Moved(d, "revoke", a.sid, 0, 0, 0, 0, {})
      BY <1>6, RequestMoves
    <2>. QED BY <2>1, <1>1, <1>2
  <1>7. ASSUME NEW d \in Clients, ChangePassword(d) PROVE Fine(c)
    <2>1. Moved(d, "cut", 0, 0, version + 1, 0, 0, {}) /\ version' = version + 1
      BY <1>7, RequestMoves DEF ChangePassword
    <2>. QED BY <2>1, <1>1 DEF Moved
  <1>8. ASSUME NEW d \in Clients, RevokeCut(d) \/ RevokeScan(d) PROVE Fine(c)
    <2>1. \E pc \in {"scan", "delete"} : \E sid, from, acc, iat, keys :
             /\ Moved(d, pc, sid, from, request[d].ver, acc, iat, keys)
             /\ pc = "delete" => RevokeScan(d)
      BY <1>8, RequestMoves
    <2>2. request[d].pc \in {"cut", "scan", "delete"}
      BY <1>8 DEF RevokeCut, RevokeScan, Asks
    <2>. QED BY <2>1, <2>2, <1>1 DEF Moved
  <1>9. ASSUME NEW d \in Clients, Swap(d) PROVE Fine(c)
    <2>1. CASE Answers(d)
      BY <2>1, <1>3
    <2>2. CASE request' = [request EXCEPT ![d].pc = "revoke"]
      <3>1. request \in [Clients -> AuthRequest]
        BY DEF AuthTyped, AuthTypeOK, AuthRequest, AuthPcs
      <3>. QED BY <2>2, <3>1 DEF AuthRequest
    <2>. QED BY <1>9, <2>1, <2>2 DEF Swap
  <1>10. ASSUME request' = request PROVE Fine(c)
    BY <1>10
  <1>. QED
    BY <1>3, <1>4, <1>5, <1>6, <1>7, <1>8, <1>9, <1>10
    DEF AuthNext, authVars, LoginStore, Revoke, RevokeDelete, Abandon, KeyExpires, SetStatus, Tick

\* Every step keeps what a change of the password has cut off.
LEMMA CutStep == AuthTyped /\ SessionInv /\ CutInv /\ [AuthNext]_authVars => CutInv'
  <1>. SUFFICES ASSUME AuthTyped, SessionInv, CutInv, [AuthNext]_authVars PROVE CutInv'
    OBVIOUS
  <1>1. /\ version \in Nat /\ version' >= version /\ version' \in Nat /\ cleaned \in Nat
        /\ \A c \in Clients : request[c].ver \in Nat
        /\ \A t \in tokens : t.sid \in Sids
    <2>1. AuthTyped'
      BY AuthTypedStep
    <2>. QED BY <2>1, VersionGrows DEF AuthTyped, AuthTypeOK, Versions, Tokens
  <1>2. cleaned' = cleaned \/ \E c \in Clients : RevokeDelete(c)
    BY DEF AuthNext, authVars, LoginResolve, LoginStore, RefreshResolve, Swap, Revoke,
           ChangePassword, RevokeCut, RevokeScan, Abandon, RefreshCheck,
           ContextResolve, Logout, KeyExpires, SetStatus, Tick
  <1>3. ASSUME NEW c \in Clients, RevokeDelete(c)
        PROVE  /\ request[c].pc = "delete" /\ cleaned' \in {cleaned, request[c].ver}
               /\ UNCHANGED <<tokens, version>>
               /\ \A s \in Sids : s \in request[c].keys => current'[s] = 0
    BY <1>3 DEF RevokeDelete, Asks, given, database
  <1>4. cleaned' <= version'
    BY <1>1, <1>2, <1>3 DEF CutInv
  <1>5. \A c \in Clients : request'[c].pc \in {"cut", "scan", "delete"} => request'[c].ver <= version'
    BY <1>1, DeletingStep DEF CutInv
  <1>6. \A t \in tokens' : t.ver < cleaned' => Useless(t.sid, cleaned)'
    <2>1. CASE cleaned' = cleaned
      <3>0. PICK K : K = {}
        OBVIOUS
      <3>1. PICK w \in Nat : w = cleaned
        BY <1>1
      <3>2. \A t \in tokens' : t.ver < w => t.sid \in K \/ Useless(t.sid, w)'
        <4>1. w <= version /\ \A t \in tokens : t.ver < w => t.sid \in K \/ Useless(t.sid, w)
          BY <3>1 DEF CutInv
        <4>. QED BY <4>1, CutOffStep
      <3>. QED BY <2>1, <3>0, <3>1, <3>2 DEF Useless
    <2>2. ASSUME NEW c \in Clients, RevokeDelete(c), cleaned' = request[c].ver
          PROVE  \A t \in tokens' : t.ver < cleaned' => Useless(t.sid, cleaned)'
      <3>1. PICK w \in Nat : w = request[c].ver
        BY <1>1
      <3>2. ASSUME NEW t \in tokens, t.ver < w PROVE Useless(t.sid, w)'
        <4>1. t.sid \in request[c].keys \/ Useless(t.sid, w)
          BY <1>3, <2>2, <3>1, <3>2 DEF CutInv
        <4>2. w <= version
          BY <1>3, <2>2, <3>1 DEF CutInv
        <4>3. ASSUME t.sid \in request[c].keys PROVE Useless(t.sid, w)'
          BY <1>1, <1>3, <2>2, <4>3 DEF Useless
        <4>4. ASSUME Useless(t.sid, w) PROVE Useless(t.sid, w)'
          BY <3>2, <4>2, <4>4, UselessStep
        <4>. QED BY <4>1, <4>3, <4>4
      <3>. QED BY <1>3, <2>2, <3>1, <3>2 DEF Useless
    <2>. QED BY <1>2, <1>3, <2>1, <2>2
  <1>7. ASSUME NEW c \in Clients, NEW t \in tokens', request'[c].pc = "delete",
               t.ver < request'[c].ver
        PROVE  t.sid \in request'[c].keys \/ Useless(t.sid, request[c].ver)'
    <2>1. CASE request'[c] = request[c]
      <3>0. PICK K : K = request[c].keys
        OBVIOUS
      <3>1. PICK w \in Nat : w = request[c].ver
        BY <1>1
      <3>2. \A u \in tokens' : u.ver < w => u.sid \in K \/ Useless(u.sid, w)'
        <4>1. w <= version /\ \A u \in tokens : u.ver < w => u.sid \in K \/ Useless(u.sid, w)
          BY <1>7, <2>1, <3>0, <3>1 DEF CutInv
        <4>. QED BY <4>1, CutOffStep
      <3>. QED BY <1>7, <2>1, <3>0, <3>1, <3>2 DEF Useless
    <2>2. CASE RevokeScan(c)
      <3>1. request'[c].keys = {s \in Sids : current[s] # 0}
        BY <2>2, RequestMoves DEF Moved
      <3>2. UNCHANGED <<tokens, current>>
        BY <2>2 DEF RevokeScan, given
      <3>. QED BY <1>1, <1>7, <3>1, <3>2 DEF Useless
    <2>. QED BY <1>7, <2>1, <2>2, DeletingStep
  <1>. QED BY <1>4, <1>5, <1>6, <1>7 DEF CutInv

\* When a change of the password has deleted its keys to the end, it has ended every
\* session of before.
THEOREM ChangedPasswordEndsSessions == AuthSpec => []ChangeEndsSessions
  <1>1. AuthTyped /\ CutInv => ChangeEndsSessions
    <2>. SUFFICES ASSUME AuthTyped, CutInv, NEW t \in tokens, NEW a \in access,
                         t.sid = a.sid, t.ver < cleaned, Accepted(a)
                  PROVE  FALSE
      BY DEF ChangeEndsSessions
    <2>1. Useless(t.sid, cleaned)
      BY DEF CutInv
    <2>2. a.ver < cleaned
      BY <2>1 DEF Useless, Accepted
    <2>3. a.ver = version /\ cleaned <= version
      BY DEF Accepted, CutInv
    <2>4. version \in Nat /\ cleaned \in Nat
      BY DEF AuthTyped, AuthTypeOK, Versions
    <2>. QED BY <2>2, <2>3, <2>4
  <1>2. AuthInit => SessionInv
    BY SessionInit
  <1>. QED
    BY <1>1, <1>2, CutInit, AuthTypedInit, AuthTypedStep, SessionStep, CutStep, PTL DEF AuthSpec

-----------------------------------------------------------------------------
(* Memberships.                                                            *)

MemberRow ==
    [org : Places, status : {"none", "active", "revoked", "deleted"}, role : BOOLEAN]
TransferRow ==
    [mem : 0 .. MaxRows, from : Places, to : Places,
     status : {"none", "pending", "approved", "rejected"}]
AdminRow ==
    [pc : {"idle", "add", "ensure", "role", "initiate", "look", "accept"},
     id : 0 .. MaxRows + MaxTransfers, org : Places, seen : BOOLEAN]

\* A call and a request are about rows that are there.
CallsAreAbout ==
    /\ \A r \in Transfers : transfer[r].status # "none" =>
          transfer[r].mem \in Members /\ member[transfer[r].mem].status # "none"
    /\ \A a \in Admins :
          /\ admin[a].pc \in {"role", "initiate"} =>
                admin[a].id \in Members /\ member[admin[a].id].status # "none"
          /\ admin[a].pc \in {"look", "accept"} =>
                admin[a].id \in Transfers /\ transfer[admin[a].id].status # "none"

MemberInv == MemberTypeOK /\ CallsAreAbout /\ TransferIsWhole

\* What no step but an accepted transfer does: rows stay, and none comes to be deleted.
RowsKept ==
    /\ member' \in [Members -> MemberRow]
    /\ \A m \in Members :
          /\ member[m].status # "none" => member'[m].status # "none"
          /\ member'[m].status = "deleted" <=> member[m].status = "deleted"

\* The next row is added to the table.
LEMMA InsertKeeps ==
    ASSUME NEW f \in [Members -> MemberRow], NEW m \in Members, NEW o \in Places,
           NEW role \in BOOLEAN
    PROVE  /\ Insert(f, m, o, role) \in [Members -> MemberRow]
           /\ Insert(f, m, o, role)[m].status = "active"
           /\ \A k \in Members \ {m} : Insert(f, m, o, role)[k] = f[k]
  BY DEF Insert, MemberRow

\* A row's status or role is changed.
LEMMA RowChanges ==
    ASSUME NEW f \in [Members -> MemberRow], NEW m \in Members,
           NEW s \in {"active", "revoked", "deleted"}
    PROVE  /\ [f EXCEPT ![m].status = s] \in [Members -> MemberRow]
           /\ [f EXCEPT ![m].status = s][m].status = s
           /\ \A k \in Members \ {m} : [f EXCEPT ![m].status = s][k] = f[k]
           /\ [f EXCEPT ![m].role = TRUE] \in [Members -> MemberRow]
           /\ \A k \in Members : [f EXCEPT ![m].role = TRUE][k].status = f[k].status
  BY DEF MemberRow

\* A call that is over is idle, and the others go on.
LEMMA CallDone ==
    ASSUME NEW a \in Admins, admin \in [Admins -> AdminRow], Done(a)
    PROVE  /\ admin' \in [Admins -> AdminRow]
           /\ admin'[a].pc = "idle"
           /\ \A b \in Admins \ {a} : admin'[b] = admin[b]
  <1>1. NoAdmin \in AdminRow /\ NoAdmin.pc = "idle"
    BY MemberAssumption DEF NoAdmin, AdminRow, Places
  <1>. QED BY <1>1 DEF Done

\* A call that goes on has what it goes on with, and the others are as they were.
LEMMA CallProceeds ==
    ASSUME NEW a \in Admins, admin \in [Admins -> AdminRow],
           NEW pc \in {"idle", "add", "ensure", "role", "initiate", "look", "accept"},
           NEW id \in 0 .. MaxRows + MaxTransfers, NEW o \in Places, NEW seen \in BOOLEAN,
           Proceeds(a, pc, id, o, seen)
    PROVE  /\ admin' \in [Admins -> AdminRow]
           /\ admin'[a].pc = pc /\ admin'[a].id = id
           /\ \A b \in Admins \ {a} : admin'[b] = admin[b]
  <1>1. [pc |-> pc, id |-> id, org |-> o, seen |-> seen] \in AdminRow
    BY DEF AdminRow
  <1>. QED BY <1>1 DEF Proceeds

\* What each action does to the memberships.
LEMMA RowsStay ==
    ASSUME MemberTypeOK
    PROVE  /\ \A a \in Admins : AddCommit(a) \/ EnsureCommit(a) => RowsKept
           /\ \A a \in Admins : RoleCommit(a) /\ admin[a].id \in Members => RowsKept
           /\ \A o \in Orgs : ApproveJoin(o) => RowsKept
           /\ \A m \in Members : Activate(m) \/ Remove(m) => RowsKept
           /\ UNCHANGED member => RowsKept
  <1>1. member \in [Members -> MemberRow] /\ \A a \in Admins : admin[a].org \in Places
    BY DEF MemberTypeOK, MemberRow
  <1>2. UNCHANGED member => RowsKept
    BY <1>1 DEF RowsKept
  <1>3. ASSUME NEW m \in Members, NEW o \in Places, NEW role \in BOOLEAN,
               FreeMember(m), member' = Insert(member, m, o, role)
        PROVE  RowsKept
    <2>1. member' \in [Members -> MemberRow] /\ member'[m].status = "active"
          /\ \A k \in Members \ {m} : member'[k] = member[k]
      BY <1>1, <1>3, InsertKeeps
    <2>. QED BY <2>1, <1>3 DEF FreeMember, RowsKept
  <1>4. ASSUME NEW a \in Admins, AddCommit(a) \/ EnsureCommit(a) PROVE RowsKept
    <2>1. "home" \in Places
      BY DEF Places
    <2>. QED BY <1>1, <1>2, <1>3, <1>4, <2>1 DEF AddCommit, EnsureCommit
  <1>5. ASSUME NEW a \in Admins, RoleCommit(a), admin[a].id \in Members PROVE RowsKept
    <2>. DEFINE m == admin[a].id  o == admin[a].org
                accepted == [member[m] EXCEPT !.org = o, !.role = TRUE]
                left(k) == [member[k] EXCEPT !.status = "revoked"]
    <2>1. CASE UNCHANGED member
      BY <2>1, <1>2
    <2>2. CASE member' = [k \in Members |-> IF k = m THEN accepted
                                                ELSE IF Active(k) THEN left(k) ELSE member[k]]
      <3>1. accepted \in MemberRow /\ accepted.status = member[m].status
        BY <1>1, <1>5 DEF MemberRow
      <3>2. \A k \in Members : left(k) \in MemberRow /\ left(k).status = "revoked"
        BY <1>1 DEF MemberRow
      <3>3. \A k \in Members : /\ member'[k] \in MemberRow
                               /\ \/ member'[k].status = member[k].status
                                  \/ Active(k) /\ member'[k].status = "revoked"
        <4>. HIDE DEF accepted, left
        <4>. QED BY <2>2, <3>1, <3>2, <1>1
      <3>4. member' \in [Members -> MemberRow]
        <4>. HIDE DEF accepted, left
        <4>. QED BY <2>2, <3>1, <3>2, <1>1
      <3>. QED BY <3>3, <3>4 DEF RowsKept, Active
    <2>. QED BY <2>1, <2>2, <1>5 DEF RoleCommit
  <1>6. ASSUME NEW o \in Orgs, ApproveJoin(o) PROVE RowsKept
    <2>1. o \in Places
      BY DEF Places
    <2>2. ASSUME NEW m \in Members, member' = [member EXCEPT ![m].role = TRUE] PROVE RowsKept
      <3>1. member' \in [Members -> MemberRow]
        BY <2>2, <1>1, RowChanges
      <3>2. \A k \in Members : member'[k].status = member[k].status
        BY <2>2, <1>1 DEF MemberRow
      <3>. QED BY <3>1, <3>2 DEF RowsKept
    <2>. QED BY <1>3, <1>6, <2>1, <2>2 DEF ApproveJoin
  <1>7. ASSUME NEW m \in Members, Activate(m) \/ Remove(m) PROVE RowsKept
    <2>1. PICK s \in {"active", "revoked"} : member' = [member EXCEPT ![m].status = s]
      BY <1>7 DEF Activate, Remove
    <2>2. /\ member' \in [Members -> MemberRow] /\ member'[m].status = s
          /\ \A k \in Members \ {m} : member'[k] = member[k]
      <3>1. s \in {"active", "revoked", "deleted"}
        OBVIOUS
      <3>2. [member EXCEPT ![m].status = s] \in [Members -> MemberRow]
        BY <3>1, <1>1, RowChanges
      <3>. QED BY <2>1, <3>1, <3>2, <1>1 DEF MemberRow
    <2>3. member[m].status \in {"active", "revoked"}
      BY <1>7 DEF Activate, Remove, Active
    <2>. QED BY <2>2, <2>3 DEF RowsKept
  <1>. QED BY <1>2, <1>4, <1>5, <1>6, <1>7

\* What a call does next is about a row that it has just found.
CallsFind ==
    /\ admin' \in [Admins -> AdminRow]
    /\ \A a \in Admins :
          \/ admin'[a] = admin[a]
          \/ admin'[a].pc \in {"idle", "add", "ensure"}
          \/ /\ admin'[a].pc \in {"role", "initiate"}
             /\ admin'[a].id \in Members /\ member[admin'[a].id].status # "none"
          \/ /\ admin'[a].pc \in {"look", "accept"}
             /\ admin'[a].id \in Transfers /\ transfer[admin'[a].id].status # "none"

\* No step gives a call a row that it did not find.
LEMMA CallsHaveFound == MemberInv /\ [MemberNext]_memberVars => CallsFind
  <1>. SUFFICES ASSUME MemberInv, [MemberNext]_memberVars PROVE CallsFind
    OBVIOUS
  <1>1. /\ admin \in [Admins -> AdminRow]
        /\ \A r \in Transfers : transfer[r].from \in Places /\ transfer[r].to \in Places
        /\ \A a \in Admins : admin[a].org \in Places
    BY DEF MemberInv, MemberTypeOK, AdminRow
  <1>2. /\ 0 \in 0 .. MaxRows + MaxTransfers
        /\ Members \subseteq 0 .. MaxRows + MaxTransfers
        /\ Transfers \subseteq 0 .. MaxRows + MaxTransfers
        /\ "home" \in Places /\ Orgs \subseteq Places
    BY MemberAssumption DEF Members, Transfers, Places
  <1>3. UNCHANGED admin => CallsFind
    BY <1>1 DEF CallsFind
  <1>4. ASSUME NEW a \in Admins, Done(a) PROVE CallsFind
    BY <1>1, <1>4, CallDone DEF CallsFind
  <1>5. ASSUME NEW a \in Admins, NEW pc \in {"add", "ensure"}, NEW o \in Places,
               Proceeds(a, pc, 0, o, FALSE)
        PROVE  CallsFind
    <2>1. /\ pc \in {"idle", "add", "ensure", "role", "initiate", "look", "accept"}
          /\ FALSE \in BOOLEAN
      OBVIOUS
    <2>2. /\ admin' \in [Admins -> AdminRow] /\ admin'[a].pc = pc
          /\ \A b \in Admins \ {a} : admin'[b] = admin[b]
      BY <1>1, <1>2, <1>5, <2>1, CallProceeds
    <2>. QED BY <2>2 DEF CallsFind
  <1>6. ASSUME NEW a \in Admins, NEW m \in Members, NEW o \in Places, Active(m),
               NEW pc \in {"role", "initiate"}, Proceeds(a, pc, m, o, FALSE)
        PROVE  CallsFind
    <2>1. /\ pc \in {"idle", "add", "ensure", "role", "initiate", "look", "accept"}
          /\ FALSE \in BOOLEAN /\ m \in 0 .. MaxRows + MaxTransfers
      BY <1>2
    <2>2. /\ admin' \in [Admins -> AdminRow] /\ admin'[a].pc = pc /\ admin'[a].id = m
          /\ \A b \in Admins \ {a} : admin'[b] = admin[b]
      <3>1. [pc |-> pc, id |-> m, org |-> o, seen |-> FALSE] \in AdminRow
        BY <2>1 DEF AdminRow
      <3>. QED BY <1>1, <1>6, <3>1 DEF Proceeds
    <2>. QED BY <2>2, <1>6 DEF CallsFind, Active
  <1>7. ASSUME NEW a \in Admins, NEW r \in Transfers, NEW o \in Places,
               transfer[r].status # "none", NEW seen \in BOOLEAN,
               NEW pc \in {"look", "accept"}, Proceeds(a, pc, r, o, seen)
        PROVE  CallsFind
    <2>1. /\ pc \in {"idle", "add", "ensure", "role", "initiate", "look", "accept"}
          /\ r \in 0 .. MaxRows + MaxTransfers
      BY <1>2
    <2>2. /\ admin' \in [Admins -> AdminRow] /\ admin'[a].pc = pc /\ admin'[a].id = r
          /\ \A b \in Admins \ {a} : admin'[b] = admin[b]
      BY <1>1, <1>7, <2>1, CallProceeds
    <2>. QED BY <2>2, <1>7 DEF CallsFind
  <1>8. ASSUME NEW a \in Admins, NEW o \in Orgs, AddRead(a, o) PROVE CallsFind
    BY <1>2, <1>5, <1>8 DEF AddRead
  <1>9. ASSUME NEW a \in Admins, EnsureRead(a) PROVE CallsFind
    BY <1>2, <1>5, <1>9 DEF EnsureRead
  <1>10. ASSUME NEW a \in Admins, NEW m \in Members, NEW o \in Orgs,
                RoleRead(a, m, o) \/ InitiateRead(a, m, o)
         PROVE  CallsFind
    BY <1>2, <1>6, <1>10 DEF RoleRead, InitiateRead, Proceeds
  <1>11. ASSUME NEW a \in Admins, NEW r \in Transfers, AcceptRead(a, r) PROVE CallsFind
    BY <1>1, <1>7, <1>11 DEF AcceptRead
  <1>12. ASSUME NEW a \in Admins, AcceptLook(a) PROVE CallsFind
    <2>1. admin[a].id \in Transfers /\ transfer[admin[a].id].status # "none"
      BY <1>12 DEF AcceptLook, Does, MemberInv, CallsAreAbout
    <2>2. ActiveIn(admin[a].org) \in BOOLEAN
      BY DEF ActiveIn
    <2>. QED BY <1>1, <1>7, <1>12, <2>1, <2>2 DEF AcceptLook
  <1>. QED
    BY <1>3, <1>4, <1>8, <1>9, <1>10, <1>11, <1>12
    DEF MemberNext, memberVars, AddCommit, EnsureCommit, RoleCommit, InitiateCommit,
        AcceptCommit, ApproveJoin, Activate, Remove, Reject

\* There is no membership at first.
LEMMA MemberInit0 == MemberInit => MemberInv
  <1>. SUFFICES ASSUME MemberInit PROVE MemberInv
    OBVIOUS
  <1>1. /\ MaxRows \in Nat /\ MaxTransfers \in Nat /\ "home" \in Places
        /\ 0 \in 0 .. MaxRows /\ 0 \in 0 .. MaxRows + MaxTransfers
    BY MemberAssumption DEF Places
  <1>2. /\ NoMember \in MemberRow
        /\ [org |-> "home", status |-> "active", role |-> TRUE] \in MemberRow
        /\ NoTransfer \in TransferRow /\ NoAdmin \in AdminRow
    BY <1>1 DEF NoMember, NoTransfer, NoAdmin, MemberRow, TransferRow, AdminRow
  <1>3. MemberTypeOK
    <2>1. member \in [Members -> MemberRow] /\ transfer \in [Transfers -> TransferRow]
          /\ admin \in [Admins -> AdminRow] /\ personal \in BOOLEAN
      BY <1>2 DEF MemberInit
    <2>. QED BY <2>1 DEF MemberTypeOK, MemberRow, TransferRow, AdminRow
  <1>4. /\ \A m \in Members : member[m].status # "deleted"
        /\ \A r \in Transfers : transfer[r].status = "none"
        /\ \A a \in Admins : admin[a].pc = "idle"
    BY DEF MemberInit, NoMember, NoTransfer, NoAdmin
  <1>. QED BY <1>3, <1>4 DEF MemberInv, CallsAreAbout, TransferIsWhole

\* Every step keeps transfers whole: an accepted one changes the membership and the
\* request at once, and others leave what it looks at.
LEMMA MemberStep == MemberInv /\ [MemberNext]_memberVars => MemberInv'
  <1>. SUFFICES ASSUME MemberInv, [MemberNext]_memberVars PROVE MemberInv'
    OBVIOUS
  <1>1. CallsFind
    BY CallsHaveFound
  <1>2. /\ member \in [Members -> MemberRow] /\ transfer \in [Transfers -> TransferRow]
        /\ admin \in [Admins -> AdminRow]
    BY DEF MemberInv, MemberTypeOK, MemberRow, TransferRow, AdminRow
  <1>3. personal' \in BOOLEAN
    BY DEF MemberInv, MemberTypeOK, MemberNext, memberVars, AddRead, AddCommit, ApproveJoin,
           EnsureRead, EnsureCommit, Activate, Remove, RoleRead, RoleCommit, InitiateRead,
           InitiateCommit, AcceptRead, AcceptLook, AcceptCommit, Reject
  <1>4. ASSUME RowsKept, UNCHANGED transfer PROVE MemberInv'
    <2>1. MemberTypeOK'
      BY <1>1, <1>2, <1>3, <1>4
      DEF CallsFind, RowsKept, MemberTypeOK, MemberRow, TransferRow, AdminRow
    <2>2. CallsAreAbout'
      BY <1>1, <1>2, <1>4 DEF CallsFind, RowsKept, CallsAreAbout, MemberInv
    <2>3. TransferIsWhole'
      BY <1>2, <1>4 DEF RowsKept, TransferIsWhole, MemberInv
    <2>. QED BY <2>1, <2>2, <2>3 DEF MemberInv
  <1>5. ASSUME NEW a \in Admins, InitiateCommit(a) PROVE MemberInv'
    <2>. DEFINE m == admin[a].id
                row == [mem |-> m, from |-> member[m].org, to |-> admin[a].org, status |-> "pending"]
    <2>1. m \in Members /\ member[m].status # "none"
      BY <1>5 DEF InitiateCommit, Does, MemberInv, CallsAreAbout
    <2>2. row \in TransferRow /\ row.mem = m /\ row.status = "pending"
      <3>1. m \in 0 .. MaxRows /\ member[m].org \in Places /\ admin[a].org \in Places
        BY <2>1, <1>2, MemberAssumption DEF Members, MemberRow, AdminRow
      <3>. QED BY <3>1 DEF TransferRow
    <2>3. PICK r \in Transfers : transfer[r].status = "none" /\ transfer' = [transfer EXCEPT ![r] = row]
      BY <1>5 DEF InitiateCommit
    <2>. HIDE DEF row
    <2>4. /\ transfer' \in [Transfers -> TransferRow] /\ transfer'[r] = row
          /\ \A k \in Transfers \ {r} : transfer'[k] = transfer[k]
      BY <1>2, <2>2, <2>3
    <2>5. member' = member
      BY <1>5 DEF InitiateCommit
    <2>6. MemberTypeOK'
      BY <1>1, <1>2, <1>3, <2>4, <2>5
      DEF CallsFind, MemberTypeOK, MemberRow, TransferRow, AdminRow
    <2>7. CallsAreAbout'
      BY <1>1, <1>2, <2>1, <2>2, <2>4, <2>5 DEF CallsFind, CallsAreAbout, MemberInv
    <2>8. TransferIsWhole'
      BY <2>2, <2>3, <2>4, <2>5 DEF TransferIsWhole, MemberInv
    <2>. QED BY <2>6, <2>7, <2>8 DEF MemberInv
  <1>6. ASSUME NEW r \in Transfers, Reject(r) PROVE MemberInv'
    <2>1. /\ transfer' = [transfer EXCEPT ![r].status = "rejected"] /\ member' = member
          /\ transfer[r].status = "pending"
      BY <1>6 DEF Reject
    <2>2. /\ transfer' \in [Transfers -> TransferRow]
          /\ transfer'[r].status = "rejected" /\ transfer'[r].mem = transfer[r].mem
          /\ \A k \in Transfers \ {r} : transfer'[k] = transfer[k]
      BY <1>2, <2>1 DEF TransferRow
    <2>6. MemberTypeOK'
      BY <1>1, <1>2, <1>3, <2>1, <2>2
      DEF CallsFind, MemberTypeOK, MemberRow, TransferRow, AdminRow
    <2>7. CallsAreAbout'
      BY <1>1, <1>2, <2>1, <2>2 DEF CallsFind, CallsAreAbout, MemberInv
    <2>8. TransferIsWhole'
      BY <2>1, <2>2 DEF TransferIsWhole, MemberInv
    <2>. QED BY <2>6, <2>7, <2>8 DEF MemberInv
  <1>7. ASSUME NEW a \in Admins, AcceptCommit(a), ~AcceptFails(a) PROVE MemberInv'
    <2>. DEFINE r == admin[a].id  m == transfer[r].mem
                gone == [member EXCEPT ![m].status = "deleted"]
    <2>1. r \in Transfers /\ transfer[r].status = "pending"
      BY <1>7 DEF AcceptCommit, AcceptFails, Does, MemberInv, CallsAreAbout
    <2>2. m \in Members /\ member[m].status # "none"
      BY <2>1 DEF MemberInv, CallsAreAbout
    <2>3. /\ gone \in [Members -> MemberRow] /\ gone[m].status = "deleted"
          /\ \A k \in Members \ {m} : gone[k] = member[k]
      BY <1>2, <2>2, RowChanges
    <2>4. /\ \/ member' = gone
             \/ \E k \in Members : FreeMember(k) /\ member' = Insert(gone, k, admin[a].org, FALSE)
          /\ transfer' = [transfer EXCEPT ![r].status = "approved"]
      BY <1>7, <2>1 DEF AcceptCommit
    <2>5. /\ transfer' \in [Transfers -> TransferRow]
          /\ transfer'[r].status = "approved" /\ transfer'[r].mem = m
          /\ \A k \in Transfers \ {r} : transfer'[k] = transfer[k]
      BY <1>2, <2>1, <2>4 DEF TransferRow
    <2>. HIDE DEF gone
    <2>6. /\ member' \in [Members -> MemberRow] /\ member'[m].status = "deleted"
          /\ \A k \in Members \ {m} :
                /\ member[k].status # "none" => member'[k].status # "none"
                /\ member'[k].status = "deleted" <=> member[k].status = "deleted"
      <3>1. CASE member' = gone
        BY <3>1, <2>3
      <3>2. ASSUME NEW k \in Members, FreeMember(k), member' = Insert(gone, k, admin[a].org, FALSE)
            PROVE  /\ member' \in [Members -> MemberRow] /\ k # m
                   /\ member'[k].status = "active" /\ member[k].status = "none"
                   /\ \A j \in Members \ {k} : member'[j] = gone[j]
        <4>1. admin[a].org \in Places
          BY <1>2 DEF AdminRow
        <4>2. k # m /\ member[k].status = "none"
          BY <3>2, <2>2 DEF FreeMember
        <4>3. FALSE \in BOOLEAN
          OBVIOUS
        <4>4. /\ member' \in [Members -> MemberRow] /\ member'[k].status = "active"
              /\ \A j \in Members \ {k} : member'[j] = gone[j]
          <5>1. PICK o \in Places, role \in BOOLEAN : o = admin[a].org /\ role = FALSE
            BY <4>1, <4>3
          <5>2. /\ Insert(gone, k, o, role) \in [Members -> MemberRow]
                /\ Insert(gone, k, o, role)[k].status = "active"
                /\ \A j \in Members \ {k} : Insert(gone, k, o, role)[j] = gone[j]
            BY <2>3, InsertKeeps
          <5>. QED BY <3>2, <5>1, <5>2
        <4>. QED BY <4>2, <4>4
      <3>3. ASSUME NEW k \in Members, FreeMember(k), member' = Insert(gone, k, admin[a].org, FALSE)
            PROVE  /\ member' \in [Members -> MemberRow] /\ member'[m].status = "deleted"
                   /\ \A j \in Members \ {m} :
                         /\ member[j].status # "none" => member'[j].status # "none"
                         /\ member'[j].status = "deleted" <=> member[j].status = "deleted"
        <4>1. /\ member' \in [Members -> MemberRow] /\ k # m
              /\ member'[k].status = "active" /\ member[k].status = "none"
              /\ \A j \in Members \ {k} : member'[j] = gone[j]
          BY <3>2, <3>3
        <4>. QED BY <4>1, <2>2, <2>3
      <3>. QED BY <3>1, <3>3, <2>4
    <2>7. MemberTypeOK'
      BY <1>1, <1>3, <2>5, <2>6
      DEF CallsFind, MemberTypeOK, MemberRow, TransferRow, AdminRow
    <2>8. CallsAreAbout'
      BY <1>1, <1>2, <2>1, <2>2, <2>5, <2>6 DEF CallsFind, CallsAreAbout, MemberInv
    <2>9. TransferIsWhole'
      BY <2>1, <2>5, <2>6 DEF TransferIsWhole, MemberInv
    <2>. QED BY <2>7, <2>8, <2>9 DEF MemberInv
  <1>8. ASSUME NEW a \in Admins, RoleCommit(a) PROVE admin[a].id \in Members
    BY <1>8 DEF RoleCommit, Does, MemberInv, CallsAreAbout
  <1>9. MemberTypeOK
    BY DEF MemberInv
  <1>10. ASSUME NEW a \in Admins, AcceptCommit(a), AcceptFails(a)
         PROVE  UNCHANGED <<member, transfer>>
    BY <1>10 DEF AcceptCommit
  <1>11. CASE UNCHANGED member /\ UNCHANGED transfer
    BY <1>4, <1>9, <1>11, RowsStay
  <1>12. ASSUME NEW a \in Admins, AddCommit(a) \/ EnsureCommit(a) \/ RoleCommit(a)
         PROVE  MemberInv'
    BY <1>4, <1>8, <1>9, <1>12, RowsStay DEF AddCommit, EnsureCommit, RoleCommit
  <1>13. ASSUME NEW o \in Orgs, ApproveJoin(o) PROVE MemberInv'
    BY <1>4, <1>9, <1>13, RowsStay DEF ApproveJoin
  <1>14. ASSUME NEW m \in Members, Activate(m) \/ Remove(m) PROVE MemberInv'
    BY <1>4, <1>9, <1>14, RowsStay DEF Activate, Remove
  <1>15. \A a \in Admins, o \in Orgs : AddRead(a, o) => UNCHANGED <<member, transfer>>
    BY DEF AddRead
  <1>16. \A a \in Admins : EnsureRead(a) \/ AcceptLook(a) => UNCHANGED <<member, transfer>>
    BY DEF EnsureRead, AcceptLook
  <1>17. \A a \in Admins, m \in Members, o \in Orgs :
            RoleRead(a, m, o) \/ InitiateRead(a, m, o) => UNCHANGED <<member, transfer>>
    BY DEF RoleRead, InitiateRead
  <1>18. \A a \in Admins, r \in Transfers : AcceptRead(a, r) => UNCHANGED <<member, transfer>>
    BY DEF AcceptRead
  <1>. QED
    BY <1>5, <1>6, <1>7, <1>10, <1>11, <1>12, <1>13, <1>14, <1>15, <1>16, <1>17, <1>18
    DEF MemberNext, memberVars

\* A transfer of a member is carried out as a whole or not at all, in whatever order
\* the reads and transactions of any number of calls come: the row is gone exactly if
\* its request was approved.
THEOREM TransfersAreWhole == MemberSpec => [](MemberTypeOK /\ TransferIsWhole)
  <1>1. MemberInv => MemberTypeOK /\ TransferIsWhole
    BY DEF MemberInv
  <1>. QED BY <1>1, MemberInit0, MemberStep, PTL DEF MemberSpec

-----------------------------------------------------------------------------
(* Invitations.                                                            *)

InviteRow ==
    [status : {"none", "pending", "accepted", "rejected", "revoked", "expired"},
     join : BOOLEAN, old : BOOLEAN]
PartyRow ==
    [pc : {"idle", "create", "accept", "expire"}, row : Invites \cup {NoOne},
     org : Hosts \cup {"none"}, emails : SUBSET Emails]

\* A call that accepts, or that marks a row old, has found the row.
InviteInv ==
    /\ InviteTypeOK
    /\ \A p \in Parties : party[p].pc \in {"accept", "expire"} => party[p].row \in Invites

\* There is no invitation at first.
LEMMA InviteBegins == InviteInit => InviteInv
  <1>. SUFFICES ASSUME InviteInit PROVE InviteInv
    OBVIOUS
  <1>1. NoInvite \in InviteRow /\ NoParty \in PartyRow
    BY DEF NoInvite, NoParty, InviteRow, PartyRow
  <1>2. invite \in [Invites -> InviteRow] /\ party \in [Parties -> PartyRow]
    BY <1>1 DEF InviteInit
  <1>. QED BY <1>2 DEF InviteInit, InviteInv, InviteTypeOK, InviteRow, PartyRow, NoParty

\* An invitation that gets another status, or grows old, is an invitation.
LEMMA RowMarked ==
    ASSUME invite \in [Invites -> InviteRow], NEW i \in Invites,
           NEW s \in {"none", "pending", "accepted", "rejected", "revoked", "expired"}
    PROVE  /\ [invite[i] EXCEPT !.status = s] \in InviteRow
           /\ [invite EXCEPT ![i].status = s] \in [Invites -> InviteRow]
           /\ [invite EXCEPT ![i].old = TRUE] \in [Invites -> InviteRow]
  BY DEF InviteRow

\* Every step keeps the types, and what a call has found.
LEMMA InviteStep == InviteInv /\ [InviteNext]_inviteVars => InviteInv'
  <1>. SUFFICES ASSUME InviteInv, [InviteNext]_inviteVars PROVE InviteInv'
    OBVIOUS
  <1>1. /\ invite \in [Invites -> InviteRow] /\ party \in [Parties -> PartyRow]
        /\ account \in [Emails -> {"none", "invited", "registered"}]
        /\ maker \in [Emails -> Invites \cup {NoOne}]
    BY DEF InviteInv, InviteTypeOK, InviteRow, PartyRow
  <1>2. invite' \in [Invites -> InviteRow]
    <2>1. ASSUME NEW p \in Parties, Create(p) PROVE invite' \in [Invites -> InviteRow]
      <3>1. CASE UNCHANGED invite
        BY <3>1, <1>1
      <3>2. CASE Add(party[p].org, party[p].emails, FALSE)
        <4>1. [status |-> "pending", join |-> FALSE, old |-> FALSE] \in InviteRow
          BY DEF InviteRow
        <4>. QED BY <3>2, <4>1, <1>1 DEF Add
      <3>. QED BY <2>1, <3>1, <3>2 DEF Create
    <2>2. ASSUME NEW o \in Hosts, NEW e \in Emails, JoinOrg(o, e)
          PROVE  invite' \in [Invites -> InviteRow]
      <3>1. [status |-> "pending", join |-> TRUE, old |-> FALSE] \in InviteRow
        BY DEF InviteRow
      <3>. QED BY <2>2, <3>1, <1>1 DEF JoinOrg, Add
    <2>3. ASSUME NEW o \in Hosts, NEW e \in Emails, NEW verdict \in {"accepted", "rejected"},
                 AnswerJoin(o, e, verdict)
          PROVE  invite' \in [Invites -> InviteRow]
      <3>1. \A i \in Invites : [invite[i] EXCEPT !.status = verdict] \in InviteRow
        BY <1>1 DEF InviteRow
      <3>. QED BY <2>3, <3>1, <1>1 DEF AnswerJoin
    <2>4. ASSUME MarkExpired PROVE invite' \in [Invites -> InviteRow]
      <3>1. \A i \in Invites : [invite[i] EXCEPT !.status = "expired"] \in InviteRow
        BY <1>1 DEF InviteRow
      <3>. QED BY <2>4, <3>1, <1>1 DEF MarkExpired
    <2>5. ASSUME NEW i \in Invites, RevokeInvite(i) \/ GrowOld(i)
          PROVE  invite' \in [Invites -> InviteRow]
      <3>1. CASE RevokeInvite(i)
        BY <3>1, <1>1, RowMarked DEF RevokeInvite
      <3>2. CASE GrowOld(i)
        BY <3>2, <1>1, RowMarked DEF GrowOld
      <3>. QED BY <2>5, <3>1, <3>2
    <2>6. ASSUME NEW p \in Parties, AcceptExpires(p) \/ Accept(p)
          PROVE  invite' \in [Invites -> InviteRow]
      <3>1. party[p].row \in Invites
        BY <2>6 DEF AcceptExpires, Accept, Stage, InviteInv
      <3>2. PICK i \in Invites : i = party[p].row
        BY <3>1
      <3>3. /\ [invite EXCEPT ![i].status = "expired"] \in [Invites -> InviteRow]
            /\ [invite EXCEPT ![i].status = "accepted"] \in [Invites -> InviteRow]
        BY <1>1, RowMarked
      <3>. QED BY <2>6, <3>2, <3>3, <1>1 DEF AcceptExpires, Accept
    <2>. QED
      BY <1>1, <2>1, <2>2, <2>3, <2>4, <2>5, <2>6
      DEF InviteNext, inviteVars, CreateRead, AcceptFind, RegisterUser
  <1>3. /\ party' \in [Parties -> PartyRow]
        /\ \A p \in Parties : party'[p].pc \in {"accept", "expire"} => party'[p].row \in Invites
    <2>. DEFINE Fine == /\ party' \in [Parties -> PartyRow]
                        /\ \A p \in Parties :
                              party'[p].pc \in {"accept", "expire"} => party'[p].row \in Invites
    <2>1. CASE UNCHANGED party
      BY <2>1, <1>1 DEF InviteInv
    <2>2. ASSUME NEW p \in Parties, Quits(p) PROVE Fine
      <3>1. NoParty \in PartyRow /\ NoParty.pc = "idle"
        BY DEF NoParty, PartyRow
      <3>. QED BY <2>2, <3>1, <1>1 DEF Quits, InviteInv
    <2>3. ASSUME NEW p \in Parties, NEW o \in Hosts, NEW E \in SUBSET Emails, CreateRead(p, o, E)
          PROVE  Fine
      <3>. DEFINE row == [pc |-> "create", row |-> NoOne, org |-> o, emails |-> {e \in E : ~Known(e)}]
      <3>1. row \in PartyRow /\ row.pc = "create"
        BY DEF PartyRow
      <3>2. party' = [party EXCEPT ![p] = row]
        BY <2>3 DEF CreateRead, Enters
      <3>. HIDE DEF row
      <3>. QED BY <3>1, <3>2, <1>1 DEF InviteInv
    <2>4. ASSUME NEW p \in Parties, NEW i \in Invites, AcceptFind(p, i) PROVE Fine
      <3>1. PICK pc \in {"expire", "accept"} : Enters(p, pc, i, "none", {})
        BY <2>4 DEF AcceptFind
      <3>. DEFINE row == [pc |-> pc, row |-> i, org |-> "none", emails |-> {}]
      <3>2. row \in PartyRow /\ row.row \in Invites
        BY DEF PartyRow
      <3>3. party' = [party EXCEPT ![p] = row]
        BY <3>1 DEF Enters
      <3>. HIDE DEF row
      <3>. QED BY <3>2, <3>3, <1>1 DEF InviteInv
    <2>. QED
      BY <2>1, <2>2, <2>3, <2>4
      DEF InviteNext, inviteVars, Create, AcceptExpires, Accept, JoinOrg, AnswerJoin,
          RevokeInvite, GrowOld, MarkExpired, RegisterUser
  <1>4. /\ account' \in [Emails -> {"none", "invited", "registered"}]
        /\ maker' \in [Emails -> Invites \cup {NoOne}]
    <2>1. ASSUME NEW p \in Parties, Accept(p)
          PROVE  /\ account' \in [Emails -> {"none", "invited", "registered"}]
                 /\ maker' \in [Emails -> Invites \cup {NoOne}]
      <3>1. party[p].row \in Invites
        BY <2>1 DEF Accept, Stage, InviteInv
      <3>. QED BY <2>1, <3>1, <1>1 DEF Accept
    <2>. QED
      BY <2>1, <1>1
      DEF InviteNext, inviteVars, Create, CreateRead, AcceptFind, AcceptExpires, JoinOrg,
          AnswerJoin, RevokeInvite, GrowOld, MarkExpired, RegisterUser
  <1>. QED BY <1>2, <1>3, <1>4 DEF InviteInv, InviteTypeOK, InviteRow, PartyRow

\* The rows of the invitations, the accounts and the calls stay in their types, and an
\* account is made of an invitation that is pending at that moment, whatever other
\* calls did to the row since its code was looked up.
THEOREM AccountsOfPendingInvites == InviteSpec => []InviteTypeOK /\ NoLateAccount
  <1>1. InviteInv => InviteTypeOK
    BY DEF InviteInv
  <1>2. [InviteNext]_inviteVars =>
           [\A e \in Emails : maker'[e] # maker[e] => IsPending(maker'[e])]_inviteVars
    <2>1. ASSUME NEW p \in Parties, Accept(p), NEW e \in Emails, maker'[e] # maker[e]
          PROVE  IsPending(maker'[e])
      <3>1. /\ MarkUsed(party[p].row)
            /\ maker' = [maker EXCEPT ![party[p].row[2]] = party[p].row]
        BY <2>1 DEF Accept
      <3>2. maker'[e] = party[p].row
        BY <2>1, <3>1
      <3>. QED BY <3>1, <3>2 DEF MarkUsed
    <2>. QED
      BY <2>1
      DEF InviteNext, inviteVars, Create, CreateRead, AcceptFind, AcceptExpires, JoinOrg,
          AnswerJoin, RevokeInvite, GrowOld, MarkExpired, RegisterUser
  <1>. QED
    BY <1>1, <1>2, InviteBegins, InviteStep, PTL DEF InviteSpec, NoLateAccount

-----------------------------------------------------------------------------
(* Organizations.                                                          *)

Made(o) == standing[o] # "none"

\* The rows of the closure about organization o, and what they are for one of each type.
RowsOf(o) == {r \in closure : r[2] = o}
AgentRows(a) == {<<a, a, 0>>, <<Root, a, 1>>}
DistributorRows(d, a) == {<<d, d, 0>>, <<a, d, 1>>, <<Root, d, 2>>}
InstallerRows(i, d, a) == {<<i, i, 0>>, <<d, i, 1>>, <<a, i, 2>>, <<Root, i, 3>>}

\* The rows they may have at most, once moves have overlapped.
AnyDistributorRows(d) == {<<d, d, 0>>, <<Root, d, 2>>} \cup {<<a, d, 1>> : a \in Agents}
AnyInstallerRows(i, d) == {<<i, i, 0>>, <<d, i, 1>>, <<Root, i, 3>>} \cup {<<a, i, 2>> : a \in Agents}

TreeRows == Organizations \X Organizations \X (0 .. 3)
TreeMoves ==
    [org : Organizations, to : Organizations,
     levels : (SUBSET Organizations) \X (SUBSET Organizations) \X (SUBSET Organizations),
     doomed : SUBSET TreeRows, late : BOOLEAN]

TreeTyped ==
    /\ standing \in [Organizations -> {"none", "live", "deleted"}]
    /\ parent \in [Organizations -> Organizations]
    /\ inherited \in [Organizations -> Organizations]
    /\ closure \subseteq TreeRows
    /\ limit \in [Organizations -> 0 .. MaxLimit]
    /\ creating \in [org : Organizations, parent : Organizations, rows : SUBSET TreeRows,
                     limit : 0 .. MaxLimit, crossed : BOOLEAN]
    /\ moving \in [Movers -> TreeMoves]
    /\ moved \subseteq Organizations /\ crossed \subseteq Organizations

\* The root has itself above it, and what is not made has no rows.
RootAndOthers ==
    /\ Made(Root) /\ parent[Root] = Root /\ RowsOf(Root) = {<<Root, Root, 0>>}
    /\ \A o \in Organizations : ~Made(o) => RowsOf(o) = {}

AgentOK(a) == Made(a) => parent[a] = Root /\ RowsOf(a) = AgentRows(a)

DistributorOK(d) ==
    Made(d) => /\ parent[d] \in Agents /\ Made(parent[d])
               /\ <<d, d, 0>> \in closure /\ RowsOf(d) \subseteq AnyDistributorRows(d)
               /\ d \notin crossed => RowsOf(d) = DistributorRows(d, parent[d])

\* An installer has the row of its distributor, whatever became of the others.
InstallerOK(i) ==
    Made(i) => /\ parent[i] \in Distributors /\ Made(parent[i])
               /\ <<parent[i], i, 1>> \in closure
               /\ RowsOf(i) \subseteq AnyInstallerRows(i, parent[i])
               /\ IsLive(i) /\ i \notin crossed =>
                      /\ parent[i] \notin crossed
                      /\ RowsOf(i) = InstallerRows(i, parent[i], parent[parent[i]])

\* Only an installer is made wrong; a distributor was moved twice for it.
CrossedOK == crossed \subseteq Distributors \cup Installers /\ crossed \cap Distributors \subseteq moved

Shape ==
    /\ RootAndOthers /\ CrossedOK
    /\ \A a \in Agents : AgentOK(a)
    /\ \A d \in Distributors : DistributorOK(d)
    /\ \A i \in Installers : InstallerOK(i)

\* The organization that is being made has the rows it had to get when its making
\* began, those of now unless the one above it moved or was wrong itself.
Prepared(n) ==
    /\ ~Made(n.org) /\ Made(n.parent) /\ Fits(n.org, n.parent)
    /\ n.limit <= limit[n.parent]
    /\ n.org \in Agents => n.rows = AgentRows(n.org)
    /\ n.org \in Distributors => n.rows = DistributorRows(n.org, n.parent)
    /\ n.org \notin Installers => ~n.crossed
    /\ n.org \in Installers =>
           /\ <<n.parent, n.org, 1>> \in n.rows
           /\ n.rows \subseteq AnyInstallerRows(n.org, n.parent)
           /\ ~n.crossed => /\ n.parent \notin crossed
                            /\ n.rows = InstallerRows(n.org, n.parent, parent[n.parent])

CreationOK == creating = NoCreation \/ Prepared(creating)

\* A move has read a subtree of organizations that are made, and deletes only rows of
\* agents and the manufacturer about them.
HasRead(m) ==
    /\ m.org \in Agents \cup Distributors /\ Made(m.org) /\ Made(m.to) /\ Fits(m.org, m.to)
    /\ m.levels[1] = {m.org}
    /\ m.org \in Agents => m.levels[2] \subseteq Distributors /\ m.levels[3] \subseteq Installers
    /\ m.org \in Distributors => m.levels[2] \subseteq Installers /\ m.levels[3] = {}
    /\ \A x \in m.levels[2] \cup m.levels[3] : Made(x)
    /\ \A r \in m.doomed : /\ r[1] \in Agents \cup {Root} /\ r[1] # r[2]
                           /\ r[2] \in {m.org} \cup m.levels[2] \cup m.levels[3]

\* That of an agent deletes nothing it does not make again, of what is right. That of a
\* distributor deletes every row of the agent it leaves, unless another was faster.
Deletes(m) ==
    /\ m.org \in Agents => \A r \in m.doomed : r[2] \notin crossed => r[1] = Root
    /\ m.org \in Distributors => \A i \in m.levels[2] : parent[i] = m.org
    /\ m.org \in Distributors /\ ~m.late =>
           /\ m.org \notin crossed => <<parent[m.org], m.org, 1>> \in m.doomed
           /\ \A i \in m.levels[2] : i \notin crossed => <<parent[m.org], i, 2>> \in m.doomed

MovesOK == \A v \in Movers : moving[v] # NoMove => HasRead(moving[v]) /\ Deletes(moving[v])

TreeInv == TreeTyped /\ Shape /\ CreationOK /\ MovesOK /\ LimitsDescend

\* An organization is of one type.
LEMMA OneType ==
    /\ Organizations = {Root} \cup Agents \cup Distributors \cup Installers
    /\ \A a \in Agents : a # Root /\ a \notin Distributors /\ a \notin Installers
    /\ \A d \in Distributors : d # Root /\ d \notin Agents /\ d \notin Installers
    /\ \A i \in Installers : i # Root /\ i \notin Agents /\ i \notin Distributors
BY TreeAssumption DEF Organizations

\* Rows below the root, an agent and a distributor.
LEMMA BelowRoot ==
    ASSUME NEW o, NEW k \in Nat, RowsOf(Root) = {<<Root, Root, 0>>}
    PROVE  RowsBelow(o, Root, k) = {<<Root, o, 1 + k>>}
<1>1. RowsBelow(o, Root, k) = {<<r[1], o, r[3] + 1 + k>> : r \in {<<Root, Root, 0>>}}
  BY DEF RowsOf, RowsBelow
<1> QED
  BY <1>1

\* The rows that a child of an agent gets.
LEMMA BelowAgent ==
    ASSUME NEW o, NEW k \in Nat, NEW a, RowsOf(a) = AgentRows(a)
    PROVE  RowsBelow(o, a, k) = {<<a, o, 1 + k>>, <<Root, o, 2 + k>>}
<1>1. RowsBelow(o, a, k) = {<<r[1], o, r[3] + 1 + k>> : r \in {<<a, a, 0>>, <<Root, a, 1>>}}
  BY DEF RowsOf, RowsBelow, AgentRows
<1> QED
  BY <1>1

\* The rows that a child of a distributor gets.
LEMMA BelowDistributor ==
    ASSUME NEW o, NEW d, NEW a, RowsOf(d) = DistributorRows(d, a)
    PROVE  RowsBelow(o, d, 0) = {<<d, o, 1>>, <<a, o, 2>>, <<Root, o, 3>>}
<1>1. RowsBelow(o, d, 0) =
          {<<r[1], o, r[3] + 1 + 0>> : r \in {<<d, d, 0>>, <<a, d, 1>>, <<Root, d, 2>>}}
  BY DEF RowsOf, RowsBelow, DistributorRows
<1> QED
  BY <1>1

\* And if it is not known which rows the distributor has.
LEMMA BelowAnyDistributor ==
    ASSUME NEW o, NEW d, RowsOf(d) \subseteq AnyDistributorRows(d), <<d, d, 0>> \in closure
    PROVE  RowsBelow(o, d, 0) \subseteq AnyInstallerRows(o, d) /\ <<d, o, 1>> \in RowsBelow(o, d, 0)
<1>1. RowsBelow(o, d, 0) = {<<r[1], o, r[3] + 1 + 0>> : r \in RowsOf(d)}
  BY DEF RowsOf, RowsBelow
<1>2. ASSUME NEW r \in RowsOf(d)
      PROVE  <<r[1], o, r[3] + 1 + 0>> \in AnyInstallerRows(o, d)
  <2>1. r \in AnyDistributorRows(d)
    OBVIOUS
  <2>2. CASE r = <<d, d, 0>>
    BY <2>2 DEF AnyInstallerRows
  <2>3. CASE r = <<Root, d, 2>>
    BY <2>3 DEF AnyInstallerRows
  <2>4. ASSUME NEW a \in Agents, r = <<a, d, 1>>
        PROVE  <<r[1], o, r[3] + 1 + 0>> \in AnyInstallerRows(o, d)
    BY <2>4 DEF AnyInstallerRows
  <2> QED
    BY <2>1, <2>2, <2>3, <2>4 DEF AnyDistributorRows
<1>3. PICK s : s = <<d, d, 0>>
  OBVIOUS
<1>4. s \in RowsOf(d) /\ s[1] = d /\ s[3] + 1 + 0 = 1
  BY <1>3 DEF RowsOf
<1>5. <<d, o, 1>> \in RowsBelow(o, d, 0)
  BY <1>1, <1>4
<1> QED
  BY <1>1, <1>2, <1>5

\* All of these are rows.
LEMMA AnyRowsAreRows ==
    ASSUME NEW o \in Organizations
    PROVE  /\ AnyDistributorRows(o) \subseteq TreeRows
           /\ \A d \in Organizations : AnyInstallerRows(o, d) \subseteq TreeRows
<1>1. Root \in Organizations /\ Agents \subseteq Organizations
  BY OneType
<1>2. AnyDistributorRows(o) \subseteq TreeRows
  BY <1>1 DEF AnyDistributorRows, TreeRows
<1>3. ASSUME NEW d \in Organizations
      PROVE  AnyInstallerRows(o, d) \subseteq TreeRows
  BY <1>1 DEF AnyInstallerRows, TreeRows
<1> QED
  BY <1>2, <1>3

\* The invariant says what the runs check.
LEMMA TreeInvSuffices == TreeInv => TreeTypeOK /\ ClosureIsTree /\ LimitsDescend
<1> SUFFICES ASSUME TreeInv
             PROVE  TreeTypeOK /\ ClosureIsTree
  BY DEF TreeInv
<1>1. TreeTypeOK
  <2>1. \A v \in Movers : moving[v].org \in Organizations /\ moving[v].to \in Organizations
    BY DEF TreeInv, TreeTyped, TreeMoves
  <2>2. creating.org \in Organizations /\ creating.parent \in Organizations
    BY DEF TreeInv, TreeTyped
  <2> QED
    BY <2>1, <2>2 DEF TreeInv, TreeTyped, TreeRows, TreeTypeOK
<1>2. ASSUME NEW o \in Organizations \ {Root}, IsLive(o), o \notin crossed
      PROVE  RowsOf(o) = RowsBelow(o, parent[o], 0) \cup {<<o, o, 0>>}
  <2>1. Made(o) /\ RootAndOthers
    BY <1>2 DEF IsLive, Made, TreeInv, Shape
  <2>2. CASE o \in Agents
    <3>1. parent[o] = Root /\ RowsOf(o) = AgentRows(o)
      BY <2>1, <2>2 DEF TreeInv, Shape, AgentOK
    <3>2. RowsBelow(o, Root, 0) = {<<Root, o, 1>>}
      BY <2>1, BelowRoot DEF RootAndOthers
    <3> QED
      BY <3>1, <3>2 DEF AgentRows
  <2>3. CASE o \in Distributors
    <3>1. /\ parent[o] \in Agents /\ Made(parent[o])
          /\ RowsOf(o) = DistributorRows(o, parent[o])
      BY <1>2, <2>1, <2>3 DEF TreeInv, Shape, DistributorOK
    <3>2. PICK a : a = parent[o]
      OBVIOUS
    <3>3. RowsOf(a) = AgentRows(a)
      BY <3>1, <3>2 DEF TreeInv, Shape, AgentOK
    <3>4. RowsBelow(o, a, 0) = {<<a, o, 1>>, <<Root, o, 2>>}
      BY <3>3, BelowAgent
    <3> QED
      BY <3>1, <3>2, <3>4 DEF DistributorRows
  <2>4. CASE o \in Installers
    <3>1. /\ parent[o] \in Distributors /\ Made(parent[o]) /\ parent[o] \notin crossed
          /\ RowsOf(o) = InstallerRows(o, parent[o], parent[parent[o]])
      BY <1>2, <2>1, <2>4 DEF TreeInv, Shape, InstallerOK
    <3>2. PICK d, a : d = parent[o] /\ a = parent[d]
      OBVIOUS
    <3>3. RowsOf(d) = DistributorRows(d, a)
      BY <3>1, <3>2 DEF TreeInv, Shape, DistributorOK
    <3>4. RowsBelow(o, d, 0) = {<<d, o, 1>>, <<a, o, 2>>, <<Root, o, 3>>}
      BY <3>3, BelowDistributor
    <3> QED
      BY <3>1, <3>2, <3>4 DEF InstallerRows
  <2> QED
    BY <1>2, <2>2, <2>3, <2>4, OneType
<1>3. ClosureIsTree
  BY <1>2 DEF ClosureIsTree, RowsOf
<1> QED
  BY <1>1, <1>3

\* The manufacturer is there alone.
LEMMA TreeBegins == TreeInit => TreeInv
<1> SUFFICES ASSUME TreeInit
             PROVE  TreeInv
  OBVIOUS
<1>1. Root \in Organizations /\ MaxLimit \in 0 .. MaxLimit
  BY TreeAssumption DEF Organizations
<1>2. \A o \in Organizations : Made(o) <=> o = Root
  BY DEF TreeInit, Made
<1>3. TreeTyped
  <2>1. creating \in [org : Organizations, parent : Organizations, rows : SUBSET TreeRows,
                      limit : 0 .. MaxLimit, crossed : BOOLEAN]
    BY <1>1, TreeAssumption DEF TreeInit, NoCreation
  <2>2. limit \in [Organizations -> 0 .. MaxLimit]
    BY <1>1, TreeAssumption DEF TreeInit
  <2>3. closure \subseteq TreeRows
    BY <1>1 DEF TreeInit, TreeRows
  <2>4. moving \in [Movers -> TreeMoves]
    BY <1>1 DEF TreeInit, NoMove, TreeMoves
  <2> QED
    BY <1>1, <2>1, <2>2, <2>3, <2>4 DEF TreeInit, TreeTyped
<1>4. RootAndOthers
  BY <1>1, <1>2 DEF TreeInit, RootAndOthers, RowsOf
<1>5. Shape
  <2>1. CrossedOK
    BY DEF TreeInit, CrossedOK
  <2> QED
    BY <2>1, <1>2, <1>4, OneType DEF Shape, AgentOK, DistributorOK, InstallerOK
<1>6. LimitsDescend
  BY <1>1, <1>2 DEF TreeInit, LimitsDescend, IsLive
<1>7. MovesOK
  BY DEF TreeInit, MovesOK
<1> QED
  BY <1>3, <1>5, <1>6, <1>7 DEF TreeInit, TreeInv, CreationOK

\* The parent of an organization that is made is made, is not the organization itself,
\* and is above it in the closure if the organization was never moved.
LEMMA ParentIsAbove ==
    ASSUME TreeInv, NEW o \in Organizations, Made(o)
    PROVE  /\ parent[o] \in Organizations /\ Made(parent[o])
           /\ o # Root => parent[o] # o
           /\ o # Root /\ o \notin moved => <<parent[o], o, 1>> \in closure
<1>1. parent[o] \in Organizations
  BY DEF TreeInv, TreeTyped
<1>2. CASE o = Root
  BY <1>1, <1>2 DEF TreeInv, Shape, RootAndOthers
<1>3. CASE o \in Agents
  <2>1. parent[o] = Root /\ RowsOf(o) = AgentRows(o) /\ Made(Root)
    BY <1>3 DEF TreeInv, Shape, AgentOK, RootAndOthers
  <2> QED
    BY <1>1, <1>3, <2>1, OneType DEF RowsOf, AgentRows
<1>4. CASE o \in Distributors
  <2>1. /\ parent[o] \in Agents /\ Made(parent[o])
        /\ o \notin moved => RowsOf(o) = DistributorRows(o, parent[o])
    BY <1>4 DEF TreeInv, Shape, DistributorOK, CrossedOK
  <2>2. o \notin moved => <<parent[o], o, 1>> \in closure
    BY <2>1 DEF RowsOf, DistributorRows
  <2> QED
    BY <1>1, <1>4, <2>1, <2>2, OneType
<1>5. CASE o \in Installers
  BY <1>1, <1>5, OneType DEF TreeInv, Shape, InstallerOK
<1> QED
  BY <1>2, <1>3, <1>4, <1>5, OneType

\* Creating prepares what the trees above the organization say.
LEMMA CreateKeepsTree ==
    ASSUME TreeInv, NEW o \in Organizations, NEW p \in Organizations, CreateOrganization(o, p)
    PROVE  TreeInv'
<1>1. UNCHANGED <<standing, parent, closure, limit, inherited, moving, moved, crossed>>
  BY DEF CreateOrganization
<1>2. PICK m : m = Smaller(MaxLimit, limit[p])
  OBVIOUS
<1>3. m \in 0 .. MaxLimit /\ m <= limit[p]
  BY <1>2, TreeAssumption DEF Smaller, TreeInv, TreeTyped
<1>4. PICK R : R = RowsBelow(o, p, 0) \cup {<<o, o, 0>>}
  OBVIOUS
<1>5. PICK c \in BOOLEAN : c <=> p \in crossed
  BY (p \in crossed) \in BOOLEAN, Zenon
<1>51. creating' = [org |-> o, parent |-> p, rows |-> R, limit |-> m, crossed |-> c]
  BY <1>2, <1>4, <1>5 DEF CreateOrganization
<1>6. ~Made(o) /\ Made(p) /\ Fits(o, p)
  BY DEF CreateOrganization, Made, IsLive
<1>7. /\ o \in Agents => R = AgentRows(o)
      /\ o \in Distributors => R = DistributorRows(o, p)
      /\ o \notin Installers => ~c
      /\ o \in Installers =>
             /\ <<p, o, 1>> \in R /\ R \subseteq AnyInstallerRows(o, p) /\ p \in Distributors
             /\ ~c => p \notin crossed /\ R = InstallerRows(o, p, parent[p])
  <2>1. ASSUME o \in Agents
        PROVE  R = AgentRows(o) /\ p = Root
    <3>1. p = Root
      BY <1>6, <2>1, OneType DEF Fits
    <3>2. RowsBelow(o, Root, 0) = {<<Root, o, 1>>}
      BY BelowRoot DEF TreeInv, Shape, RootAndOthers
    <3> QED
      BY <3>1, <3>2, <1>4 DEF AgentRows
  <2>2. ASSUME o \in Distributors
        PROVE  R = DistributorRows(o, p) /\ p \in Agents
    <3>1. p \in Agents
      BY <1>6, <2>2, OneType DEF Fits
    <3>2. RowsOf(p) = AgentRows(p)
      BY <3>1, <1>6 DEF TreeInv, Shape, AgentOK
    <3>3. RowsBelow(o, p, 0) = {<<p, o, 1>>, <<Root, o, 2>>}
      BY <3>2, BelowAgent
    <3> QED
      BY <3>1, <3>3, <1>4 DEF DistributorRows
  <2>3. ASSUME o \in Installers
        PROVE  /\ <<p, o, 1>> \in R /\ R \subseteq AnyInstallerRows(o, p) /\ p \in Distributors
               /\ ~c => p \notin crossed /\ R = InstallerRows(o, p, parent[p])
    <3>1. p \in Distributors
      BY <1>6, <2>3, OneType DEF Fits
    <3>2. /\ <<p, p, 0>> \in closure /\ RowsOf(p) \subseteq AnyDistributorRows(p)
          /\ p \notin crossed => RowsOf(p) = DistributorRows(p, parent[p])
      BY <3>1, <1>6 DEF TreeInv, Shape, DistributorOK
    <3>3. PICK a : a = parent[p]
      OBVIOUS
    <3>4. p \notin crossed => RowsBelow(o, p, 0) = {<<p, o, 1>>, <<a, o, 2>>, <<Root, o, 3>>}
      BY <3>2, <3>3, BelowDistributor
    <3>5. p \notin crossed => R = InstallerRows(o, p, a)
      BY <3>4, <1>4 DEF InstallerRows
    <3>6. RowsBelow(o, p, 0) \subseteq AnyInstallerRows(o, p) /\ <<p, o, 1>> \in RowsBelow(o, p, 0)
      BY <3>2, BelowAnyDistributor
    <3>7. <<o, o, 0>> \in AnyInstallerRows(o, p)
      BY DEF AnyInstallerRows
    <3>8. <<p, o, 1>> \in R /\ R \subseteq AnyInstallerRows(o, p)
      BY <3>6, <3>7, <1>4
    <3> QED
      BY <3>1, <3>3, <3>5, <3>8, <1>5
  <2>4. p = Root \/ p \in Agents => ~c
    BY <1>5, OneType DEF TreeInv, Shape, CrossedOK
  <2> QED
    BY <2>1, <2>2, <2>3, <2>4, <1>6 DEF Fits
<1>8. R \subseteq TreeRows
  <2>1. Root \in Organizations
    BY OneType
  <2>2. CASE o \in Agents
    BY <2>1, <2>2, <1>7 DEF AgentRows, TreeRows
  <2>3. CASE o \in Distributors
    BY <2>1, <2>3, <1>7 DEF DistributorRows, TreeRows
  <2>4. CASE o \in Installers
    BY <2>1, <2>4, <1>7, AnyRowsAreRows
  <2> QED
    BY <2>2, <2>3, <2>4, <1>6 DEF Fits
<1>9. TreeTyped'
  <2>1. creating' \in [org : Organizations, parent : Organizations, rows : SUBSET TreeRows,
                       limit : 0 .. MaxLimit, crossed : BOOLEAN]
    BY <1>3, <1>51, <1>8
  <2> QED
    BY <2>1, <1>1 DEF TreeInv, TreeTyped
<1>10. Shape' /\ LimitsDescend'
  BY <1>1 DEF TreeInv, Shape, CrossedOK, RootAndOthers, AgentOK, DistributorOK, InstallerOK,
              RowsOf, Made, IsLive, LimitsDescend
<1>11. Prepared(creating)'
  <2>1. PICK n : n = [org |-> o, parent |-> p, rows |-> R, limit |-> m, crossed |-> c]
    OBVIOUS
  <2>2. n.org = o /\ n.parent = p /\ n.rows = R /\ n.limit = m /\ n.crossed = c
    BY <2>1
  <2>3. Prepared(n)
    BY <2>2, <1>3, <1>6, <1>7 DEF Prepared
  <2> QED
    BY <2>1, <2>3, <1>1, <1>51 DEF Prepared, Made
<1>12. MovesOK'
  BY <1>1 DEF TreeInv, MovesOK, HasRead, Deletes, Made
<1> QED
  BY <1>9, <1>10, <1>11, <1>12 DEF TreeInv, CreationOK

\* Deleting changes what is live, and nothing of what is made.
LEMMA DeleteKeepsTree ==
    ASSUME TreeInv, NEW o \in Organizations, Delete(o)
    PROVE  TreeInv'
<1>1. /\ UNCHANGED <<parent, closure, limit, inherited, creating, moving, moved, crossed>>
      /\ standing' = [standing EXCEPT ![o] = "deleted"] /\ IsLive(o)
  BY DEF Delete
<1>2. standing' \in [Organizations -> {"none", "live", "deleted"}]
  BY <1>1 DEF TreeInv, TreeTyped
<1>3. \A x \in Organizations : (Made(x)' <=> Made(x)) /\ (IsLive(x)' => IsLive(x))
  BY <1>1 DEF Made, IsLive, TreeInv, TreeTyped
<1>4. \A x : RowsOf(x)' = RowsOf(x)
  BY <1>1 DEF RowsOf
<1>5. TreeTyped'
  BY <1>1, <1>2 DEF TreeInv, TreeTyped
<1>6. Shape'
  <2>1. RootAndOthers'
    BY <1>1, <1>3, <1>4, OneType DEF TreeInv, Shape, RootAndOthers
  <2>2. ASSUME NEW a \in Agents
        PROVE  AgentOK(a)'
    BY <1>1, <1>3, <1>4, OneType DEF TreeInv, Shape, AgentOK
  <2>3. ASSUME NEW d \in Distributors
        PROVE  DistributorOK(d)'
    BY <1>1, <1>3, <1>4, OneType DEF TreeInv, Shape, DistributorOK
  <2>4. ASSUME NEW i \in Installers
        PROVE  InstallerOK(i)'
    BY <1>1, <1>3, <1>4, OneType DEF TreeInv, Shape, InstallerOK
  <2>5. CrossedOK'
    BY <1>1 DEF TreeInv, Shape, CrossedOK
  <2> QED
    BY <2>1, <2>2, <2>3, <2>4, <2>5 DEF Shape
<1>7. CreationOK'
  <2>1. creating.org \in Organizations /\ creating.parent \in Organizations
    BY DEF TreeInv, TreeTyped
  <2> QED
    BY <2>1, <1>1, <1>3 DEF TreeInv, CreationOK, Prepared
<1>8. LimitsDescend'
  BY <1>1, <1>3 DEF TreeInv, LimitsDescend
<1>9. MovesOK'
  <2>1. ASSUME NEW v \in Movers, moving[v] # NoMove
        PROVE  HasRead(moving[v])' /\ Deletes(moving[v])'
    <3>1. PICK m : m = moving[v]
      OBVIOUS
    <3>2. HasRead(m) /\ Deletes(m) /\ m \in TreeMoves
      BY <2>1, <3>1 DEF TreeInv, TreeTyped, MovesOK
    <3>3. /\ m.org \in Organizations /\ m.to \in Organizations
          /\ m.levels[2] \subseteq Organizations /\ m.levels[3] \subseteq Organizations
      BY <3>2 DEF TreeMoves
    <3> QED
      BY <3>1, <3>2, <3>3, <1>1, <1>3 DEF HasRead, Deletes
  <2> QED
    BY <2>1, <1>1 DEF MovesOK
<1> QED
  BY <1>5, <1>6, <1>7, <1>8, <1>9 DEF TreeInv

\* A limit that is set leaves nobody with more than its parent.
LEMMA QuotaKeepsTree ==
    ASSUME TreeInv, NEW o \in Organizations, NEW l \in Limits, SetOrgQuota(o, l)
    PROVE  TreeInv'
<1>1. /\ UNCHANGED <<standing, parent, closure, inherited, creating, moving, moved, crossed>>
      /\ limit' = [limit EXCEPT ![o] = l]
  BY DEF SetOrgQuota
<1>2. l \in 0 .. MaxLimit /\ limit \in [Organizations -> 0 .. MaxLimit]
  BY TreeAssumption DEF Limits, TreeInv, TreeTyped
<1>3. TreeTyped'
  BY <1>1, <1>2 DEF TreeInv, TreeTyped
<1>4. Shape' /\ MovesOK'
  <2>1. Shape'
    BY <1>1 DEF TreeInv, Shape, CrossedOK, RootAndOthers, AgentOK, DistributorOK, InstallerOK,
                RowsOf, Made, IsLive
  <2>2. MovesOK'
    BY <1>1 DEF TreeInv, MovesOK, HasRead, Deletes, Made
  <2> QED
    BY <2>1, <2>2
<1>5. CreationOK'
  <2>1. CASE creating = NoCreation
    BY <2>1, <1>1 DEF CreationOK
  <2>2. CASE creating # NoCreation
    <3>1. creating.parent # o /\ creating.parent \in Organizations /\ Prepared(creating)
      BY <2>2 DEF SetOrgQuota, TreeInv, TreeTyped, CreationOK
    <3>2. limit'[creating.parent] = limit[creating.parent]
      BY <3>1, <1>1, <1>2
    <3> QED
      BY <3>1, <3>2, <1>1 DEF CreationOK, Prepared, Made
  <2> QED
    BY <2>1, <2>2
<1>6. ASSUME NEW x \in Organizations, IsLive(x), x \notin moved
      PROVE  limit'[x] <= limit'[parent[x]]
  <2>1. /\ parent[x] \in Organizations /\ Made(parent[x])
        /\ x # Root => parent[x] # x /\ <<parent[x], x, 1>> \in closure
    BY <1>6, ParentIsAbove DEF IsLive, Made
  <2>2. limit[x] <= limit[parent[x]]
    BY <1>6 DEF TreeInv, LimitsDescend
  <2>3. CASE x = Root
    BY <2>3, <1>1, <1>2 DEF TreeInv, Shape, RootAndOthers
  <2>4. CASE x # Root /\ o # x /\ o # parent[x]
    BY <2>1, <2>2, <2>4, <1>1, <1>2
  <2>5. CASE x # Root /\ o = x
    <3>1. l <= limit[parent[x]]
      BY <2>5 DEF SetOrgQuota
    <3> QED
      BY <3>1, <2>1, <2>5, <1>1, <1>2
  <2>6. CASE x # Root /\ o = parent[x]
    <3>1. x \in Descendants(o)
      <4>1. PICK r \in closure : r = <<o, x, 1>>
        BY <2>1, <2>6
      <4>2. r[1] = o /\ r[2] = x /\ r[3] > 0
        BY <4>1
      <4> QED
        BY <4>2 DEF Descendants
    <3>2. limit[x] <= l
      BY <3>1 DEF SetOrgQuota, AllowsDescendants
    <3> QED
      BY <3>2, <2>1, <2>6, <1>1, <1>2
  <2> QED
    BY <2>3, <2>4, <2>5, <2>6
<1>7. LimitsDescend'
  BY <1>1, <1>6 DEF LimitsDescend, IsLive
<1> QED
  BY <1>3, <1>4, <1>5, <1>7 DEF TreeInv

\* What is committed is prepared: the organization and its rows are new.
LEMMA CommitKeepsTree ==
    ASSUME TreeInv, CreateCommit
    PROVE  TreeInv'
<1>1. PICK n : n = creating
  OBVIOUS
<1>2. /\ n.org \in Organizations /\ n.parent \in Organizations /\ n.rows \subseteq TreeRows
      /\ n.limit \in 0 .. MaxLimit
  BY <1>1 DEF TreeInv, TreeTyped
<1>3. Prepared(n)
  BY <1>1 DEF TreeInv, CreationOK, CreateCommit
<1>4. /\ standing' = [standing EXCEPT ![n.org] = "live"]
      /\ parent' = [parent EXCEPT ![n.org] = n.parent]
      /\ closure' = closure \cup n.rows
      /\ limit' = [limit EXCEPT ![n.org] = n.limit]
      /\ inherited' = [inherited EXCEPT ![n.org] = n.parent]
      /\ crossed' = IF n.crossed THEN crossed \cup {n.org} ELSE crossed
      /\ creating' = NoCreation /\ moved' = moved /\ moving' = moving
  BY <1>1 DEF CreateCommit
<1>5. ~Made(n.org) /\ Made(n.parent) /\ Fits(n.org, n.parent) /\ n.org # n.parent
  BY <1>3 DEF Prepared
<1>6. TreeTyped'
  <2>1. NoCreation \in [org : Organizations, parent : Organizations, rows : SUBSET TreeRows,
                        limit : 0 .. MaxLimit, crossed : BOOLEAN]
    BY TreeAssumption, OneType DEF NoCreation
  <2>2. standing' \in [Organizations -> {"none", "live", "deleted"}]
    BY <1>2, <1>4 DEF TreeInv, TreeTyped
  <2>3. parent' \in [Organizations -> Organizations] /\ inherited' \in [Organizations -> Organizations]
    BY <1>2, <1>4 DEF TreeInv, TreeTyped
  <2>4. closure' \subseteq TreeRows /\ crossed' \subseteq Organizations
    BY <1>2, <1>4 DEF TreeInv, TreeTyped
  <2>5. limit' \in [Organizations -> 0 .. MaxLimit]
    BY <1>2, <1>4 DEF TreeInv, TreeTyped
  <2> QED
    BY <2>1, <2>2, <2>3, <2>4, <2>5, <1>4 DEF TreeInv, TreeTyped
<1>7. \A r \in n.rows : r[2] = n.org
  <2>1. CASE n.org \in Agents
    BY <2>1, <1>3 DEF Prepared, AgentRows
  <2>2. CASE n.org \in Distributors
    BY <2>2, <1>3 DEF Prepared, DistributorRows
  <2>3. CASE n.org \in Installers
    BY <2>3, <1>3 DEF Prepared, AnyInstallerRows
  <2> QED
    BY <2>1, <2>2, <2>3, <1>5 DEF Fits
<1>8. ASSUME NEW x \in Organizations, x # n.org
      PROVE  /\ Made(x)' <=> Made(x)
             /\ IsLive(x)' <=> IsLive(x)
             /\ parent'[x] = parent[x] /\ limit'[x] = limit[x] /\ RowsOf(x)' = RowsOf(x)
             /\ x \in crossed' <=> x \in crossed
  <2>1. RowsOf(x)' = RowsOf(x)
    BY <1>4, <1>7, <1>8 DEF RowsOf
  <2> QED
    BY <2>1, <1>2, <1>4, <1>8 DEF Made, IsLive, TreeInv, TreeTyped
<1>9. /\ Made(n.org)' /\ parent'[n.org] = n.parent /\ limit'[n.org] = n.limit
      /\ RowsOf(n.org)' = n.rows
      /\ n.org \notin crossed' => ~n.crossed
  <2>1. RowsOf(n.org) = {}
    BY <1>2, <1>5 DEF TreeInv, Shape, RootAndOthers
  <2>2. RowsOf(n.org)' = n.rows
    BY <2>1, <1>4, <1>7 DEF RowsOf
  <2> QED
    BY <2>2, <1>2, <1>4 DEF Made, TreeInv, TreeTyped
<1>10. n.org # Root
  BY <1>5, OneType DEF Fits
<1>11. RootAndOthers'
  <2>1. RootAndOthers /\ Root \in Organizations
    BY OneType DEF TreeInv, Shape
  <2> QED
    BY <2>1, <1>8, <1>9, <1>10 DEF RootAndOthers
<1>12. ASSUME NEW a \in Agents
       PROVE  AgentOK(a)'
  <2>1. CASE a = n.org
    <3>1. n.parent = Root /\ n.rows = AgentRows(n.org)
      BY <2>1, <1>3, <1>5, OneType DEF Prepared, Fits
    <3> QED
      BY <3>1, <2>1, <1>9 DEF AgentOK
  <2>2. CASE a # n.org
    BY <2>2, <1>8, OneType DEF TreeInv, Shape, AgentOK
  <2> QED
    BY <2>1, <2>2
<1>13. ASSUME NEW d \in Distributors
       PROVE  DistributorOK(d)'
  <2>1. CASE d = n.org
    <3>1. n.parent \in Agents /\ n.rows = DistributorRows(n.org, n.parent)
      BY <2>1, <1>3, <1>5, OneType DEF Prepared, Fits
    <3>2. Made(n.parent)'
      BY <1>2, <1>5, <1>8
    <3>3. <<d, d, 0>> \in n.rows /\ n.rows \subseteq AnyDistributorRows(d)
      BY <3>1, <2>1 DEF DistributorRows, AnyDistributorRows
    <3> QED
      BY <3>1, <3>2, <3>3, <2>1, <1>4, <1>9 DEF DistributorOK
  <2>2. CASE d # n.org
    <3>1. SUFFICES ASSUME Made(d)
                   PROVE  DistributorOK(d)'
      BY <2>2, <1>8, OneType DEF DistributorOK
    <3>2. /\ parent[d] \in Agents /\ Made(parent[d]) /\ parent[d] \in Organizations
          /\ <<d, d, 0>> \in closure /\ RowsOf(d) \subseteq AnyDistributorRows(d)
          /\ d \notin crossed => RowsOf(d) = DistributorRows(d, parent[d])
      BY <3>1, OneType DEF TreeInv, Shape, DistributorOK
    <3>3. parent[d] # n.org /\ <<d, d, 0>> \in closure'
      BY <3>2, <1>4, <1>5
    <3> QED
      BY <3>2, <3>3, <2>2, <1>8, OneType DEF DistributorOK
  <2> QED
    BY <2>1, <2>2
<1>14. ASSUME NEW i \in Installers
       PROVE  InstallerOK(i)'
  <2>1. CASE i = n.org
    <3>1. n.parent \in Distributors
      BY <2>1, <1>5, OneType DEF Fits
    <3>2. /\ <<n.parent, i, 1>> \in n.rows /\ n.rows \subseteq AnyInstallerRows(i, n.parent)
          /\ ~n.crossed => /\ n.parent \notin crossed
                           /\ n.rows = InstallerRows(i, n.parent, parent[n.parent])
      BY <2>1, <1>3 DEF Prepared
    <3>3. /\ Made(n.parent)' /\ parent'[n.parent] = parent[n.parent]
          /\ n.parent \notin crossed => n.parent \notin crossed'
      BY <1>2, <1>5, <1>8
    <3>4. <<n.parent, i, 1>> \in closure' /\ RowsOf(i)' \subseteq AnyInstallerRows(i, n.parent)
      BY <3>2, <2>1, <1>4, <1>9
    <3>5. i \notin crossed' => /\ n.parent \notin crossed'
                               /\ RowsOf(i)' = InstallerRows(i, n.parent, parent'[n.parent])
      BY <3>2, <3>3, <2>1, <1>9
    <3> QED
      BY <3>1, <3>3, <3>4, <3>5, <2>1, <1>9 DEF InstallerOK
  <2>2. CASE i # n.org
    <3>1. SUFFICES ASSUME Made(i)
                   PROVE  InstallerOK(i)'
      BY <2>2, <1>8, OneType DEF InstallerOK
    <3>2. /\ parent[i] \in Distributors /\ Made(parent[i]) /\ parent[i] \in Organizations
          /\ <<parent[i], i, 1>> \in closure /\ RowsOf(i) \subseteq AnyInstallerRows(i, parent[i])
          /\ IsLive(i) /\ i \notin crossed =>
                 /\ parent[i] \notin crossed
                 /\ RowsOf(i) = InstallerRows(i, parent[i], parent[parent[i]])
      BY <3>1, OneType DEF TreeInv, Shape, InstallerOK
    <3>3. parent[i] # n.org
      BY <3>2, <1>5
    <3>4. <<parent[i], i, 1>> \in closure'
      BY <3>2, <1>4
    <3> QED
      BY <3>2, <3>3, <3>4, <2>2, <1>8, OneType DEF InstallerOK
  <2> QED
    BY <2>1, <2>2
<1>15. ASSUME NEW x \in Organizations, IsLive(x)', x \notin moved
       PROVE  limit'[x] <= limit'[parent'[x]]
  <2>1. CASE x = n.org
    <3>1. n.limit <= limit[n.parent] /\ limit'[n.parent] = limit[n.parent]
      BY <1>2, <1>3, <1>5, <1>8 DEF Prepared
    <3> QED
      BY <3>1, <2>1, <1>9
  <2>2. CASE x # n.org
    <3>1. IsLive(x) /\ parent'[x] = parent[x] /\ limit'[x] = limit[x]
      BY <2>2, <1>8, <1>15
    <3>2. parent[x] \in Organizations /\ Made(parent[x])
      BY <3>1, ParentIsAbove DEF IsLive, Made
    <3>3. limit'[parent[x]] = limit[parent[x]]
      BY <3>2, <1>5, <1>8
    <3> QED
      BY <3>1, <3>3, <1>15 DEF TreeInv, LimitsDescend
  <2> QED
    BY <2>1, <2>2
<1>16. LimitsDescend'
  BY <1>15, <1>4 DEF LimitsDescend
<1>17. Shape'
  <2>1. CrossedOK'
    <3>1. n.org \in crossed' => n.org \in crossed \/ n.org \in Installers
      BY <1>3, <1>4 DEF Prepared
    <3>2. \A x : x \in crossed' => x \in crossed \/ x = n.org
      BY <1>4
    <3> QED
      BY <3>1, <3>2, <1>4, OneType DEF TreeInv, Shape, CrossedOK
  <2> QED
    BY <2>1, <1>11, <1>12, <1>13, <1>14 DEF Shape
<1>18. MovesOK'
  <2>1. ASSUME NEW v \in Movers, moving[v] # NoMove
        PROVE  HasRead(moving[v])' /\ Deletes(moving[v])'
    <3>1. PICK m : m = moving[v]
      OBVIOUS
    <3>2. HasRead(m) /\ Deletes(m) /\ m \in TreeMoves
      BY <2>1, <3>1 DEF TreeInv, TreeTyped, MovesOK
    <3>3. /\ m.org \in Organizations /\ m.to \in Organizations
          /\ m.levels[2] \subseteq Organizations /\ m.levels[3] \subseteq Organizations
      BY <3>2 DEF TreeMoves
    <3>4. \A x : x \notin crossed' => x \notin crossed
      BY <1>4
    <3>5. \A x \in Organizations : Made(x) => Made(x)' /\ parent'[x] = parent[x]
      BY <1>5, <1>8
    <3>6. Made(m.org) /\ \A x \in m.levels[2] \cup m.levels[3] : Made(x)
      BY <3>2 DEF HasRead
    <3>7. HasRead(m)'
      BY <3>1, <3>2, <3>3, <3>5, <1>4 DEF HasRead
    <3>8. parent'[m.org] = parent[m.org] /\ \A i \in m.levels[2] : parent'[i] = parent[i]
      BY <3>3, <3>5, <3>6
    <3>9. Deletes(m)'
      BY <3>1, <3>2, <3>4, <3>8, <1>4 DEF Deletes
    <3> QED
      BY <3>1, <3>7, <3>9, <1>4 DEF HasRead, Deletes
  <2> QED
    BY <2>1, <1>4 DEF MovesOK
<1> QED
  BY <1>4, <1>6, <1>16, <1>17, <1>18 DEF TreeInv, CreationOK

-----------------------------------------------------------------------------
(* Moves.                                                                  *)

Grandchildren(o) == UNION {Children(c) : c \in Children(o)}

\* The subtree by its levels.
LEMMA SubtreeByLevel ==
    ASSUME NEW o
    PROVE  /\ AtDepth(o) = <<{o}, Children(o), Grandchildren(o)>>
           /\ Subtree(o) = {o} \cup Children(o) \cup Grandchildren(o)
<1>1. AtDepth(o) = <<{o}, Children(o), Grandchildren(o)>>
  BY DEF AtDepth, Grandchildren
<1>2. 1 .. 3 = {1, 2, 3}
  OBVIOUS
<1> QED
  BY <1>1, <1>2 DEF Subtree

\* The rows that a move makes for one organization.
Gained(m, x) == {r \in NewRows(m.levels, m.to) : r[2] = x}

\* They are those below the new parent, at the depth of its level.
LEMMA GainedByLevel ==
    ASSUME NEW m, NEW x, m.levels[1] = {m.org},
           m.org \notin m.levels[2] \cup m.levels[3], m.levels[2] \cap m.levels[3] = {}
    PROVE  /\ x \notin {m.org} \cup m.levels[2] \cup m.levels[3] => Gained(m, x) = {}
           /\ x = m.org => Gained(m, x) = RowsBelow(x, m.to, 0)
           /\ x \in m.levels[2] => Gained(m, x) = RowsBelow(x, m.to, 1)
           /\ x \in m.levels[3] => Gained(m, x) = RowsBelow(x, m.to, 2)
<1>1. 1 .. 3 = {1, 2, 3} /\ 1 - 1 = 0 /\ 2 - 1 = 1 /\ 3 - 1 = 2
  OBVIOUS
<1>2. \A c, k : \A r \in RowsBelow(c, m.to, k) : r[2] = c
  BY DEF RowsBelow
<1>3. ASSUME NEW r
      PROVE  r \in NewRows(m.levels, m.to) <=>
                 \E d \in {1, 2, 3} : \E c \in m.levels[d] : r \in RowsBelow(c, m.to, d - 1)
  BY <1>1 DEF NewRows
<1>4. ASSUME NEW r
      PROVE  r \in Gained(m, x) <=>
                 \/ x = m.org /\ r \in RowsBelow(x, m.to, 0)
                 \/ x \in m.levels[2] /\ r \in RowsBelow(x, m.to, 1)
                 \/ x \in m.levels[3] /\ r \in RowsBelow(x, m.to, 2)
  <2>1. r \in NewRows(m.levels, m.to) <=>
            \/ r \in RowsBelow(m.org, m.to, 0)
            \/ \E c \in m.levels[2] : r \in RowsBelow(c, m.to, 1)
            \/ \E c \in m.levels[3] : r \in RowsBelow(c, m.to, 2)
    BY <1>1, <1>3
  <2> QED
    BY <2>1, <1>2 DEF Gained
<1>5. x = m.org => Gained(m, x) = RowsBelow(x, m.to, 0)
  BY <1>4
<1>6. x \in m.levels[2] => Gained(m, x) = RowsBelow(x, m.to, 1)
  BY <1>4
<1>7. x \in m.levels[3] => Gained(m, x) = RowsBelow(x, m.to, 2)
  BY <1>4
<1>8. x \notin {m.org} \cup m.levels[2] \cup m.levels[3] => Gained(m, x) = {}
  BY <1>4
<1> QED
  BY <1>5, <1>6, <1>7, <1>8

\* The children of an organization are one level below it.
LEMMA ChildrenAreBelow ==
    ASSUME TreeInv
    PROVE  /\ \A a \in Agents : Children(a) \subseteq Distributors
           /\ \A d \in Distributors : Children(d) \subseteq Installers
           /\ \A i \in Installers : Children(i) = {}
<1>1. ASSUME NEW o \in Organizations, NEW c \in Children(o)
      PROVE  /\ c \in Organizations /\ c # Root /\ Made(c) /\ parent[c] = o
             /\ c \in Agents => o = Root
             /\ c \in Distributors => o \in Agents
             /\ c \in Installers => o \in Distributors
  <2>1. c \in Organizations /\ c # Root /\ Made(c) /\ parent[c] = o
    BY DEF Children, IsLive, Made
  <2> QED
    BY <2>1 DEF TreeInv, Shape, AgentOK, DistributorOK, InstallerOK
<1> QED
  BY <1>1, OneType

\* A move begins by reading the subtree and the rows that lead out of it.
LEMMA MoveReadKeepsTree ==
    ASSUME TreeInv, NEW v \in Movers, NEW o \in Organizations, NEW p \in Organizations,
           MoveRead(v, o, p)
    PROVE  TreeInv'
<1>1. UNCHANGED <<standing, parent, closure, limit, inherited, creating, moved, crossed>>
  BY DEF MoveRead
<1>2. PICK S, D : S = Subtree(o) /\ D = Outward(S)
  OBVIOUS
<1>3. PICK m : m = [org |-> o, to |-> p, levels |-> AtDepth(o), doomed |-> D, late |-> FALSE]
  OBVIOUS
<1>4. /\ m.org = o /\ m.to = p /\ m.doomed = D /\ m.late = FALSE
      /\ m.levels = <<{o}, Children(o), Grandchildren(o)>>
      /\ S = {o} \cup Children(o) \cup Grandchildren(o)
  BY <1>2, <1>3, SubtreeByLevel
<1>5. moving' = [moving EXCEPT ![v] = m]
  BY <1>2, <1>3 DEF MoveRead
<1>6. /\ m.levels[1] = {o} /\ m.levels[2] = Children(o) /\ m.levels[3] = Grandchildren(o)
  BY <1>4
<1>7. /\ IsLive(o) /\ IsLive(p) /\ Made(o) /\ Made(p) /\ Fits(o, p)
      /\ o \in Agents \cup Distributors
  BY DEF MoveRead, IsLive, Made
<1>8. /\ \A x \in Children(o) : x \in Organizations /\ IsLive(x) /\ Made(x) /\ parent[x] = o
      /\ \A x \in Grandchildren(o) :
            x \in Organizations /\ IsLive(x) /\ Made(x) /\ parent[x] \in Children(o)
  BY DEF Children, Grandchildren, IsLive, Made
<1>9. /\ o \in Agents => Children(o) \subseteq Distributors /\ Grandchildren(o) \subseteq Installers
      /\ o \in Distributors => Children(o) \subseteq Installers /\ Grandchildren(o) = {}
  <2>1. o \in Agents => Children(o) \subseteq Distributors /\ Grandchildren(o) \subseteq Installers
    BY ChildrenAreBelow DEF Grandchildren
  <2>2. o \in Distributors => Children(o) \subseteq Installers /\ Grandchildren(o) = {}
    BY ChildrenAreBelow DEF Grandchildren
  <2> QED
    BY <2>1, <2>2
<1>10. \A r \in D : r \in closure /\ r[2] \in S /\ r[1] \notin S
  BY <1>2 DEF Outward
<1>11. ASSUME NEW r \in D
       PROVE  /\ r[1] \in Agents \cup {Root} /\ r[1] # r[2] /\ r[2] \in S
              /\ o \in Agents /\ r[2] \notin crossed => r[1] = Root
  <2>1. PICK x : x = r[2]
    OBVIOUS
  <2>2. r \in RowsOf(x) /\ r[1] \notin S /\ x \in S /\ r[1] # x
    BY <2>1, <1>10 DEF RowsOf
  <2>3. CASE x \in Agents
    <3>1. x = o
      BY <2>2, <2>3, <1>4, <1>7, <1>9, OneType
    <3>2. r \in AgentRows(x)
      BY <3>1, <2>2, <2>3, <1>7 DEF TreeInv, Shape, AgentOK
    <3> QED
      BY <3>2, <2>1, <2>2 DEF AgentRows
  <2>4. CASE x \in Distributors
    <3>1. Made(x) /\ (o \in Agents => parent[x] = o)
      BY <2>2, <2>4, <1>4, <1>7, <1>8, <1>9, OneType
    <3>2. /\ r \in AnyDistributorRows(x)
          /\ x \notin crossed => r \in DistributorRows(x, parent[x])
      BY <3>1, <2>2, <2>4 DEF TreeInv, Shape, DistributorOK
    <3>3. r[1] \in Agents \cup {Root}
      BY <3>2, <2>2 DEF AnyDistributorRows
    <3>4. o \in Agents /\ x \notin crossed => r[1] = Root
      BY <3>1, <3>2, <2>2, <1>4 DEF DistributorRows
    <3> QED
      BY <3>3, <3>4, <2>1, <2>2
  <2>5. CASE x \in Installers
    <3>1. IsLive(x) /\ Made(x) /\ parent[x] \in S
      BY <2>2, <2>5, <1>4, <1>7, <1>8, OneType
    <3>2. o \in Agents => x \in Grandchildren(o) /\ parent[parent[x]] = o
      BY <2>2, <2>5, <1>4, <1>8, <1>9, OneType
    <3>3. /\ r \in AnyInstallerRows(x, parent[x])
          /\ x \notin crossed => r \in InstallerRows(x, parent[x], parent[parent[x]])
      BY <3>1, <2>2, <2>5 DEF TreeInv, Shape, InstallerOK
    <3>4. r[1] \in Agents \cup {Root}
      BY <3>1, <3>3, <2>2 DEF AnyInstallerRows
    <3>5. o \in Agents /\ x \notin crossed => r[1] = Root
      BY <3>1, <3>2, <3>3, <2>2, <1>4 DEF InstallerRows
    <3> QED
      BY <3>4, <3>5, <2>1, <2>2
  <2> QED
    BY <2>2, <2>3, <2>4, <2>5, <1>4, <1>7, <1>9
<1>12. HasRead(m)
  BY <1>4, <1>6, <1>7, <1>8, <1>9, <1>11 DEF HasRead
<1>13. Deletes(m)
  <2>1. ASSUME o \in Distributors
        PROVE  /\ o \notin crossed => <<parent[o], o, 1>> \in D
               /\ \A i \in Children(o) : i \notin crossed => <<parent[o], i, 2>> \in D
    <3>1. PICK q : q = parent[o]
      OBVIOUS
    <3>2. q \in Agents /\ q \notin S
      BY <3>1, <2>1, <1>4, <1>7, <1>9, OneType DEF TreeInv, Shape, DistributorOK
    <3>3. ASSUME NEW x \in S, NEW k, <<q, x, k>> \in RowsOf(x)
          PROVE  <<q, x, k>> \in D
      BY <3>2, <3>3, <1>2 DEF RowsOf, Outward
    <3>4. o \notin crossed => <<q, o, 1>> \in RowsOf(o)
      BY <3>1, <2>1, <1>7 DEF TreeInv, Shape, DistributorOK, DistributorRows
    <3>5. ASSUME NEW i \in Children(o), i \notin crossed
          PROVE  <<q, i, 2>> \in RowsOf(i)
      <4>1. i \in Installers /\ IsLive(i) /\ Made(i) /\ parent[i] = o
        BY <2>1, <1>8, <1>9
      <4>2. RowsOf(i) = InstallerRows(i, o, q)
        BY <4>1, <3>1, <3>5 DEF TreeInv, Shape, InstallerOK
      <4> QED
        BY <4>2 DEF InstallerRows
    <3> QED
      BY <3>1, <3>3, <3>4, <3>5, <1>4
  <2> QED
    BY <2>1, <1>4, <1>6, <1>8, <1>11, OneType DEF Deletes
<1>14. m \in TreeMoves
  <2>1. D \subseteq TreeRows
    BY <1>10 DEF TreeInv, TreeTyped
  <2>2. AtDepth(o) \in (SUBSET Organizations) \X (SUBSET Organizations) \X (SUBSET Organizations)
    BY <1>8, SubtreeByLevel
  <2> QED
    BY <2>1, <2>2, <1>3 DEF TreeMoves
<1>15. TreeTyped'
  BY <1>1, <1>5, <1>14 DEF TreeInv, TreeTyped
<1>16. Shape' /\ CreationOK' /\ LimitsDescend'
  BY <1>1 DEF TreeInv, Shape, CrossedOK, RootAndOthers, AgentOK, DistributorOK, InstallerOK,
              RowsOf, Made, IsLive, LimitsDescend, CreationOK, Prepared
<1>17. MovesOK'
  <2>1. ASSUME NEW w \in Movers, moving'[w] # NoMove
        PROVE  HasRead(moving'[w]) /\ Deletes(moving'[w])
    BY <2>1, <1>5, <1>12, <1>13 DEF TreeInv, TreeTyped, MovesOK
  <2> QED
    BY <2>1, <1>1 DEF MovesOK, HasRead, Deletes, Made
<1> QED
  BY <1>15, <1>16, <1>17 DEF TreeInv

\* A move that is given up leaves everything as it was.
LEMMA MoveAbortsKeepsTree ==
    ASSUME TreeInv, NEW v \in Movers, MoveAborts(v)
    PROVE  TreeInv'
<1>1. /\ UNCHANGED <<standing, parent, closure, limit, inherited, creating, moved, crossed>>
      /\ moving' = [moving EXCEPT ![v] = NoMove]
  BY DEF MoveAborts
<1>2. NoMove \in TreeMoves
  BY OneType DEF NoMove, TreeMoves
<1>3. TreeTyped'
  BY <1>1, <1>2 DEF TreeInv, TreeTyped
<1>4. Shape' /\ CreationOK' /\ LimitsDescend'
  BY <1>1 DEF TreeInv, Shape, CrossedOK, RootAndOthers, AgentOK, DistributorOK, InstallerOK,
              RowsOf, Made, IsLive, LimitsDescend, CreationOK, Prepared
<1>5. MovesOK'
  <2>1. ASSUME NEW w \in Movers, moving'[w] # NoMove
        PROVE  HasRead(moving'[w]) /\ Deletes(moving'[w])
    BY <2>1, <1>1 DEF TreeInv, TreeTyped, MovesOK
  <2> QED
    BY <2>1, <1>1 DEF MovesOK, HasRead, Deletes, Made
<1> QED
  BY <1>3, <1>4, <1>5 DEF TreeInv

\* What a move does when it commits, and what it makes of the rows about each
\* organization: what it deletes goes, what it gained comes.
LEMMA MoveCommits ==
    ASSUME TreeInv, NEW v \in Movers, NEW m, m = moving[v], MoveCommit(v)
    PROVE  /\ m \in TreeMoves /\ HasRead(m) /\ Deletes(m)
           /\ m.org \in Organizations /\ m.to \in Organizations
           /\ m.levels[2] \subseteq Organizations /\ m.levels[3] \subseteq Organizations
           /\ m.org \notin m.levels[2] \cup m.levels[3] /\ m.levels[2] \cap m.levels[3] = {}
           /\ parent' = [parent EXCEPT ![m.org] = m.to]
           /\ closure' = (closure \ m.doomed) \cup NewRows(m.levels, m.to)
           /\ moved' = moved \cup {m.org} /\ crossed' = crossed \cup Missed(m)
           /\ standing' = standing /\ limit' = limit /\ inherited' = inherited
           /\ \A x : (Made(x)' <=> Made(x)) /\ (IsLive(x)' <=> IsLive(x))
           /\ \A x : RowsOf(x)' = (RowsOf(x) \ m.doomed) \cup Gained(m, x)
<1>1. m \in TreeMoves /\ m # NoMove
  BY DEF TreeInv, TreeTyped, MoveCommit
<1>2. HasRead(m) /\ Deletes(m)
  BY <1>1 DEF TreeInv, MovesOK
<1>3. /\ m.org \in Organizations /\ m.to \in Organizations
      /\ m.levels[2] \subseteq Organizations /\ m.levels[3] \subseteq Organizations
  BY <1>1 DEF TreeMoves
<1>4. m.org \notin m.levels[2] \cup m.levels[3] /\ m.levels[2] \cap m.levels[3] = {}
  BY <1>2, OneType DEF HasRead
<1>5. /\ parent' = [parent EXCEPT ![m.org] = m.to]
      /\ closure' = (closure \ m.doomed) \cup NewRows(m.levels, m.to)
      /\ moved' = moved \cup {m.org} /\ crossed' = crossed \cup Missed(m)
      /\ standing' = standing /\ limit' = limit /\ inherited' = inherited
  BY DEF MoveCommit
<1>6. ASSUME NEW x
      PROVE  RowsOf(x)' = (RowsOf(x) \ m.doomed) \cup Gained(m, x)
  BY <1>5 DEF RowsOf, Gained
<1>7. ASSUME NEW x
      PROVE  (Made(x)' <=> Made(x)) /\ (IsLive(x)' <=> IsLive(x))
  BY <1>5 DEF Made, IsLive
<1> QED
  BY <1>1, <1>2, <1>3, <1>4, <1>5, <1>6, <1>7

\* Moving an agent, which only the manufacturer can be above, makes every row again that
\* it deletes, but for some that are wrong.
LEMMA AgentCommits ==
    ASSUME TreeInv, NEW v \in Movers, NEW m, m = moving[v], MoveCommit(v), m.org \in Agents
    PROVE  Shape' /\ parent' = parent
<1>1. HasRead(m) /\ Deletes(m) /\ m.to = Root /\ RowsOf(Root) = {<<Root, Root, 0>>}
  BY MoveCommits, OneType DEF HasRead, Fits, TreeInv, Shape, RootAndOthers
<1>2. /\ Made(m.org) /\ parent[m.org] = Root /\ parent \in [Organizations -> Organizations]
  BY <1>1 DEF HasRead, TreeInv, TreeTyped, Shape, AgentOK
<1>3. parent' = parent
  BY <1>1, <1>2, MoveCommits
<1>4. crossed' = crossed /\ moved \subseteq moved'
  BY MoveCommits, OneType DEF Missed
<1>5. /\ m.levels[2] \subseteq Distributors /\ m.levels[3] \subseteq Installers
      /\ m.org \notin m.levels[2] \cup m.levels[3] /\ m.levels[2] \cap m.levels[3] = {}
      /\ m.levels[1] = {m.org} /\ \A x \in m.levels[2] \cup m.levels[3] : Made(x)
  BY <1>1, MoveCommits DEF HasRead
<1>6. \A x : /\ RowsBelow(x, m.to, 0) = {<<Root, x, 1>>}
             /\ RowsBelow(x, m.to, 1) = {<<Root, x, 2>>}
             /\ RowsBelow(x, m.to, 2) = {<<Root, x, 3>>}
  BY <1>1, BelowRoot
<1>7. ASSUME NEW x
      PROVE  /\ x \notin {m.org} \cup m.levels[2] \cup m.levels[3] => Gained(m, x) = {}
             /\ x = m.org => Gained(m, x) = {<<Root, x, 1>>}
             /\ x \in m.levels[2] => Gained(m, x) = {<<Root, x, 2>>}
             /\ x \in m.levels[3] => Gained(m, x) = {<<Root, x, 3>>}
  BY <1>5, <1>6, GainedByLevel
<1>8. \A x : \A r \in m.doomed : r \in RowsOf(x) =>
          /\ x \in {m.org} \cup m.levels[2] \cup m.levels[3]
          /\ r[1] \in Agents \cup {Root} /\ r[1] # x
          /\ x \notin crossed => r[1] = Root
  BY <1>1 DEF HasRead, Deletes, RowsOf
<1>9. \A x : RowsOf(x)' = (RowsOf(x) \ m.doomed) \cup Gained(m, x)
  BY MoveCommits
<1>10. \A x : x \notin {m.org} \cup m.levels[2] \cup m.levels[3] => RowsOf(x)' = RowsOf(x)
  BY <1>7, <1>8, <1>9
<1>11. \A x : (Made(x)' <=> Made(x)) /\ (IsLive(x)' <=> IsLive(x))
  BY MoveCommits
<1>12. RootAndOthers'
  <2>1. Root \notin {m.org} \cup m.levels[2] \cup m.levels[3]
    BY <1>5, OneType
  <2>2. \A x \in Organizations : ~Made(x) => RowsOf(x)' = {}
    BY <1>2, <1>5, <1>10 DEF TreeInv, Shape, RootAndOthers
  <2> QED
    BY <2>1, <2>2, <1>3, <1>10, <1>11 DEF TreeInv, Shape, RootAndOthers
<1>13. ASSUME NEW a \in Agents
       PROVE  AgentOK(a)'
  <2>1. CASE a = m.org
    <3>1. RowsOf(a) = AgentRows(a) /\ a \notin crossed
      BY <2>1, <1>2, OneType DEF TreeInv, Shape, AgentOK, CrossedOK
    <3>2. <<a, a, 0>> \notin m.doomed
      <4>1. PICK s : s = <<a, a, 0>>
        OBVIOUS
      <4>2. s[1] = a /\ s \in RowsOf(a)
        BY <4>1, <3>1 DEF AgentRows
      <4> QED
        BY <4>1, <4>2, <1>8
    <3>3. RowsOf(a)' = AgentRows(a)
      BY <3>1, <3>2, <2>1, <1>7, <1>9 DEF AgentRows
    <3> QED
      BY <3>3, <2>1, <1>2, <1>3 DEF AgentOK
  <2>2. CASE a # m.org
    <3>1. RowsOf(a)' = RowsOf(a)
      BY <2>2, <1>5, <1>10, OneType
    <3> QED
      BY <3>1, <1>3, <1>11 DEF TreeInv, Shape, AgentOK
  <2> QED
    BY <2>1, <2>2
<1>14. ASSUME NEW d \in Distributors
       PROVE  DistributorOK(d)'
  <2>1. CASE d \in m.levels[2]
    <3>1. /\ Made(d) /\ parent[d] \in Agents /\ Made(parent[d])
          /\ <<d, d, 0>> \in closure /\ RowsOf(d) \subseteq AnyDistributorRows(d)
          /\ d \notin crossed => RowsOf(d) = DistributorRows(d, parent[d])
      BY <2>1, <1>5 DEF TreeInv, Shape, DistributorOK
    <3>2. RowsOf(d)' = (RowsOf(d) \ m.doomed) \cup {<<Root, d, 2>>}
      BY <2>1, <1>7, <1>9
    <3>3. <<d, d, 0>> \notin m.doomed /\ <<d, d, 0>> \in RowsOf(d)
      <4>1. PICK s : s = <<d, d, 0>>
        OBVIOUS
      <4>2. s[1] = d /\ s[2] = d /\ s \in RowsOf(d)
        BY <4>1, <3>1 DEF RowsOf
      <4> QED
        BY <4>1, <4>2, <1>8
    <3>4. <<d, d, 0>> \in closure'
      BY <3>2, <3>3 DEF RowsOf
    <3>5. RowsOf(d)' \subseteq AnyDistributorRows(d)
      BY <3>1, <3>2 DEF AnyDistributorRows
    <3>6. d \notin crossed => RowsOf(d)' = DistributorRows(d, parent[d])
      <4>1. ASSUME d \notin crossed
            PROVE  <<parent[d], d, 1>> \notin m.doomed
        <5>1. PICK s : s = <<parent[d], d, 1>>
          OBVIOUS
        <5>2. s \in RowsOf(d) /\ s[1] = parent[d] /\ parent[d] # Root
          BY <5>1, <3>1, <4>1, OneType DEF DistributorRows
        <5> QED
          BY <5>1, <5>2, <4>1, <1>8
      <4> QED
        BY <4>1, <3>1, <3>2, <3>3 DEF DistributorRows
    <3> QED
      BY <3>1, <3>4, <3>5, <3>6, <1>3, <1>4, <1>11 DEF DistributorOK
  <2>2. CASE d \notin m.levels[2]
    <3>1. RowsOf(d)' = RowsOf(d)
      BY <2>2, <1>5, <1>10, OneType
    <3>2. <<d, d, 0>> \in closure => <<d, d, 0>> \in closure'
      BY <3>1 DEF RowsOf
    <3> QED
      BY <3>1, <3>2, <1>3, <1>4, <1>11 DEF TreeInv, Shape, DistributorOK
  <2> QED
    BY <2>1, <2>2
<1>15. ASSUME NEW i \in Installers
       PROVE  InstallerOK(i)'
  <2>1. CASE i \in m.levels[3]
    <3>1. PICK d, a : d = parent[i] /\ a = parent[d]
      OBVIOUS
    <3>2. /\ Made(i) /\ d \in Distributors /\ Made(d)
          /\ <<d, i, 1>> \in closure /\ RowsOf(i) \subseteq AnyInstallerRows(i, d)
          /\ IsLive(i) /\ i \notin crossed => d \notin crossed /\ RowsOf(i) = InstallerRows(i, d, a)
      BY <2>1, <3>1, <1>5 DEF TreeInv, Shape, InstallerOK
    <3>3. a \in Agents /\ d # Root /\ a # Root /\ i # Root /\ d \notin Agents /\ i \notin Agents
      BY <3>1, <3>2, OneType DEF TreeInv, Shape, DistributorOK
    <3>4. RowsOf(i)' = (RowsOf(i) \ m.doomed) \cup {<<Root, i, 3>>}
      BY <2>1, <1>7, <1>9
    <3>5. <<d, i, 1>> \notin m.doomed /\ <<d, i, 1>> \in RowsOf(i)
      <4>1. PICK s : s = <<d, i, 1>>
        OBVIOUS
      <4>2. s[1] = d /\ s[2] = i /\ s \in RowsOf(i)
        BY <4>1, <3>2 DEF RowsOf
      <4> QED
        BY <4>1, <4>2, <3>3, <1>8
    <3>6. <<d, i, 1>> \in closure'
      BY <3>4, <3>5 DEF RowsOf
    <3>7. RowsOf(i)' \subseteq AnyInstallerRows(i, d)
      BY <3>2, <3>4 DEF AnyInstallerRows
    <3>8. ASSUME IsLive(i), i \notin crossed
          PROVE  RowsOf(i)' = InstallerRows(i, d, a)
      <4>1. RowsOf(i) = InstallerRows(i, d, a)
        BY <3>2, <3>8
      <4>2. <<i, i, 0>> \notin m.doomed
        <5>1. PICK s : s = <<i, i, 0>>
          OBVIOUS
        <5>2. s \in RowsOf(i) /\ s[1] = i
          BY <5>1, <4>1 DEF InstallerRows
        <5> QED
          BY <5>1, <5>2, <1>8
      <4>3. <<a, i, 2>> \notin m.doomed
        <5>1. PICK s : s = <<a, i, 2>>
          OBVIOUS
        <5>2. s \in RowsOf(i) /\ s[1] = a
          BY <5>1, <4>1 DEF InstallerRows
        <5> QED
          BY <5>1, <5>2, <3>3, <3>8, <1>8
      <4> QED
        BY <4>1, <4>2, <4>3, <3>4, <3>5 DEF InstallerRows
    <3> QED
      BY <3>1, <3>2, <3>6, <3>7, <3>8, <1>3, <1>4, <1>11 DEF InstallerOK
  <2>2. CASE i \notin m.levels[3]
    <3>1. RowsOf(i)' = RowsOf(i)
      BY <2>2, <1>5, <1>10, OneType
    <3>2. <<parent[i], i, 1>> \in closure => <<parent[i], i, 1>> \in closure'
      BY <3>1 DEF RowsOf
    <3> QED
      BY <3>1, <3>2, <1>3, <1>4, <1>11 DEF TreeInv, Shape, InstallerOK
  <2> QED
    BY <2>1, <2>2
<1>16. CrossedOK'
  BY <1>4 DEF TreeInv, Shape, CrossedOK
<1> QED
  BY <1>3, <1>12, <1>13, <1>14, <1>15, <1>16 DEF Shape

\* Moving a distributor gives it and its installers the agent it is moved to, and what
\* it leaves beside that is marked.
LEMMA DistributorCommits ==
    ASSUME TreeInv, NEW v \in Movers, NEW m, m = moving[v], MoveCommit(v),
           m.org \in Distributors
    PROVE  Shape'
<1>1. PICK o, p, q, L : o = m.org /\ p = m.to /\ q = parent[o] /\ L = m.levels[2]
  OBVIOUS
<1>2. HasRead(m) /\ Deletes(m) /\ p \in Agents /\ p \in Organizations /\ o \in Organizations
  BY <1>1, MoveCommits, OneType DEF HasRead, Fits
<1>3. /\ Made(o) /\ Made(p) /\ q \in Agents /\ RowsOf(p) = AgentRows(p)
      /\ <<o, o, 0>> \in closure /\ RowsOf(o) \subseteq AnyDistributorRows(o)
      /\ o \notin crossed => RowsOf(o) = DistributorRows(o, q)
  BY <1>1, <1>2 DEF HasRead, TreeInv, Shape, AgentOK, DistributorOK
<1>4. /\ L \subseteq Installers /\ m.levels[3] = {} /\ m.levels[1] = {o} /\ o \notin L
      /\ \A x \in L : Made(x) /\ parent[x] = o
  BY <1>1, <1>2, OneType DEF HasRead, Deletes
<1>5. parent'[o] = p /\ \A x \in Organizations : x # o => parent'[x] = parent[x]
  BY <1>1, <1>2, MoveCommits DEF TreeInv, TreeTyped
<1>6. \A x : /\ RowsBelow(x, m.to, 0) = {<<p, x, 1>>, <<Root, x, 2>>}
             /\ RowsBelow(x, m.to, 1) = {<<p, x, 2>>, <<Root, x, 3>>}
  BY <1>1, <1>3, BelowAgent
<1>7. ASSUME NEW x
      PROVE  /\ x \notin {o} \cup L => Gained(m, x) = {}
             /\ x = o => Gained(m, x) = {<<p, x, 1>>, <<Root, x, 2>>}
             /\ x \in L => Gained(m, x) = {<<p, x, 2>>, <<Root, x, 3>>}
  <2>1. /\ m.levels[1] = {m.org} /\ m.org \notin m.levels[2] \cup m.levels[3]
        /\ m.levels[2] \cap m.levels[3] = {}
    BY <1>1, <1>4
  <2> QED
    BY <2>1, <1>1, <1>4, <1>6, GainedByLevel
<1>8. \A x : \A r \in m.doomed : r \in RowsOf(x) =>
          x \in {o} \cup L /\ r[1] \in Agents \cup {Root} /\ r[1] # x
  BY <1>1, <1>2, <1>4 DEF HasRead, RowsOf
<1>9. \A x : RowsOf(x)' = (RowsOf(x) \ m.doomed) \cup Gained(m, x)
  BY MoveCommits
<1>10. \A x : x \notin {o} \cup L => RowsOf(x)' = RowsOf(x)
  BY <1>7, <1>8, <1>9
<1>11. \A x : (Made(x)' <=> Made(x)) /\ (IsLive(x)' <=> IsLive(x))
  BY MoveCommits
<1>12. /\ crossed' = crossed \cup Missed(m) /\ moved' = moved \cup {o}
       /\ Missed(m) = IF m.late THEN {o} \cup Children(o) ELSE Children(o) \ L
       /\ Children(o) \subseteq Installers
  <2>1. Missed(m) = IF m.late THEN {o} \cup Children(o) ELSE Children(o) \ L
    BY <1>1 DEF Missed
  <2> QED
    BY <2>1, <1>1, MoveCommits, ChildrenAreBelow
<1>13. RootAndOthers'
  <2>1. Root \notin {o} \cup L /\ Root # o /\ Root \in Organizations
    BY <1>1, <1>4, OneType
  <2>2. \A x \in Organizations : ~Made(x) => RowsOf(x)' = {}
    BY <1>3, <1>4, <1>10 DEF TreeInv, Shape, RootAndOthers
  <2> QED
    BY <2>1, <2>2, <1>5, <1>10, <1>11 DEF TreeInv, Shape, RootAndOthers
<1>14. ASSUME NEW a \in Agents
       PROVE  AgentOK(a)'
  <2>1. a \notin {o} \cup L /\ a # o /\ a \in Organizations
    BY <1>1, <1>4, OneType
  <2> QED
    BY <2>1, <1>5, <1>10, <1>11 DEF TreeInv, Shape, AgentOK
<1>15. ASSUME NEW d \in Distributors
       PROVE  DistributorOK(d)'
  <2>1. CASE d = o
    <3>1. RowsOf(d)' = (RowsOf(d) \ m.doomed) \cup {<<p, d, 1>>, <<Root, d, 2>>}
      BY <2>1, <1>7, <1>9
    <3>2. <<d, d, 0>> \notin m.doomed /\ <<d, d, 0>> \in RowsOf(d)
      <4>1. PICK s : s = <<d, d, 0>>
        OBVIOUS
      <4>2. s[1] = d /\ s[2] = d /\ s \in RowsOf(d)
        BY <4>1, <2>1, <1>3 DEF RowsOf
      <4> QED
        BY <4>1, <4>2, <1>8
    <3>3. <<d, d, 0>> \in closure'
      BY <3>1, <3>2 DEF RowsOf
    <3>4. RowsOf(d)' \subseteq AnyDistributorRows(d)
      BY <3>1, <2>1, <1>2, <1>3 DEF AnyDistributorRows
    <3>5. ASSUME d \notin crossed'
          PROVE  RowsOf(d)' = DistributorRows(d, p)
      <4>1. ~m.late /\ d \notin crossed
        BY <3>5, <2>1, <1>12
      <4>2. <<q, d, 1>> \in m.doomed
        BY <4>1, <2>1, <1>1, <1>2 DEF Deletes
      <4> QED
        BY <4>1, <4>2, <3>1, <3>2, <2>1, <1>3 DEF DistributorRows
    <3> QED
      BY <3>3, <3>4, <3>5, <2>1, <1>2, <1>3, <1>5, <1>11 DEF DistributorOK
  <2>2. CASE d # o
    <3>1. d \notin {o} \cup L /\ d \in Organizations
      BY <2>2, <1>4, OneType
    <3>2. RowsOf(d)' = RowsOf(d) /\ parent'[d] = parent[d]
      BY <3>1, <2>2, <1>5, <1>10
    <3>3. <<d, d, 0>> \in closure => <<d, d, 0>> \in closure'
      BY <3>2 DEF RowsOf
    <3>4. d \notin crossed' => d \notin crossed
      BY <1>12
    <3> QED
      BY <3>2, <3>3, <3>4, <1>11 DEF TreeInv, Shape, DistributorOK
  <2> QED
    BY <2>1, <2>2
<1>16. ASSUME NEW i \in Installers
       PROVE  InstallerOK(i)'
  <2>1. SUFFICES ASSUME Made(i)
                 PROVE  InstallerOK(i)'
    BY <1>11 DEF InstallerOK
  <2>2. PICK d : d = parent[i]
    OBVIOUS
  <2>3. /\ d \in Distributors /\ Made(d) /\ d \in Organizations
        /\ <<d, i, 1>> \in closure /\ RowsOf(i) \subseteq AnyInstallerRows(i, d)
        /\ IsLive(i) /\ i \notin crossed =>
               d \notin crossed /\ RowsOf(i) = InstallerRows(i, d, parent[d])
    BY <2>1, <2>2, OneType DEF TreeInv, Shape, InstallerOK
  <2>4. i # o /\ i # Root /\ i \in Organizations /\ i \notin Agents
    BY <1>1, OneType
  <2>5. parent'[i] = d
    BY <2>2, <2>4, <1>5
  <2>6. CASE i \in L
    <3>1. d = o
      BY <2>2, <2>6, <1>4
    <3>2. RowsOf(i)' = (RowsOf(i) \ m.doomed) \cup {<<p, i, 2>>, <<Root, i, 3>>}
      BY <2>6, <1>7, <1>9
    <3>3. <<d, i, 1>> \notin m.doomed /\ <<d, i, 1>> \in RowsOf(i)
      <4>1. PICK s : s = <<d, i, 1>>
        OBVIOUS
      <4>2. s[1] = d /\ s[2] = i /\ s \in RowsOf(i)
        BY <4>1, <2>3 DEF RowsOf
      <4>3. d \notin Agents \cup {Root}
        BY <2>3, OneType
      <4> QED
        BY <4>1, <4>2, <4>3, <1>8
    <3>4. <<d, i, 1>> \in closure'
      BY <3>2, <3>3 DEF RowsOf
    <3>5. RowsOf(i)' \subseteq AnyInstallerRows(i, d)
      BY <3>2, <2>3, <1>2 DEF AnyInstallerRows
    <3>6. ASSUME IsLive(i), i \notin crossed'
          PROVE  d \notin crossed' /\ RowsOf(i)' = InstallerRows(i, d, p)
      <4>1. i \in Children(o) /\ i \notin crossed /\ ~m.late
        BY <3>1, <3>6, <2>2, <2>4, <1>12 DEF Children
      <4>2. RowsOf(i) = InstallerRows(i, d, q) /\ d \notin crossed
        BY <4>1, <3>1, <3>6, <2>3, <1>1
      <4>3. <<q, i, 2>> \in m.doomed
        BY <4>1, <2>6, <1>1, <1>2 DEF Deletes
      <4>4. <<i, i, 0>> \notin m.doomed
        <5>1. PICK s : s = <<i, i, 0>>
          OBVIOUS
        <5>2. s \in RowsOf(i) /\ s[1] = i
          BY <5>1, <4>2 DEF InstallerRows
        <5> QED
          BY <5>1, <5>2, <1>8
      <4>5. d \notin crossed'
        BY <4>1, <4>2, <2>3, <1>12, OneType
      <4> QED
        BY <4>2, <4>3, <4>4, <4>5, <3>2, <3>3 DEF InstallerRows
    <3> QED
      BY <3>1, <3>4, <3>5, <3>6, <2>3, <2>5, <1>5, <1>11 DEF InstallerOK
  <2>7. CASE i \notin L
    <3>1. RowsOf(i)' = RowsOf(i)
      BY <2>4, <2>7, <1>10
    <3>2. <<d, i, 1>> \in closure'
      BY <3>1, <2>3 DEF RowsOf
    <3>3. ASSUME IsLive(i), i \notin crossed'
          PROVE  d \notin crossed' /\ RowsOf(i)' = InstallerRows(i, d, parent'[d])
      <4>1. i \notin crossed /\ d \notin crossed /\ RowsOf(i) = InstallerRows(i, d, parent[d])
        BY <3>3, <2>3, <1>12
      <4>2. d # o
        BY <3>3, <2>2, <2>4, <2>7, <1>12 DEF Children
      <4>3. d \notin crossed' /\ parent'[d] = parent[d]
        BY <4>1, <4>2, <2>3, <1>5, <1>12, OneType
      <4> QED
        BY <4>1, <4>3, <3>1
    <3> QED
      BY <3>1, <3>2, <3>3, <2>3, <2>5, <1>11 DEF InstallerOK
  <2> QED
    BY <2>6, <2>7
<1>17. CrossedOK'
  <2>1. \A x : x \in Missed(m) => x = o \/ x \in Installers
    BY <1>12
  <2> QED
    BY <2>1, <1>1, <1>12, OneType DEF TreeInv, Shape, CrossedOK
<1> QED
  BY <1>13, <1>14, <1>15, <1>16, <1>17 DEF Shape

\* The other moves keep what they have read, and their rows are still there, unless one
\* is of the same distributor.
LEMMA MoveCommitKeepsMoves ==
    ASSUME TreeInv, NEW v \in Movers, NEW m, m = moving[v], MoveCommit(v)
    PROVE  moving' \in [Movers -> TreeMoves] /\ MovesOK'
<1>1. /\ m \in TreeMoves /\ HasRead(m) /\ Deletes(m) /\ m.org \in Organizations
      /\ m.org \in Agents \cup Distributors /\ m.org # Root
  BY MoveCommits, OneType DEF HasRead
<1>2. moving' = [w \in Movers |->
          IF w = v THEN NoMove
          ELSE [moving[w] EXCEPT !.doomed = @ \ m.doomed, !.late = @ \/ moving[w].org = m.org]]
  BY DEF MoveCommit
<1>3. \A x : (Made(x)' <=> Made(x)) /\ (x \notin crossed' => x \notin crossed)
  BY MoveCommits
<1>4. /\ \A x \in Organizations : x # m.org => parent'[x] = parent[x]
      /\ m.org \in Agents => parent' = parent
  BY <1>1, MoveCommits, AgentCommits DEF TreeInv, TreeTyped
<1>5. NoMove \in TreeMoves
  BY OneType DEF NoMove, TreeMoves
<1>6. ASSUME NEW w \in Movers, w # v
      PROVE  /\ moving'[w] \in TreeMoves
             /\ moving'[w] # NoMove => HasRead(moving[w])' /\ Deletes(moving[w])'
  <2>1. PICK n : n = moving[w]
    OBVIOUS
  <2>2. PICK k : k = [n EXCEPT !.doomed = n.doomed \ m.doomed, !.late = n.late \/ n.org = m.org]
    OBVIOUS
  <2>3. moving'[w] = k /\ n \in TreeMoves
    BY <2>1, <2>2, <1>2, <1>6 DEF TreeInv, TreeTyped
  <2>4. /\ k \in TreeMoves /\ k.org = n.org /\ k.to = n.to /\ k.levels = n.levels
        /\ k.doomed = n.doomed \ m.doomed /\ (k.late <=> n.late \/ n.org = m.org)
    BY <2>2, <2>3 DEF TreeMoves
  <2>5. SUFFICES ASSUME n # NoMove
                 PROVE  HasRead(k)' /\ Deletes(k)'
    <3>1. n = NoMove => k = NoMove
      <4>1. ASSUME n = NoMove
            PROVE  n.org # m.org /\ n.doomed = {} /\ n.late = FALSE
        BY <4>1, <1>1 DEF NoMove
      <4> QED
        BY <4>1, <2>2 DEF NoMove
    <3> QED
      BY <3>1, <2>3, <2>4 DEF HasRead, Deletes
  <2>6. HasRead(n) /\ Deletes(n)
    BY <2>1, <2>5 DEF TreeInv, MovesOK
  <2>7. /\ n.org \in Organizations /\ n.levels[2] \subseteq Organizations
    BY <2>3 DEF TreeMoves
  <2>8. /\ n.org \in Agents => n.org \notin Distributors
        /\ n.org \in Distributors =>
               n.org # Root /\ n.levels[2] \subseteq Installers /\ parent[n.org] \in Agents
    BY <2>6, OneType DEF HasRead, TreeInv, Shape, DistributorOK
  <2>9. HasRead(k)'
    BY <2>4, <2>6, <1>3 DEF HasRead
  <2>10. n.org \in Distributors => \A i \in n.levels[2] : parent'[i] = parent[i] /\ parent[i] = n.org
    BY <2>6, <2>7, <2>8, <1>1, <1>4, OneType DEF Deletes
  <2>11. k.org \in Agents => \A r \in k.doomed : r[2] \notin crossed' => r[1] = Root
    BY <2>4, <2>6, <1>3 DEF Deletes
  <2>12. ASSUME n.org \in Distributors, ~k.late
         PROVE  /\ n.org \notin crossed' => <<parent'[n.org], n.org, 1>> \in k.doomed
                /\ \A i \in n.levels[2] : i \notin crossed' => <<parent'[n.org], i, 2>> \in k.doomed
    <3>1. ~n.late /\ n.org # m.org
      BY <2>4, <2>12
    <3>2. PICK q : q = parent[n.org]
      OBVIOUS
    <3>3. parent'[n.org] = q /\ q \in Agents /\ q # Root
      BY <3>1, <3>2, <2>7, <2>8, <2>12, <1>4, OneType
    <3>4. ASSUME NEW x \in Organizations, NEW d, x \notin crossed, x = n.org \/ x \in n.levels[2]
          PROVE  <<q, x, d>> \notin m.doomed
      <4>1. PICK s : s = <<q, x, d>>
        OBVIOUS
      <4>2. s[1] = q /\ s[2] = x
        BY <4>1
      <4>3. CASE m.org \in Agents
        BY <4>1, <4>2, <4>3, <3>3, <3>4, <1>1 DEF Deletes
      <4>4. CASE m.org \in Distributors
        <5>1. \A y \in m.levels[2] : y \in Installers /\ parent[y] = m.org
          BY <4>4, <1>1 DEF HasRead, Deletes
        <5>2. x \notin {m.org} \cup m.levels[2]
          BY <5>1, <4>4, <3>1, <3>4, <2>8, <2>10, <2>12, OneType
        <5>3. m.levels[3] = {}
          BY <4>4, <1>1 DEF HasRead
        <5> QED
          BY <5>2, <5>3, <4>1, <4>2, <1>1 DEF HasRead
      <4> QED
        BY <4>3, <4>4, <1>1
    <3>5. /\ n.org \notin crossed => <<q, n.org, 1>> \in n.doomed
          /\ \A i \in n.levels[2] : i \notin crossed => <<q, i, 2>> \in n.doomed
      BY <3>1, <3>2, <2>6, <2>12 DEF Deletes
    <3>6. n.org \notin crossed => <<q, n.org, 1>> \in k.doomed
      BY <3>4, <3>5, <2>4, <2>7
    <3>7. \A i \in n.levels[2] : i \notin crossed => <<q, i, 2>> \in k.doomed
      BY <3>4, <3>5, <2>4, <2>7
    <3> QED
      BY <3>3, <3>6, <3>7, <1>3
  <2>13. Deletes(k)'
    BY <2>4, <2>10, <2>11, <2>12 DEF Deletes
  <2> QED
    BY <2>9, <2>13
<1>7. moving'[v] = NoMove
  BY <1>2
<1>8. moving' \in [Movers -> TreeMoves]
  BY <1>2, <1>5, <1>6, <1>7
<1>9. MovesOK'
  <2>1. ASSUME NEW w \in Movers, moving'[w] # NoMove
        PROVE  HasRead(moving[w])' /\ Deletes(moving[w])'
    BY <2>1, <1>6, <1>7
  <2> QED
    BY <2>1 DEF MovesOK
<1> QED
  BY <1>8, <1>9

\* A move that commits keeps the rest: what is being made below it is marked.
LEMMA MoveCommitKeepsTree ==
    ASSUME TreeInv, NEW v \in Movers, MoveCommit(v)
    PROVE  TreeInv'
<1>1. PICK m : m = moving[v]
  OBVIOUS
<1>2. /\ m.org \in Organizations /\ m.to \in Organizations /\ HasRead(m)
      /\ m.levels[2] \subseteq Organizations /\ m.levels[3] \subseteq Organizations
      /\ parent' = [parent EXCEPT ![m.org] = m.to]
      /\ closure' = (closure \ m.doomed) \cup NewRows(m.levels, m.to)
      /\ moved' = moved \cup {m.org} /\ crossed' = crossed \cup Missed(m)
      /\ standing' = standing /\ limit' = limit /\ inherited' = inherited
  BY <1>1, MoveCommits
<1>3. \A x : (Made(x)' <=> Made(x)) /\ (IsLive(x)' <=> IsLive(x))
  BY <1>1, MoveCommits
<1>4. m.org \in Agents \/ m.org \in Distributors
  BY <1>2 DEF HasRead
<1>5. Shape' /\ (m.org \in Agents => parent' = parent)
  BY <1>1, <1>4, AgentCommits, DistributorCommits, OneType
<1>6. /\ parent' \in [Organizations -> Organizations]
      /\ \A x \in Organizations : x # m.org => parent'[x] = parent[x]
  BY <1>2 DEF TreeInv, TreeTyped
<1>7. closure' \subseteq TreeRows
  <2>1. ASSUME NEW x \in Organizations
        PROVE  RowsOf(x)' \subseteq TreeRows
    <3>1. Root \in Organizations
      BY OneType
    <3>2. CASE ~Made(x)'
      BY <3>2, <1>5 DEF Shape, RootAndOthers
    <3>3. CASE x = Root
      BY <3>1, <3>3, <1>5 DEF Shape, RootAndOthers, TreeRows
    <3>4. CASE x \in Agents /\ Made(x)'
      <4>1. RowsOf(x)' = AgentRows(x)
        BY <3>4, <1>5 DEF Shape, AgentOK
      <4> QED
        BY <4>1, <3>1 DEF AgentRows, TreeRows
    <3>5. CASE x \in Distributors /\ Made(x)'
      BY <3>5, <1>5, AnyRowsAreRows DEF Shape, DistributorOK
    <3>6. CASE x \in Installers /\ Made(x)'
      <4>1. RowsOf(x)' \subseteq AnyInstallerRows(x, parent'[x]) /\ parent'[x] \in Organizations
        BY <3>6, <1>5, <1>6 DEF Shape, InstallerOK
      <4> QED
        BY <4>1, AnyRowsAreRows
    <3> QED
      BY <3>2, <3>3, <3>4, <3>5, <3>6, OneType
  <2>2. ASSUME NEW r \in closure'
        PROVE  r[2] \in Organizations
    <3>1. CASE r \in closure
      BY <3>1 DEF TreeInv, TreeTyped, TreeRows
    <3>2. CASE r \in NewRows(m.levels, m.to)
      <4>1. PICK x : x = r[2]
        OBVIOUS
      <4>2. r \in Gained(m, x)
        BY <3>2, <4>1 DEF Gained
      <4>3. x \in {m.org} \cup m.levels[2] \cup m.levels[3]
        BY <4>2, <1>1, <1>2, MoveCommits, GainedByLevel DEF HasRead
      <4> QED
        BY <4>1, <4>3, <1>2
    <3> QED
      BY <3>1, <3>2, <1>2
  <2> QED
    BY <2>1, <2>2 DEF RowsOf
<1>8. moving' \in [Movers -> TreeMoves] /\ MovesOK'
  BY <1>1, MoveCommitKeepsMoves
<1>9. creating' = IF m.org \in Distributors /\ creating.parent = m.org
                  THEN [creating EXCEPT !.crossed = TRUE] ELSE creating
  BY <1>1 DEF MoveCommit
<1>10. PICK n, k, b : n = creating /\ k = creating'
                      /\ (b <=> m.org \in Distributors /\ creating.parent = m.org)
  OBVIOUS
<1>11. /\ k \in [org : Organizations, parent : Organizations, rows : SUBSET TreeRows,
                  limit : 0 .. MaxLimit, crossed : BOOLEAN]
       /\ k.org = n.org /\ k.parent = n.parent /\ k.rows = n.rows /\ k.limit = n.limit
       /\ b => k.crossed
       /\ ~b => k = n
       /\ n.parent \in Organizations
  BY <1>9, <1>10 DEF TreeInv, TreeTyped
<1>12. crossed' \subseteq Organizations
  BY <1>5, OneType DEF Shape, CrossedOK
<1>13. TreeTyped'
  BY <1>2, <1>6, <1>7, <1>8, <1>10, <1>11, <1>12 DEF TreeInv, TreeTyped
<1>14. CreationOK'
  <2>1. CASE n = NoCreation
    <3>1. ~b
      BY <2>1, <1>10, OneType DEF NoCreation
    <3> QED
      BY <2>1, <3>1, <1>10, <1>11 DEF CreationOK
  <2>2. CASE n # NoCreation
    <3>1. Prepared(n)
      BY <2>2, <1>10 DEF TreeInv, CreationOK
    <3>2. /\ ~Made(k.org)' /\ Made(k.parent)' /\ Fits(k.org, k.parent)
          /\ k.limit <= limit'[k.parent]
          /\ k.org \in Agents => k.rows = AgentRows(k.org)
          /\ k.org \in Distributors => k.rows = DistributorRows(k.org, k.parent)
      BY <3>1, <1>2, <1>3, <1>11 DEF Prepared
    <3>3. k.org \notin Installers => ~k.crossed
      <4>1. b => n.org \in Installers
        BY <3>1, <1>10, OneType DEF Prepared, Fits
      <4> QED
        BY <4>1, <3>1, <1>11 DEF Prepared
    <3>4. ASSUME k.org \in Installers
          PROVE  /\ <<k.parent, k.org, 1>> \in k.rows
                 /\ k.rows \subseteq AnyInstallerRows(k.org, k.parent)
                 /\ ~k.crossed => /\ k.parent \notin crossed'
                                  /\ k.rows = InstallerRows(k.org, k.parent, parent'[k.parent])
      <4>1. k.parent \in Distributors
        BY <3>1, <3>4, <1>11, OneType DEF Prepared, Fits
      <4>2. ASSUME ~k.crossed
            PROVE  /\ k.parent \notin crossed'
                   /\ k.rows = InstallerRows(k.org, k.parent, parent'[k.parent])
        <5>1. ~b /\ k = n /\ ~n.crossed
          BY <4>2, <1>11
        <5>2. k.parent # m.org
          BY <5>1, <4>1, <1>4, <1>10, OneType
        <5>3. k.parent \notin Missed(m)
          <6>1. CASE m.org \in Distributors
            BY <6>1, <5>2, <4>1, ChildrenAreBelow, OneType DEF Missed
          <6>2. CASE m.org \notin Distributors
            BY <6>2 DEF Missed
          <6> QED
            BY <6>1, <6>2
        <5>4. parent'[k.parent] = parent[k.parent]
          BY <5>1, <5>2, <1>6, <1>11
        <5> QED
          BY <5>1, <5>3, <5>4, <3>1, <3>4, <1>2 DEF Prepared
      <4> QED
        BY <4>2, <3>1, <3>4, <1>11 DEF Prepared
    <3>5. Prepared(k)'
      BY <3>2, <3>3, <3>4 DEF Prepared
    <3> QED
      BY <3>5, <1>10 DEF CreationOK, Prepared
  <2> QED
    BY <2>1, <2>2
<1>15. LimitsDescend'
  <2>1. ASSUME NEW x \in Organizations, IsLive(x), x \notin moved'
        PROVE  limit[x] <= limit[parent'[x]]
    BY <2>1, <1>2, <1>6 DEF TreeInv, LimitsDescend
  <2> QED
    BY <2>1, <1>2, <1>3 DEF LimitsDescend
<1> QED
  BY <1>5, <1>8, <1>13, <1>14, <1>15 DEF TreeInv

\* Every step keeps the invariant.
LEMMA TreeSteps == TreeInv /\ [TreeNext]_treeVars => TreeInv'
<1> SUFFICES ASSUME TreeInv, [TreeNext]_treeVars
             PROVE  TreeInv'
  OBVIOUS
<1>1. CASE UNCHANGED treeVars
  <2>1. /\ standing' = standing /\ parent' = parent /\ closure' = closure /\ limit' = limit
        /\ inherited' = inherited /\ creating' = creating /\ moving' = moving
        /\ moved' = moved /\ crossed' = crossed
    BY <1>1 DEF treeVars
  <2>2. TreeTyped' /\ Shape' /\ LimitsDescend'
    BY <2>1 DEF TreeInv, TreeTyped, Shape, CrossedOK, RootAndOthers, AgentOK, DistributorOK,
                InstallerOK, RowsOf, Made, IsLive, LimitsDescend
  <2>3. CreationOK' /\ MovesOK'
    BY <2>1 DEF TreeInv, CreationOK, Prepared, MovesOK, HasRead, Deletes, Made
  <2> QED
    BY <2>2, <2>3 DEF TreeInv
<1>2. ASSUME NEW v \in Movers, NEW o \in Organizations, NEW p \in Organizations, MoveRead(v, o, p)
      PROVE  TreeInv'
  BY <1>2, MoveReadKeepsTree
<1>3. ASSUME NEW v \in Movers, MoveCommit(v) \/ MoveAborts(v)
      PROVE  TreeInv'
  BY <1>3, MoveCommitKeepsTree, MoveAbortsKeepsTree
<1> QED
  BY <1>1, <1>2, <1>3, CreateKeepsTree, CommitKeepsTree, DeleteKeepsTree, QuotaKeepsTree
     DEF TreeNext

\* The closure is the one the parents make, in any tree, with as many agents,
\* distributors and installers as there may be, however they are made, moved to and fro
\* and deleted, with as many moves at once as there may be: but for an organization that
\* was made below one that moved meanwhile, and for a distributor, and its installers,
\* of which two moves overlapped.
THEOREM TreesAreClosed == TreeSpec => [](TreeTypeOK /\ ClosureIsTree)
BY TreeInvSuffices, TreeBegins, TreeSteps, PTL DEF TreeSpec

\* No organization that was never moved has a larger limit than its parent, in whatever
\* order organizations are made, moved, deleted and given limits.
THEOREM LimitsOfTreesDescend == TreeSpec => []LimitsDescend
BY TreeInvSuffices, TreeBegins, TreeSteps, PTL DEF TreeSpec

-----------------------------------------------------------------------------
(* All of them.                                                            *)

\* A step of the services is a step of each or leaves its state alone.
LEMMA EachAccountActsOrRests ==
    ASSUME [AccountsNext]_accountsVars
    PROVE  /\ [AuthNext]_authVars /\ [MemberNext]_memberVars
           /\ [InviteNext]_inviteVars /\ [TreeNext]_treeVars
BY DEF AccountsNext, accountsVars

\* The services together do what each of them may do.
LEMMA AccountsAreParts == AccountsSpec => AuthSpec /\ MemberSpec /\ InviteSpec /\ TreeSpec
BY EachAccountActsOrRests, PTL
   DEF AccountsSpec, AccountsInit, AuthSpec, MemberSpec, InviteSpec, TreeSpec

\* Whichever of logins, memberships, invitations and the tree of organizations acts, the
\* state of all has the values it can take, and what is proved of each is true of them
\* together, in every state and of every step.
THEOREM AccountsAreSafe ==
    AccountsSpec =>
        /\ [](/\ AccountsTypeOK /\ RedeemedOnce /\ ChangeEndsSessions
              /\ TransferIsWhole /\ ClosureIsTree /\ LimitsDescend)
        /\ EndedStaysEnded /\ NoLateAccount
<1>1. AuthTypeOK /\ MemberTypeOK /\ InviteTypeOK /\ TreeTypeOK => AccountsTypeOK
  BY DEF AccountsTypeOK
<1> QED
  BY <1>1, AccountsAreParts, AuthTypeCorrect, TokensRedeemedOnce,
     ChangedPasswordEndsSessions, EndedSessionsStayEnded, TransfersAreWhole,
     AccountsOfPendingInvites, TreesAreClosed, LimitsOfTreesDescend, PTL
=============================================================================
