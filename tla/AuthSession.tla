----------------------------- MODULE AuthSession -----------------------------
(***************************************************************************)
(* The sessions of one user. A login makes a session with an access token  *)
(* and a refresh token; Redis holds, under the key of the session, the     *)
(* refresh token that is current. A refresh swaps it for a new one. An     *)
(* access token is accepted while its session has a key, the user's        *)
(* session_version is the one it carries, and it is younger than the last  *)
(* revocation. A change of the password counts session_version up, then    *)
(* sets the time of the revocation and then deletes the keys it finds.     *)
(*                                                                         *)
(* Requests run at once; their reads of the database and their commands to *)
(* Redis are separate steps. A token is its number and what it carries;    *)
(* signatures and the expiry of access tokens are left out, and so are the *)
(* checks of the password and of codes, and organizations: a context has   *)
(* the version of the user and nothing else. Key and time of revocation of *)
(* one user concern no other.                                              *)
(***************************************************************************)
EXTENDS Naturals, FiniteSets

CONSTANTS
    Clients,      \* requests of the user under way
    MaxSessions,  \* bound: logins
    MaxTokens,    \* bound: refresh tokens given out
    MaxVersion,   \* bound: session_version
    MaxSeconds    \* bound: seconds that pass

ASSUME AuthAssumption ==
    {MaxSessions, MaxTokens} \subseteq Nat /\ {MaxVersion, MaxSeconds} \subseteq Nat \ {0}

Sids     == 1 .. MaxSessions
Versions == 1 .. MaxVersion
Seconds  == 1 .. MaxSeconds

\* Refresh token n of session sid took the place of token from, or 0 at a login.
Tokens == [n : 1 .. MaxTokens, sid : Sids, ver : Versions, from : 0 .. MaxTokens]
Access == [n : 1 .. MaxTokens, sid : Sids, ver : Versions, iat : Seconds]

VARIABLES
    version,    \* users.session_version
    enabled,    \* users.status = 1
    second,     \* the time
    logins,     \* sessions made so far; their numbers are the session ids
    current,    \* current[s]: number of the token in refresh_session:<user>:<s>, or 0
    cutoff,     \* user_token_revoked_at, or 0
    blacklist,  \* token_blacklist: the access tokens logged out
    tokens,     \* refresh tokens given out
    access,     \* access tokens given out
    request,    \* request[c]: what the request of c does next, and what it read
    cleaned     \* the session_version whose change deleted its keys to the end

database == <<version, enabled>>
given    == <<tokens, access>>
authVars == <<version, enabled, second, logins, current, cutoff, blacklist, tokens, access,
              request, cleaned>>

\* sid and from: the session and the token presented; ver: the version that was
\* checked; acc, iat: version and time of the new access token; keys: those found.
NoRequest == [pc |-> "idle", sid |-> 0, from |-> 0, ver |-> 0, acc |-> 0, iat |-> 0, keys |-> {}]

AuthInit ==
    /\ version = 1 /\ enabled = TRUE /\ second = 1 /\ logins = 0
    /\ current = [s \in Sids |-> 0] /\ cutoff = 0 /\ blacklist = {}
    /\ tokens = {} /\ access = {} /\ cleaned = 1
    /\ request = [c \in Clients |-> NoRequest]

Asks(c, pc) == request[c].pc = pc
Answers(c) == request' = [request EXCEPT ![c] = NoRequest]

\* The pair that request c made is given out.
Give(c) ==
    LET n == Cardinality(tokens) + 1  q == request[c] IN
    /\ n <= MaxTokens
    /\ current' = [current EXCEPT ![q.sid] = n]
    /\ tokens' = tokens \cup {[n |-> n, sid |-> q.sid, ver |-> q.ver, from |-> q.from]}
    /\ access' = access \cup {[n |-> n, sid |-> q.sid, ver |-> q.acc, iat |-> q.iat]}

\* Auth: what the middleware asks of an access token.
Accepted(a) ==
    /\ a.n \notin blacklist /\ a.iat > cutoff /\ current[a.sid] # 0
    /\ enabled /\ a.ver = version

-----------------------------------------------------------------------------
(* Login, refresh and logout.                                              *)

\* generateLoginTokenPair, once the password was found right.
LoginResolve(c) ==
    /\ Asks(c, "idle") /\ logins < MaxSessions /\ enabled
    /\ logins' = logins + 1
    /\ request' = [request EXCEPT ![c] = [NoRequest EXCEPT
          !.pc = "store", !.sid = logins + 1, !.ver = version, !.acc = version, !.iat = second]]
    /\ UNCHANGED <<database, second, current, cutoff, blacklist, given, cleaned>>

\* StoreRefreshToken
LoginStore(c) ==
    /\ Asks(c, "store")
    /\ Give(c) /\ Answers(c)
    /\ UNCHANGED <<database, second, logins, cutoff, blacklist, cleaned>>

\* RefreshToken: the user is enabled and has the version of the token.
RefreshCheck(c, t) ==
    /\ Asks(c, "idle") /\ enabled /\ t.ver = version
    /\ request' = [request EXCEPT ![c] = [NoRequest EXCEPT
          !.pc = "resolve", !.sid = t.sid, !.from = t.n, !.ver = version]]
    /\ UNCHANGED <<database, second, logins, current, cutoff, blacklist, given, cleaned>>

\* The context is read anew, or made up of what was checked.
RefreshResolve(c) ==
    /\ Asks(c, "resolve")
    /\ \E v \in {request[c].ver} \cup (IF enabled THEN {version} ELSE {}) :
          request' = [request EXCEPT ![c].pc = "swap", ![c].acc = v, ![c].iat = second]
    /\ UNCHANGED <<database, second, logins, current, cutoff, blacklist, given, cleaned>>

\* AuthorizationContext reads the context once and compares its version.
ContextResolve(c, t) ==
    /\ Asks(c, "idle") /\ enabled /\ t.ver = version
    /\ request' = [request EXCEPT ![c] = [NoRequest EXCEPT
          !.pc = "swap", !.sid = t.sid, !.from = t.n, !.ver = version,
          !.acc = version, !.iat = second]]
    /\ UNCHANGED <<database, second, logins, current, cutoff, blacklist, given, cleaned>>

\* Mutant: the script looks for a key only, and not at the token in it.
SwapUncompared(c) ==
    /\ Asks(c, "swap")
    /\ \/ current[request[c].sid] # 0 /\ Give(c) /\ Answers(c)
       \/ /\ current[request[c].sid] = 0
          /\ request' = [request EXCEPT ![c].pc = "revoke"] /\ UNCHANGED <<current, given>>
    /\ UNCHANGED <<database, second, logins, cutoff, blacklist, cleaned>>

\* Mutant: the script sets the key of a session that has none.
SwapReviving(c) ==
    /\ Asks(c, "swap")
    /\ \/ current[request[c].sid] \in {0, request[c].from} /\ Give(c) /\ Answers(c)
       \/ /\ current[request[c].sid] \notin {0, request[c].from}
          /\ current' = [current EXCEPT ![request[c].sid] = 0]
          /\ request' = [request EXCEPT ![c].pc = "revoke"] /\ UNCHANGED given
    /\ UNCHANGED <<database, second, logins, cutoff, blacklist, cleaned>>

\* SwapRefreshToken: one script. A token that is not the current one ends the session.
Swap(c) ==
    /\ Asks(c, "swap")
    /\ \/ current[request[c].sid] = request[c].from /\ Give(c) /\ Answers(c)
       \/ /\ current[request[c].sid] # request[c].from
          /\ current' = [current EXCEPT ![request[c].sid] = 0]
          /\ request' = [request EXCEPT ![c].pc = "revoke"] /\ UNCHANGED given
    /\ UNCHANGED <<database, second, logins, cutoff, blacklist, cleaned>>

\* RevokeRefreshToken, after a swap in vain and at a logout.
Revoke(c) ==
    /\ Asks(c, "revoke")
    /\ current' = [current EXCEPT ![request[c].sid] = 0] /\ Answers(c)
    /\ UNCHANGED <<database, second, logins, cutoff, blacklist, given, cleaned>>

Logout(c, a) ==
    /\ Asks(c, "idle") /\ Accepted(a)
    /\ blacklist' = blacklist \cup {a.n}
    /\ request' = [request EXCEPT ![c] = [NoRequest EXCEPT !.pc = "revoke", !.sid = a.sid]]
    /\ UNCHANGED <<database, second, logins, current, cutoff, given, cleaned>>

-----------------------------------------------------------------------------
(* The password, the status, and the time.                                 *)

\* UpdatePassword, of ChangePassword and the two ways to reset it.
ChangePassword(c) ==
    /\ Asks(c, "idle") /\ version < MaxVersion
    /\ version' = version + 1
    /\ request' = [request EXCEPT ![c] = [NoRequest EXCEPT !.pc = "cut", !.ver = version + 1]]
    /\ UNCHANGED <<enabled, second, logins, current, cutoff, blacklist, given, cleaned>>

\* RevokeAllUserTokens. Whatever fails of it is logged only.
RevokeCut(c) ==
    /\ Asks(c, "cut")
    /\ cutoff' = second
    /\ request' = [request EXCEPT ![c].pc = "scan"]
    /\ UNCHANGED <<database, second, logins, current, blacklist, given, cleaned>>

RevokeScan(c) ==
    /\ Asks(c, "scan")
    /\ request' = [request EXCEPT ![c].pc = "delete", ![c].keys = {s \in Sids : current[s] # 0}]
    /\ UNCHANGED <<database, second, logins, current, cutoff, blacklist, given, cleaned>>

\* Mutant: the newest session, of the request itself, is kept.
RevokeDeleteOthers(c) ==
    /\ Asks(c, "delete")
    /\ current' = [s \in Sids |->
          IF s \in request[c].keys /\ \E k \in request[c].keys : k > s THEN 0 ELSE current[s]]
    /\ cleaned' = IF request[c].ver > cleaned THEN request[c].ver ELSE cleaned
    /\ Answers(c)
    /\ UNCHANGED <<database, second, logins, cutoff, blacklist, given>>

RevokeDelete(c) ==
    /\ Asks(c, "delete")
    /\ current' = [s \in Sids |-> IF s \in request[c].keys THEN 0 ELSE current[s]]
    /\ cleaned' = IF request[c].ver > cleaned THEN request[c].ver ELSE cleaned
    /\ Answers(c)
    /\ UNCHANGED <<database, second, logins, cutoff, blacklist, given>>

\* A request ends early: Redis or the database fails it, or the process restarts.
Abandon(c) ==
    /\ ~Asks(c, "idle") /\ Answers(c)
    /\ UNCHANGED <<database, second, logins, current, cutoff, blacklist, given, cleaned>>

\* UpdateStatus, by an administrator: no key is deleted.
SetStatus ==
    /\ version < MaxVersion
    /\ version' = version + 1 /\ enabled' = ~enabled
    /\ UNCHANGED <<second, logins, current, cutoff, blacklist, given, request, cleaned>>

KeyExpires(s) ==
    /\ current[s] # 0
    /\ current' = [current EXCEPT ![s] = 0]
    /\ UNCHANGED <<database, second, logins, cutoff, blacklist, given, request, cleaned>>

Tick ==
    /\ second < MaxSeconds
    /\ second' = second + 1
    /\ UNCHANGED <<database, logins, current, cutoff, blacklist, given, request, cleaned>>

AuthNext ==
    \/ \E c \in Clients :
          \/ LoginResolve(c) \/ LoginStore(c) \/ RefreshResolve(c) \/ Swap(c) \/ Revoke(c)
          \/ ChangePassword(c) \/ RevokeCut(c) \/ RevokeScan(c) \/ RevokeDelete(c) \/ Abandon(c)
          \/ \E t \in tokens : RefreshCheck(c, t) \/ ContextResolve(c, t)
          \/ \E a \in access : Logout(c, a)
    \/ \E s \in Sids : KeyExpires(s)
    \/ SetStatus \/ Tick

AuthSpec == AuthInit /\ [][AuthNext]_authVars

-----------------------------------------------------------------------------
\* The values the state can take: the row of the user, the keys, the tokens and
\* the requests; a current token was given out for its session, and no revocation is
\* of a time to come.
AuthTypeOK ==
    /\ version \in Versions /\ enabled \in BOOLEAN /\ second \in Seconds
    /\ logins \in 0 .. MaxSessions /\ cutoff \in 0 .. second
    /\ tokens \subseteq Tokens /\ access \subseteq Access /\ blacklist \subseteq 1 .. MaxTokens
    /\ \A s \in Sids : current[s] # 0 => \E t \in tokens : t.n = current[s] /\ t.sid = s
    /\ request \in [Clients ->
          [pc : {"idle", "store", "resolve", "swap", "revoke", "cut", "scan", "delete"},
           sid : 0 .. MaxSessions, from : 0 .. MaxTokens, ver : 0 .. MaxVersion,
           acc : 0 .. MaxVersion, iat : 0 .. MaxSeconds, keys : SUBSET Sids]]
    /\ cleaned \in Versions

\* A refresh token is exchanged for one other at most, although two requests may
\* have checked it before either swaps it.
RedeemedOnce ==
    \A t, u \in tokens : t.from # 0 /\ t.from = u.from => t = u

\* A session that was given out and has ended, by a logout, a token presented twice,
\* a change of the password or its age, does not come back: no refresh that was
\* under way sets its key again.
EndedStaysEnded ==
    [][\A s \in Sids :
          current[s] = 0 /\ (\E t \in tokens : t.sid = s) => current'[s] = 0]_authVars

\* When a change of the password has deleted its keys to the end, no access token of
\* a session of before is accepted, those included that a refresh made meanwhile with
\* the new version.
ChangeEndsSessions ==
    \A t \in tokens, a \in access : t.sid = a.sid /\ t.ver < cleaned => ~Accepted(a)
=============================================================================
