------------------------------ MODULE Sessions ------------------------------
(***************************************************************************)
(* The sessions of one account: login, refresh, logout, logout of all      *)
(* devices, password reset, the authentication of a request by an access   *)
(* token, and the saves of the whole users_user row by a profile edit and  *)
(* by an administrator.                                                    *)
(*                                                                         *)
(* No view opens a transaction around its statements, so each statement    *)
(* on users_user, users_session or the blacklist is a step.  A session has *)
(* one refresh token (a refresh keeps its jti), so the refresh token is    *)
(* named by the session.                                                   *)
(***************************************************************************)
EXTENDS Naturals

CONSTANTS
  SessionIds,
  Requests,   \* requests being served
  Statuses,   \* statuses an administrator may set
  MaxKeys,    \* bound: how often jwt_key is replaced
  Recovery,   \* whether passwords are reset
  Nobody, NoUser

Status == {"ACTIVE", "INACTIVE", "PENDING", "BLOCKED"}
Keys == 0..MaxKeys
User == [key: Keys, password: Keys, status: Status, active: BOOLEAN]
Token == [session: SessionIds, key: Keys]

ASSUME KeysAssumption == MaxKeys \in Nat
ASSUME RecoveryAssumption == Recovery \in BOOLEAN
ASSUME StatusesAssumption == Statuses \subseteq Status
ASSUME NullAssumption == Nobody \notin SessionIds /\ NoUser \notin User

VARIABLES
  user,         \* the row of users_user: jwt_key, password, status, is_active
  nextKey,      \* the next uuid4 that jwt_key, or hash that password, is given
  sessions,     \* SessionIds -> "none" (no row), "open" or "closed"
  blacklisted,  \* SessionIds -> its refresh token is in the blacklist
  tokens,       \* the access tokens issued so far
  links,        \* the passwords that mailed reset links can replace
  revoked,      \* history: tokens issued before a logout of all devices answered
  pc,           \* Requests -> what the request does next
  inst,         \* Requests -> the User instance in memory, or NoUser
  sid           \* Requests -> the session it works with, or Nobody

sessionVars == <<user, nextKey, sessions, blacklisted, tokens, links, revoked, pc, inst, sid>>
rows == <<user, nextKey, sessions, blacklisted, links, revoked>>

PC == {"idle", "create", "user", "session", "issue", "blacklist",
       "authenticate", "serve", "closeall", "admin", "reset"}

TypeOK ==
  /\ user \in User
  /\ nextKey \in 1..(MaxKeys + 1)
  /\ sessions \in [SessionIds -> {"none", "open", "closed"}]
  /\ blacklisted \in [SessionIds -> BOOLEAN]
  /\ tokens \subseteq Token
  /\ links \subseteq Keys
  /\ revoked \subseteq Token
  /\ pc \in [Requests -> PC]
  /\ inst \in [Requests -> User \cup {NoUser}]
  /\ sid \in [Requests -> SessionIds \cup {Nobody}]

Init ==
  /\ user = [key |-> 0, password |-> 0, status |-> "ACTIVE", active |-> TRUE]
  /\ nextKey = 1
  /\ sessions = [s \in SessionIds |-> "none"]
  /\ blacklisted = [s \in SessionIds |-> FALSE]
  /\ tokens = {}
  /\ links = {} /\ revoked = {}
  /\ pc = [r \in Requests |-> "idle"]
  /\ inst = [r \in Requests |-> NoUser]
  /\ sid = [r \in Requests |-> Nobody]

-----------------------------------------------------------------------------
\* The request answers, or dies, and is forgotten.
Done(r) ==
  /\ pc' = [pc EXCEPT ![r] = "idle"]
  /\ inst' = [inst EXCEPT ![r] = NoUser]
  /\ sid' = [sid EXCEPT ![r] = Nobody]

\* A read of the user row, after which the request goes on at label to.
FetchUser(r, to) ==
  /\ pc' = [pc EXCEPT ![r] = to]
  /\ inst' = [inst EXCEPT ![r] = user]

Goes(r, to) == pc' = [pc EXCEPT ![r] = to] /\ UNCHANGED <<inst, sid>>

MayUse(u) == u.active /\ u.status # "BLOCKED"

\* uuid.uuid4(), or the salted hash of a password
FreshKey == nextKey

\* Another key or password is drawn.
Draw == nextKey <= MaxKeys /\ nextKey' = nextKey + 1

\* The answer sets the cookies; the access token carries the key of the user as
\* it was fetched.
Issue(r, s) == tokens' = tokens \cup {[session |-> s, key |-> inst[r].key]}

(* POST /auth/login/                                                        *)

\* LoginSerializer.validate: what is asked of the row, besides the password.
Welcome(u) == MayUse(u) /\ u.status # "PENDING"

\* A login that is refused changes no session; its attempt is logged.
LoginFetch(r) ==
  /\ pc[r] = "idle"
  /\ Welcome(user)
  /\ FetchUser(r, "create")
  /\ UNCHANGED <<rows, tokens, sid>>

\* AuthService.login_user: the session row, and tokens with the key fetched.
LoginCreate(r, s) ==
  /\ pc[r] = "create"
  /\ MayUse(inst[r])
  /\ sessions[s] = "none"
  /\ sessions' = [sessions EXCEPT ![s] = "open"]
  /\ Issue(r, s)
  /\ Done(r)
  /\ UNCHANGED <<user, nextKey, blacklisted, links, revoked>>

(* POST /auth/token/refresh/                                                *)

\* RefreshToken(...) refuses a blacklisted token.
ValidRefresh(s) == sessions[s] # "none" /\ ~blacklisted[s]

\* The refresh token comes from a cookie.
RefreshStart(r, s) ==
  /\ pc[r] = "idle"
  /\ ValidRefresh(s)
  /\ pc' = [pc EXCEPT ![r] = "user"]
  /\ sid' = [sid EXCEPT ![r] = s]
  /\ UNCHANGED <<rows, tokens, inst>>

RefreshUser(r) ==
  /\ pc[r] = "user"
  /\ IF MayUse(user) THEN FetchUser(r, "session") /\ UNCHANGED sid ELSE Done(r)
  /\ UNCHANGED <<rows, tokens>>

RefreshSession(r) ==
  /\ pc[r] = "session"
  /\ IF sessions[sid[r]] = "open" THEN Goes(r, "issue") ELSE Done(r)
  /\ UNCHANGED <<rows, tokens>>

\* mutant: session.save() without update_fields
LastActivityWhole(r) == sessions' = [sessions EXCEPT ![sid[r]] = "open"]

\* session.save(update_fields=['last_activity'])
LastActivity(r) == UNCHANGED sessions

\* The refresh token stays valid.
RefreshIssue(r) ==
  /\ pc[r] = "issue"
  /\ LastActivity(r)
  /\ Issue(r, sid[r])
  /\ Done(r)
  /\ UNCHANGED <<user, nextKey, blacklisted, links, revoked>>

(* POST /auth/logout/                                                       *)

\* mutant: the token goes to the blacklist before the session is closed
LogoutBlacklistsFirst(r, s) ==
  /\ pc[r] = "idle"
  /\ ValidRefresh(s)
  /\ blacklisted' = [blacklisted EXCEPT ![s] = TRUE]
  /\ UNCHANGED <<user, nextKey, sessions, tokens, links, revoked, pc, inst, sid>>

\* UserSession.objects.filter(session_id=..).update(is_active=False)
CloseSession(s) == sessions' = [sessions EXCEPT ![s] = "closed"]

\* A valid refresh token closes its session first.  So does a logout of all
\* devices whose access token is not accepted any more: request.user is then
\* anonymous.
Logout(r, s) ==
  /\ pc[r] = "idle"
  /\ ValidRefresh(s)
  /\ CloseSession(s)
  /\ pc' = [pc EXCEPT ![r] = "blacklist"]
  /\ sid' = [sid EXCEPT ![r] = s]
  /\ UNCHANGED <<user, nextKey, blacklisted, tokens, links, revoked, inst>>

Blacklist(r) ==
  /\ pc[r] = "blacklist"
  /\ blacklisted' = [blacklisted EXCEPT ![sid[r]] = TRUE]
  /\ Done(r)
  /\ UNCHANGED <<user, nextKey, sessions, tokens, links, revoked>>

-----------------------------------------------------------------------------
(* CustomJWTAuthentication.authenticate                                     *)

\* The account is in use, and the key of the token is still its key.
Recognised(t) == t.key = user.key /\ MayUse(user)

\* The user row, as the token names it.
Authenticate(r, t) ==
  /\ pc[r] = "idle"
  /\ Recognised(t)
  /\ FetchUser(r, "authenticate")
  /\ sid' = [sid EXCEPT ![r] = t.session]
  /\ UNCHANGED <<rows, tokens>>

\* mutant: the session row of the token is not looked at
AdmitUnchecked(r) ==
  /\ pc[r] = "authenticate"
  /\ Goes(r, "serve")
  /\ UNCHANGED <<rows, tokens>>

\* Then the session row.  A header that fails is answered with 401, a cookie
\* makes the request anonymous.
Admit(r) ==
  /\ pc[r] = "authenticate"
  /\ IF sessions[sid[r]] = "open" THEN Goes(r, "serve") ELSE Done(r)
  /\ UNCHANGED <<rows, tokens>>

\* A request that leaves users_user and its sessions alone.
Serve(r) ==
  /\ pc[r] = "serve"
  /\ Done(r)
  /\ UNCHANGED <<rows, tokens>>

\* PATCH of the own profile: every column of the instance that was fetched to
\* authenticate the request.
SaveProfile(r) ==
  /\ pc[r] = "serve"
  /\ user' = inst[r]
  /\ Done(r)
  /\ UNCHANGED <<nextKey, sessions, blacklisted, tokens, links, revoked>>

\* Logout of all devices: the key first, in a statement of its own.
ReplaceKey(r) ==
  /\ pc[r] = "serve"
  /\ Draw
  /\ user' = [user EXCEPT !.key = FreshKey]
  /\ Goes(r, "closeall")
  /\ UNCHANGED <<sessions, blacklisted, tokens, links, revoked>>

\* mutant: only the session of the request is closed
Closable(r) == {sid[r]}

\* The sessions that are active when the UPDATE runs.
ActiveSessions(r) == {s \in SessionIds : sessions[s] = "open"}

CloseAll(r) ==
  /\ pc[r] = "closeall"
  /\ sessions' = [s \in SessionIds |->
                    IF s \in ActiveSessions(r) THEN "closed" ELSE sessions[s]]
  /\ revoked' = tokens
  /\ Done(r)
  /\ UNCHANGED <<user, nextKey, blacklisted, tokens, links>>

-----------------------------------------------------------------------------
(* Password reset, and the requests of administrators.                      *)

\* The link signs the password of the row; the mail may fail.
RequestLink(r) ==
  /\ Recovery
  /\ pc[r] = "idle"
  /\ links' = links \cup {user.password}
  /\ UNCHANGED <<user, nextKey, sessions, blacklisted, tokens, revoked, pc, inst, sid>>

\* check_token: the password is the one that the link was made for.
ResetFetch(r) ==
  /\ pc[r] = "idle"
  /\ user.password \in links
  /\ FetchUser(r, "reset")
  /\ UNCHANGED <<rows, tokens, sid>>

\* A new password and a new key, in a save of the whole row.
ResetSave(r) ==
  /\ pc[r] = "reset"
  /\ Draw
  /\ user' = [inst[r] EXCEPT !.key = FreshKey, !.password = FreshKey]
  /\ Done(r)
  /\ UNCHANGED <<sessions, blacklisted, tokens, links, revoked>>

AdminFetch(r) ==
  /\ pc[r] = "idle"
  /\ FetchUser(r, "admin")
  /\ UNCHANGED <<rows, tokens, sid>>

\* is_active follows the status, but PENDING leaves it alone.
WithStatus(u, st) ==
  [u EXCEPT !.status = st,
            !.active = IF st = "PENDING" THEN u.active ELSE st = "ACTIVE"]

\* The status view, or the user list of the administrators, which has is_active
\* among its fields; both save the whole row.
AdminSave(r) ==
  /\ pc[r] = "admin"
  /\ \/ \E st \in Statuses : user' = WithStatus(inst[r], st)
     \/ \E active \in BOOLEAN : user' = [inst[r] EXCEPT !.active = active]
  /\ Done(r)
  /\ UNCHANGED <<nextKey, sessions, blacklisted, tokens, links, revoked>>

\* A worker dies between two statements.
Die(r) ==
  /\ pc[r] # "idle"
  /\ Done(r)
  /\ UNCHANGED <<rows, tokens>>

RequestStep(r) ==
  \/ LoginFetch(r)
  \/ \E s \in SessionIds : LoginCreate(r, s) \/ RefreshStart(r, s) \/ Logout(r, s)
  \/ RefreshUser(r) \/ RefreshSession(r) \/ RefreshIssue(r)
  \/ Blacklist(r)
  \/ \E t \in tokens : Authenticate(r, t)
  \/ Admit(r) \/ Serve(r) \/ SaveProfile(r) \/ ReplaceKey(r) \/ CloseAll(r)
  \/ RequestLink(r) \/ ResetFetch(r) \/ ResetSave(r) \/ AdminFetch(r) \/ AdminSave(r)
  \/ Die(r)

Next == \E r \in Requests : RequestStep(r)

Spec == Init /\ [][Next]_sessionVars
=============================================================================
