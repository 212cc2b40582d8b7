--------------------------- MODULE SessionsProofs ---------------------------
(***************************************************************************)
(* Theorems about module Sessions, for any number of sessions, requests    *)
(* and keys, checked by TLAPS.                                             *)
(***************************************************************************)
EXTENDS SessionsProps, TLAPS

\* The points at which a request works with a session, and with a user.
WithSession == {"user", "session", "issue", "blacklist", "authenticate", "serve", "closeall"}
WithUser == {"create", "session", "issue", "authenticate", "serve", "closeall", "admin", "reset"}

\* A request works with a session that has a row, and one that is about to put a
\* refresh token in the blacklist has closed its session.
RequestInv(r) ==
  /\ pc[r] \in WithSession => sid[r] \in SessionIds /\ sessions[sid[r]] # "none"
  /\ pc[r] \in WithUser => inst[r] \in User
  /\ pc[r] = "blacklist" => sessions[sid[r]] = "closed"

\* The inductive invariant: every token is of a session that has a row, and that
\* is closed once the token was revoked.
IInv ==
  /\ BlacklistedIsClosed
  /\ \A r \in Requests : RequestInv(r)
  /\ \A t \in tokens : sessions[t.session] # "none"
  /\ \A t \in revoked : sessions[t.session] = "closed"

USE KeysAssumption, NullAssumption

LEMMA InitIInv == Init => IInv
  <1> SUFFICES ASSUME Init PROVE IInv
    OBVIOUS
  <1>1. TypeOK
    BY DEF Init, TypeOK, User, Keys, Status, PC
  <1>2. QED
    BY <1>1 DEF Init, IInv, BlacklistedIsClosed, RequestInv, WithSession, WithUser

-----------------------------------------------------------------------------
(* One lemma for what a step does to each part of the state.                *)

LEMMA WithStatusType ==
  ASSUME NEW u \in User, NEW st \in Status
  PROVE  WithStatus(u, st) \in User
  BY DEF WithStatus, User

LEMMA WithActive ==
  ASSUME NEW u \in User, NEW active \in BOOLEAN
  PROVE  [u EXCEPT !.active = active] \in User
  BY DEF User

LEMMA WithKey ==
  ASSUME NEW u \in User, NEW k \in Keys
  PROVE  /\ [u EXCEPT !.key = k] \in User
         /\ [u EXCEPT !.key = k, !.password = k] \in User
  BY DEF User

\* The user row is an instance, with other columns or not.
LEMMA UserStep ==
  ASSUME IInv, NEW r \in Requests, RequestStep(r)
  PROVE  user' \in User /\ nextKey' \in 1..(MaxKeys + 1)
  <1>0. user \in User /\ nextKey \in 1..(MaxKeys + 1) /\ (pc[r] \in WithUser => inst[r] \in User)
    BY DEF IInv, BlacklistedIsClosed, TypeOK, RequestInv
  <1>1. CASE LoginFetch(r)
    BY <1>1, <1>0 DEF LoginFetch, rows
  <1>2. CASE \E s \in SessionIds : LoginCreate(r, s)
    BY <1>2, <1>0 DEF LoginCreate, rows
  <1>3. CASE \E s \in SessionIds : RefreshStart(r, s)
    BY <1>3, <1>0 DEF RefreshStart, rows
  <1>4. CASE \E s \in SessionIds : Logout(r, s)
    BY <1>4, <1>0 DEF Logout, rows
  <1>5. CASE RefreshUser(r)
    BY <1>5, <1>0 DEF RefreshUser, rows
  <1>6. CASE RefreshSession(r)
    BY <1>6, <1>0 DEF RefreshSession, rows
  <1>7. CASE RefreshIssue(r)
    BY <1>7, <1>0 DEF RefreshIssue, rows
  <1>8. CASE Blacklist(r)
    BY <1>8, <1>0 DEF Blacklist, rows
  <1>9. CASE \E t \in tokens : Authenticate(r, t)
    BY <1>9, <1>0 DEF Authenticate, rows
  <1>10. CASE Admit(r)
    BY <1>10, <1>0 DEF Admit, rows
  <1>11. CASE Serve(r)
    BY <1>11, <1>0 DEF Serve, rows
  <1>12. CASE SaveProfile(r)
    BY <1>12, <1>0 DEF SaveProfile, WithUser
  <1>13. CASE ReplaceKey(r)
    <2>1. nextKey \in Keys /\ nextKey' = nextKey + 1 /\ user' = [user EXCEPT !.key = nextKey]
      BY <1>0, <1>13 DEF ReplaceKey, Draw, FreshKey, Keys
    <2>2. user' \in User
      BY <1>0, <2>1, WithKey
    <2>3. QED
      BY <1>0, <2>1, <2>2 DEF Keys
  <1>14. CASE CloseAll(r)
    BY <1>14, <1>0 DEF CloseAll, rows
  <1>15. CASE RequestLink(r)
    BY <1>15, <1>0 DEF RequestLink, rows
  <1>16. CASE ResetFetch(r)
    BY <1>16, <1>0 DEF ResetFetch, rows
  <1>17. CASE ResetSave(r)
    <2>1. /\ nextKey \in Keys /\ nextKey' = nextKey + 1
          /\ user' = [inst[r] EXCEPT !.key = nextKey, !.password = nextKey]
          /\ inst[r] \in User
      BY <1>0, <1>17 DEF ResetSave, Draw, FreshKey, Keys, WithUser
    <2>2. user' \in User
      BY <2>1, WithKey
    <2>3. QED
      BY <1>0, <2>1, <2>2 DEF Keys
  <1>18. CASE AdminFetch(r)
    BY <1>18, <1>0 DEF AdminFetch, rows
  <1>19. CASE AdminSave(r)
    <2>1. inst[r] \in User /\ nextKey' = nextKey
      BY <1>0, <1>19 DEF AdminSave, WithUser
    <2>2. user' \in User
      <3>1. CASE \E st \in Statuses : user' = WithStatus(inst[r], st)
        BY <2>1, <3>1, WithStatusType, StatusesAssumption
      <3>2. CASE \E active \in BOOLEAN : user' = [inst[r] EXCEPT !.active = active]
        BY <2>1, <3>2, WithActive
      <3>3. QED
        BY <1>19, <3>1, <3>2 DEF AdminSave
    <2>3. QED
      BY <1>0, <2>1, <2>2
  <1>20. CASE Die(r)
    BY <1>20, <1>0 DEF Die, rows
  <1>21. QED
    BY <1>1, <1>2, <1>3, <1>4, <1>5, <1>6, <1>7, <1>8, <1>9, <1>10, <1>11, <1>12, <1>13, <1>14, <1>15, <1>16, <1>17, <1>18, <1>19, <1>20 DEF RequestStep

\* Sessions are opened once and closed for good, and only a request that closed
\* a session puts its refresh token in the blacklist.
LEMMA SessionStep ==
  ASSUME IInv, NEW r \in Requests, RequestStep(r)
  PROVE  /\ sessions' \in [SessionIds -> {"none", "open", "closed"}]
         /\ blacklisted' \in [SessionIds -> BOOLEAN]
         /\ \A s \in SessionIds :
              /\ sessions[s] # "none" => sessions'[s] # "none"
              /\ sessions[s] = "closed" => sessions'[s] = "closed"
              /\ blacklisted'[s] => sessions'[s] = "closed"
  <1>0. /\ sessions \in [SessionIds -> {"none", "open", "closed"}]
        /\ blacklisted \in [SessionIds -> BOOLEAN]
        /\ \A s \in SessionIds : blacklisted[s] => sessions[s] = "closed"
        /\ RequestInv(r)
    BY DEF IInv, BlacklistedIsClosed, TypeOK
  <1>1. CASE LoginFetch(r)
    BY <1>1, <1>0 DEF LoginFetch, rows
  <1>2. CASE \E s \in SessionIds : LoginCreate(r, s)
    BY <1>2, <1>0 DEF LoginCreate
  <1>3. CASE \E s \in SessionIds : RefreshStart(r, s)
    BY <1>3, <1>0 DEF RefreshStart, rows
  <1>4. CASE \E s \in SessionIds : Logout(r, s)
    BY <1>4, <1>0 DEF Logout, CloseSession
  <1>5. CASE RefreshUser(r)
    BY <1>5, <1>0 DEF RefreshUser, rows
  <1>6. CASE RefreshSession(r)
    BY <1>6, <1>0 DEF RefreshSession, rows
  <1>7. CASE RefreshIssue(r)
    BY <1>7, <1>0 DEF RefreshIssue, LastActivity
  <1>8. CASE Blacklist(r)
    BY <1>8, <1>0 DEF Blacklist, RequestInv, WithSession
  <1>9. CASE \E t \in tokens : Authenticate(r, t)
    BY <1>9, <1>0 DEF Authenticate, rows
  <1>10. CASE Admit(r)
    BY <1>10, <1>0 DEF Admit, rows
  <1>11. CASE Serve(r)
    BY <1>11, <1>0 DEF Serve, rows
  <1>12. CASE SaveProfile(r)
    BY <1>12, <1>0 DEF SaveProfile
  <1>13. CASE ReplaceKey(r)
    BY <1>13, <1>0 DEF ReplaceKey
  <1>14. CASE CloseAll(r)
    BY <1>14, <1>0 DEF CloseAll, ActiveSessions
  <1>15. CASE RequestLink(r)
    BY <1>15, <1>0 DEF RequestLink
  <1>16. CASE ResetFetch(r)
    BY <1>16, <1>0 DEF ResetFetch, rows
  <1>17. CASE ResetSave(r)
    BY <1>17, <1>0 DEF ResetSave
  <1>18. CASE AdminFetch(r)
    BY <1>18, <1>0 DEF AdminFetch, rows
  <1>19. CASE AdminSave(r)
    BY <1>19, <1>0 DEF AdminSave
  <1>20. CASE Die(r)
    BY <1>20, <1>0 DEF Die, rows
  <1>21. QED
    BY <1>1, <1>2, <1>3, <1>4, <1>5, <1>6, <1>7, <1>8, <1>9, <1>10, <1>11, <1>12, <1>13, <1>14, <1>15, <1>16, <1>17, <1>18, <1>19, <1>20 DEF RequestStep

\* A token is issued for a session that has a row, a link is mailed for the
\* password of the row, and the tokens of sessions that are closed are revoked.
LEMMA TokenStep ==
  ASSUME IInv, NEW r \in Requests, RequestStep(r)
  PROVE  /\ \A t \in tokens' : \/ t \in tokens
                               \/ /\ t \in Token
                                  /\ sessions'[t.session] # "none"
         /\ \A k \in links' : k \in links \/ k = user.password
         /\ \A t \in revoked' : \/ t \in revoked
                                \/ t \in tokens /\ sessions'[t.session] = "closed"
  <1>0. /\ sessions \in [SessionIds -> {"none", "open", "closed"}]
        /\ RequestInv(r)
        /\ pc[r] \in WithUser => inst[r].key \in Keys
        /\ tokens \subseteq Token /\ \A t \in tokens : sessions[t.session] # "none"
    BY DEF IInv, BlacklistedIsClosed, TypeOK, RequestInv, User
  <1>1. CASE LoginFetch(r)
    BY <1>1, <1>0 DEF LoginFetch, rows
  <1>2. CASE \E s \in SessionIds : LoginCreate(r, s)
    BY <1>2, <1>0 DEF LoginCreate, Issue, Token, RequestInv, WithSession, WithUser
  <1>3. CASE \E s \in SessionIds : RefreshStart(r, s)
    BY <1>3, <1>0 DEF RefreshStart, rows
  <1>4. CASE \E s \in SessionIds : Logout(r, s)
    BY <1>4, <1>0 DEF Logout
  <1>5. CASE RefreshUser(r)
    BY <1>5, <1>0 DEF RefreshUser, rows
  <1>6. CASE RefreshSession(r)
    BY <1>6, <1>0 DEF RefreshSession, rows
  <1>7. CASE RefreshIssue(r)
    BY <1>7, <1>0 DEF RefreshIssue, Issue, Token, RequestInv, WithSession, WithUser, LastActivity
  <1>8. CASE Blacklist(r)
    BY <1>8, <1>0 DEF Blacklist
  <1>9. CASE \E t \in tokens : Authenticate(r, t)
    BY <1>9, <1>0 DEF Authenticate, rows
  <1>10. CASE Admit(r)
    BY <1>10, <1>0 DEF Admit, rows
  <1>11. CASE Serve(r)
    BY <1>11, <1>0 DEF Serve, rows
  <1>12. CASE SaveProfile(r)
    BY <1>12, <1>0 DEF SaveProfile
  <1>13. CASE ReplaceKey(r)
    BY <1>13, <1>0 DEF ReplaceKey
  <1>14. CASE CloseAll(r)
    BY <1>14, <1>0 DEF CloseAll, ActiveSessions, Token
  <1>15. CASE RequestLink(r)
    BY <1>15, <1>0 DEF RequestLink
  <1>16. CASE ResetFetch(r)
    BY <1>16, <1>0 DEF ResetFetch, rows
  <1>17. CASE ResetSave(r)
    BY <1>17, <1>0 DEF ResetSave
  <1>18. CASE AdminFetch(r)
    BY <1>18, <1>0 DEF AdminFetch, rows
  <1>19. CASE AdminSave(r)
    BY <1>19, <1>0 DEF AdminSave
  <1>20. CASE Die(r)
    BY <1>20, <1>0 DEF Die, rows
  <1>21. QED
    BY <1>1, <1>2, <1>3, <1>4, <1>5, <1>6, <1>7, <1>8, <1>9, <1>10, <1>11, <1>12, <1>13, <1>14, <1>15, <1>16, <1>17, <1>18, <1>19, <1>20 DEF RequestStep

\* A step leaves the other requests alone, and its own with what it has read.
LEMMA OwnStep ==
  ASSUME IInv, NEW r \in Requests, RequestStep(r)
  PROVE  /\ pc' \in [Requests -> PC]
         /\ inst' \in [Requests -> User \cup {NoUser}]
         /\ sid' \in [Requests -> SessionIds \cup {Nobody}]
         /\ \A q \in Requests \ {r} : pc'[q] = pc[q] /\ inst'[q] = inst[q] /\ sid'[q] = sid[q]
         /\ RequestInv(r)'
         /\ inst'[r] \in {user, inst[r], NoUser}
  <1>0. /\ user \in User /\ tokens \subseteq Token
        /\ sessions \in [SessionIds -> {"none", "open", "closed"}]
        /\ pc \in [Requests -> PC]
        /\ inst \in [Requests -> User \cup {NoUser}]
        /\ sid \in [Requests -> SessionIds \cup {Nobody}]
        /\ RequestInv(r)
        /\ \A t \in tokens : sessions[t.session] # "none"
    BY DEF IInv, BlacklistedIsClosed, TypeOK
  <1>a. \A s \in SessionIds : sessions[s] # "none" => sessions'[s] # "none"
    BY SessionStep
  <1>1. CASE LoginFetch(r)
    BY <1>1, <1>0, <1>a DEF LoginFetch, FetchUser, RequestInv, WithSession, WithUser, PC
  <1>2. CASE \E s \in SessionIds : LoginCreate(r, s)
    BY <1>2, <1>0, <1>a DEF LoginCreate, Done, RequestInv, WithSession, WithUser, PC
  <1>3. CASE \E s \in SessionIds : RefreshStart(r, s)
    BY <1>3, <1>0, <1>a DEF RefreshStart, ValidRefresh, RequestInv, WithSession, WithUser, PC
  <1>4. CASE \E s \in SessionIds : Logout(r, s)
    BY <1>4, <1>0, <1>a DEF Logout, CloseSession, ValidRefresh, RequestInv, WithSession, WithUser, PC
  <1>5. CASE RefreshUser(r)
    BY <1>5, <1>0, <1>a DEF RefreshUser, FetchUser, Done, RequestInv, WithSession, WithUser, PC, rows
  <1>6. CASE RefreshSession(r)
    BY <1>6, <1>0, <1>a DEF RefreshSession, Goes, Done, RequestInv, WithSession, WithUser, PC, rows
  <1>7. CASE RefreshIssue(r)
    BY <1>7, <1>0, <1>a DEF RefreshIssue, Done, RequestInv, WithSession, WithUser, PC
  <1>8. CASE Blacklist(r)
    BY <1>8, <1>0, <1>a DEF Blacklist, Done, RequestInv, WithSession, WithUser, PC
  <1>9. CASE \E t \in tokens : Authenticate(r, t)
    BY <1>9, <1>0, <1>a DEF Authenticate, FetchUser, RequestInv, WithSession, WithUser, PC, Token
  <1>10. CASE Admit(r)
    BY <1>10, <1>0, <1>a DEF Admit, Goes, Done, RequestInv, WithSession, WithUser, PC, rows
  <1>11. CASE Serve(r)
    BY <1>11, <1>0, <1>a DEF Serve, Done, RequestInv, WithSession, WithUser, PC
  <1>12. CASE SaveProfile(r)
    BY <1>12, <1>0, <1>a DEF SaveProfile, Done, RequestInv, WithSession, WithUser, PC
  <1>13. CASE ReplaceKey(r)
    BY <1>13, <1>0, <1>a DEF ReplaceKey, Goes, RequestInv, WithSession, WithUser, PC
  <1>14. CASE CloseAll(r)
    BY <1>14, <1>0, <1>a DEF CloseAll, Done, RequestInv, WithSession, WithUser, PC
  <1>15. CASE RequestLink(r)
    BY <1>15, <1>0, <1>a DEF RequestLink, RequestInv, WithSession, WithUser, PC
  <1>16. CASE ResetFetch(r)
    BY <1>16, <1>0, <1>a DEF ResetFetch, FetchUser, RequestInv, WithSession, WithUser, PC
  <1>17. CASE ResetSave(r)
    BY <1>17, <1>0, <1>a DEF ResetSave, Done, RequestInv, WithSession, WithUser, PC
  <1>18. CASE AdminFetch(r)
    BY <1>18, <1>0, <1>a DEF AdminFetch, FetchUser, RequestInv, WithSession, WithUser, PC
  <1>19. CASE AdminSave(r)
    BY <1>19, <1>0, <1>a DEF AdminSave, Done, RequestInv, WithSession, WithUser, PC
  <1>20. CASE Die(r)
    BY <1>20, <1>0, <1>a DEF Die, Done, RequestInv, WithSession, WithUser, PC
  <1>21. QED
    BY <1>1, <1>2, <1>3, <1>4, <1>5, <1>6, <1>7, <1>8, <1>9, <1>10, <1>11, <1>12, <1>13, <1>14, <1>15, <1>16, <1>17, <1>18, <1>19, <1>20 DEF RequestStep

-----------------------------------------------------------------------------
(* The inductive invariant.                                                 *)

LEMMA NextIInv == IInv /\ [Next]_sessionVars => IInv'
  <1> SUFFICES ASSUME IInv, [Next]_sessionVars PROVE IInv'
    OBVIOUS
  <1>1. ASSUME NEW r \in Requests, RequestStep(r) PROVE IInv'
    <2>1. \A q \in Requests : RequestInv(q)'
      <3>1. TAKE q \in Requests
      <3>2. CASE q = r
        BY <1>1, <3>2, OwnStep
      <3>3. CASE q # r
        <4>1. RequestInv(q)
          BY DEF IInv
        <4>2. pc'[q] = pc[q] /\ inst'[q] = inst[q] /\ sid'[q] = sid[q]
          BY <1>1, <3>3, OwnStep
        <4>3. ASSUME pc[q] \in WithSession
              PROVE  /\ sid[q] \in SessionIds /\ sessions'[sid[q]] # "none"
                     /\ sessions[sid[q]] = "closed" => sessions'[sid[q]] = "closed"
          <5>1. sid[q] \in SessionIds /\ sessions[sid[q]] # "none"
            BY <4>1, <4>3 DEF RequestInv
          <5>2. QED
            BY <1>1, <5>1, SessionStep
        <4>4. "blacklist" \in WithSession
          BY DEF WithSession
        <4>5. /\ pc[q] \in WithSession => sid[q] \in SessionIds /\ sessions'[sid[q]] # "none"
              /\ pc[q] \in WithUser => inst[q] \in User
              /\ pc[q] = "blacklist" => sessions'[sid[q]] = "closed"
          BY <4>1, <4>3, <4>4 DEF RequestInv
        <4>6. QED
          BY <4>2, <4>5 DEF RequestInv
      <3>4. QED
        BY <3>2, <3>3
    <2>2. \A t \in tokens' : t \in Token /\ sessions'[t.session] # "none"
      <3>1. TAKE t \in tokens'
      <3>2. CASE t \in tokens
        BY <1>1, <3>2, SessionStep DEF IInv, BlacklistedIsClosed, TypeOK, Token
      <3>3. CASE t \notin tokens
        BY <1>1, <3>3, TokenStep
      <3>4. QED
        BY <3>2, <3>3
    <2>3. \A t \in revoked' : t \in Token /\ sessions'[t.session] = "closed"
      <3>1. TAKE t \in revoked'
      <3>2. CASE t \in revoked
        BY <1>1, <3>2, SessionStep DEF IInv, BlacklistedIsClosed, TypeOK, Token
      <3>3. CASE t \notin revoked
        BY <1>1, <3>3, TokenStep DEF IInv, BlacklistedIsClosed, TypeOK
      <3>4. QED
        BY <3>2, <3>3
    <2>4. \A k \in links' : k \in Keys
      BY <1>1, TokenStep DEF IInv, BlacklistedIsClosed, TypeOK, User
    <2>5. BlacklistedIsClosed'
      BY <1>1, <2>2, <2>3, <2>4, UserStep, SessionStep, OwnStep DEF BlacklistedIsClosed, TypeOK
    <2>6. QED
      BY <2>1, <2>2, <2>3, <2>5 DEF IInv
  <1>2. CASE UNCHANGED sessionVars
    BY <1>2 DEF IInv, BlacklistedIsClosed, TypeOK, RequestInv, sessionVars
  <1>3. QED
    BY <1>1, <1>2 DEF Next

LEMMA Invariance == Spec => []IInv
  BY InitIInv, NextIInv, PTL DEF Spec

-----------------------------------------------------------------------------
(* Theorems.                                                                *)

\* The state is well typed, and a refresh token in the blacklist belongs to a
\* closed session (auth_service.py:62-67).
THEOREM BlacklistMeansClosed == Spec => []BlacklistedIsClosed
  BY Invariance, PTL DEF IInv

-----------------------------------------------------------------------------
(* Sessions implements Access.                                              *)

\* A step after which its request is not let in closes the sessions that it
\* closes, perhaps none.
LEMMA Closes ==
  ASSUME IInv, NEW r \in Requests, RequestStep(r), pc'[r] # "serve",
         NEW S \in SUBSET SessionIds, \A s \in S : sessions[s] # "none",
         sessions' = [s \in SessionIds |-> IF s \in S THEN "closed" ELSE sessions[s]]
  PROVE  SessionAccess!Next
  <1>1. \A q \in Requests \ {r} : pc'[q] = pc[q] /\ sid'[q] = sid[q]
    BY OwnStep
  <1>2. SessionAccess!Close(S, {r})
    BY <1>1 DEF SessionAccess!Close
  <1>3. {r} \in SUBSET Requests
    OBVIOUS
  <1>4. QED
    BY <1>2, <1>3 DEF SessionAccess!Next

LEMMA ClosesNone ==
  ASSUME IInv, NEW r \in Requests, RequestStep(r), pc'[r] # "serve", UNCHANGED sessions
  PROVE  SessionAccess!Next
  <1>1. sessions' = [s \in SessionIds |-> IF s \in {} THEN "closed" ELSE sessions[s]]
    BY DEF IInv, BlacklistedIsClosed, TypeOK
  <1>2. {} \in SUBSET SessionIds /\ \A s \in {} : sessions[s] # "none"
    OBVIOUS
  <1>3. QED
    BY <1>1, <1>2, Closes, Zenon

LEMMA StepRefines ==
  ASSUME IInv, NEW r \in Requests, RequestStep(r)
  PROVE  SessionAccess!Next
  <1>0. /\ pc \in [Requests -> PC] /\ sessions \in [SessionIds -> {"none", "open", "closed"}]
        /\ RequestInv(r)
        /\ \A q \in Requests \ {r} : pc'[q] = pc[q] /\ sid'[q] = sid[q]
    BY OwnStep DEF IInv, BlacklistedIsClosed, TypeOK
  <1>1. CASE \E s \in SessionIds : LoginCreate(r, s)
    <2>1. PICK s \in SessionIds : LoginCreate(r, s)
      BY <1>1
    <2>2. pc[r] # "serve" /\ pc'[r] # "serve"
      BY <1>0, <2>1 DEF LoginCreate, Done
    <2>3. SessionAccess!Open(s)
      BY <1>0, <2>1, <2>2 DEF LoginCreate, SessionAccess!Open
    <2>4. QED
      BY <2>3 DEF SessionAccess!Next
  <1>2. CASE \E s \in SessionIds : Logout(r, s)
    <2>1. PICK s \in SessionIds : Logout(r, s)
      BY <1>2
    <2>2. pc'[r] # "serve" /\ sessions[s] # "none"
      BY <1>0, <2>1 DEF Logout, ValidRefresh
    <2>3. sessions' = [x \in SessionIds |-> IF x \in {s} THEN "closed" ELSE sessions[x]]
      BY <1>0, <2>1 DEF Logout, CloseSession
    <2>4. {s} \in SUBSET SessionIds /\ \A x \in {s} : sessions[x] # "none"
      BY <2>2
    <2>5. QED
      BY <2>2, <2>3, <2>4, Closes, Zenon
  <1>3. CASE CloseAll(r)
    <2>1. pc'[r] # "serve"
      BY <1>0, <1>3 DEF CloseAll, Done
    <2>2. ActiveSessions(r) \in SUBSET SessionIds /\ \A s \in ActiveSessions(r) : sessions[s] # "none"
      BY DEF ActiveSessions
    <2>3. QED
      BY <1>3, <2>1, <2>2, Closes DEF CloseAll
  <1>4. CASE Admit(r) /\ sessions[sid[r]] = "open"
    <2>1. pc'[r] = "serve" /\ sid' = sid /\ pc[r] # "serve" /\ sessions' = sessions
      BY <1>0, <1>4 DEF Admit, Goes, rows
    <2>2. PICK s \in SessionIds : s = sid[r]
      BY <1>0, <1>4 DEF Admit, RequestInv, WithSession
    <2>3. SessionAccess!LetIn(r, s)
      BY <1>0, <1>4, <2>1, <2>2 DEF SessionAccess!LetIn
    <2>4. QED
      BY <2>3 DEF SessionAccess!Next
  <1>5. CASE Admit(r) /\ sessions[sid[r]] # "open"
    BY <1>0, <1>5, ClosesNone DEF Admit, Done, rows
  <1>6. CASE LoginFetch(r)
    BY <1>0, <1>6, ClosesNone DEF LoginFetch, FetchUser, rows
  <1>7. CASE \E s \in SessionIds : RefreshStart(r, s)
    BY <1>0, <1>7, ClosesNone DEF RefreshStart, rows
  <1>8. CASE RefreshUser(r)
    BY <1>0, <1>8, ClosesNone DEF RefreshUser, FetchUser, Done, rows
  <1>9. CASE RefreshSession(r)
    BY <1>0, <1>9, ClosesNone DEF RefreshSession, Goes, Done, rows
  <1>10. CASE RefreshIssue(r)
    BY <1>0, <1>10, ClosesNone DEF RefreshIssue, LastActivity, Done
  <1>11. CASE Blacklist(r)
    BY <1>0, <1>11, ClosesNone DEF Blacklist, Done
  <1>12. CASE \E t \in tokens : Authenticate(r, t)
    BY <1>0, <1>12, ClosesNone DEF Authenticate, FetchUser, rows
  <1>13. CASE Serve(r)
    BY <1>0, <1>13, ClosesNone DEF Serve, Done, rows
  <1>14. CASE SaveProfile(r)
    BY <1>0, <1>14, ClosesNone DEF SaveProfile, Done
  <1>15. CASE ReplaceKey(r)
    BY <1>0, <1>15, ClosesNone DEF ReplaceKey, Goes
  <1>16. CASE RequestLink(r)
    BY <1>0, <1>16, ClosesNone DEF RequestLink
  <1>17. CASE ResetFetch(r)
    BY <1>0, <1>17, ClosesNone DEF ResetFetch, FetchUser, rows
  <1>18. CASE ResetSave(r)
    BY <1>0, <1>18, ClosesNone DEF ResetSave, Done
  <1>19. CASE AdminFetch(r)
    BY <1>0, <1>19, ClosesNone DEF AdminFetch, FetchUser, rows
  <1>20. CASE AdminSave(r)
    BY <1>0, <1>20, ClosesNone DEF AdminSave, Done
  <1>21. CASE Die(r)
    BY <1>0, <1>21, ClosesNone DEF Die, Done, rows
  <1>22. QED
    BY <1>1, <1>2, <1>3, <1>4, <1>5, <1>6, <1>7, <1>8, <1>9, <1>10, <1>11, <1>12, <1>13, <1>14, <1>15, <1>16, <1>17, <1>18, <1>19, <1>20, <1>21 DEF RequestStep

\* A logout, of one device or of all, is final: the sessions implement module
\* Access (auth_service.py:128-150, authentication.py:63-66).
THEOREM LogoutStays == Spec => LogoutIsFinal
  <1>1. Init => SessionAccess!Init
    BY DEF Init, SessionAccess!Init
  <1>2. IInv /\ [Next]_sessionVars => [SessionAccess!Next]_SessionAccess!accessVars
    <2>1. ASSUME IInv, Next PROVE SessionAccess!Next
      BY <2>1, StepRefines DEF Next
    <2>2. ASSUME UNCHANGED sessionVars PROVE UNCHANGED SessionAccess!accessVars
      BY <2>2 DEF sessionVars, SessionAccess!accessVars
    <2>3. QED
      BY <2>1, <2>2
  <1>3. QED
    BY <1>1, <1>2, Invariance, PTL DEF Spec, LogoutIsFinal, SessionAccess!Spec

\* No token issued before a logout of all devices answered is accepted again,
\* whatever key a later save puts in the row (auth_service.py:78-88, 128-150,
\* users/views.py:134).
THEOREM LogoutAllHolds == Spec => []LogoutAllReachesEveryToken
  <1>1. IInv => LogoutAllReachesEveryToken
    BY DEF IInv, LogoutAllReachesEveryToken, Accepted
  <1>2. QED
    BY <1>1, Invariance, PTL
=============================================================================
