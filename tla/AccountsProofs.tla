--------------------------- MODULE AccountsProofs ---------------------------
(***************************************************************************)
(* Theorems about module Accounts, for any number of accounts, requests,   *)
(* addresses and versions of the terms, checked by TLAPS.                  *)
(***************************************************************************)
EXTENDS AccountsProps, TLAPS

Waiting(row) == row.status = "PENDING" /\ ~row.active

\* An account that exists, or did, was registered, typed in, or there before.
Known(u) == joined[u] # Nobody \/ u \in Legacy \cup retyped

\* What a row of account u says, in the table or in the memory of a request.
Good(u, row) ==
  /\ Known(u)
  /\ u \notin retyped => ~row.email.mixed
  /\ joined[u] = "VENDEDOR" /\ u \notin approved => Waiting(row)
  /\ joined[u] # Nobody => row.terms

\* An acceptance stays as long as the account.
Backed(u, v) == ~Exists(u) \/ u \in revived \/ <<u, v>> \in accepted

\* A row to be registered.
Fresh(row) ==
  /\ row.role \in Roles /\ ~row.email.mixed
  /\ row.role = "VENDEDOR" => Waiting(row)

AccountInv(u) ==
  /\ Exists(u) => Good(u, users[u])
  /\ joined[u] = "VENDEDOR" /\ u \notin approved => session[u] = 0
  /\ joined[u] # Nobody => \E v \in Versions : Backed(u, v)
  /\ session[u] # 0 => Exists(u) /\ Backed(u, session[u])

TaskInv(r) ==
  LET t == task[r] IN
  /\ t.at = "create" => t.row \in User /\ Fresh(t.row)
  /\ t.at \in {"create", "accept", "start"} => t.version \in Versions
  /\ t.at \in {"terms", "hook", "start", "accept", "save"} =>
       t.who \in Ids /\ t.row \in User /\ Good(t.who, t.row)
  /\ t.at = "start" => Backed(t.who, t.version)

Unique == \A u, w \in Ids : u # w /\ Exists(u) /\ Exists(w) => users[u].email # users[w].email

\* The inductive invariant.
IInv ==
  /\ TypeOK
  /\ Unique
  /\ \A u \in Ids : AccountInv(u)
  /\ \A r \in Requests : TaskInv(r)

USE BoundAssumption, LegacyAssumption, StatusesAssumption, NullAssumption

LEMMA LegacyFacts ==
  ASSUME NEW a \in Addresses
  PROVE  /\ LegacyRow(a) \in User /\ LegacyRow(a) # NoUser
         /\ ~LegacyRow(a).email.mixed /\ LegacyRow(a).email.address = a
  <1>1. [address |-> a, mixed |-> FALSE] \in Email
    BY DEF Email
  <1>2. LegacyRow(a) \in User
    BY <1>1 DEF LegacyRow, User, Roles, Status
  <1>3. LegacyRow(a).email = [address |-> a, mixed |-> FALSE]
    BY DEF LegacyRow
  <1>4. QED
    BY <1>2, <1>3

LEMMA IdleFacts == Idle \in Task /\ Idle.at = "idle"
  BY DEF Idle, Task, Stages

LEMMA InitIInv == Init => IInv
  <1> SUFFICES ASSUME Init PROVE IInv
    OBVIOUS
  <1>1. PICK addr \in [Legacy -> Addresses] :
          /\ \A u, w \in Legacy : addr[u] = addr[w] => u = w
          /\ users = [u \in Ids |-> IF u \in Legacy THEN LegacyRow(addr[u]) ELSE NoUser]
    BY DEF Init
  <1>2. \A u \in Legacy : addr[u] \in Addresses /\ users[u] = LegacyRow(addr[u])
    BY <1>1
  <1>3. \A u \in Ids : IF u \in Legacy THEN Exists(u) /\ users[u] \in User /\ ~users[u].email.mixed
                                             /\ users[u].email.address = addr[u]
                       ELSE ~Exists(u) /\ users[u] = NoUser
    BY <1>1, <1>2, LegacyFacts DEF Exists
  <1>4. users \in [Ids -> User \cup {NoUser}]
    BY <1>1, <1>3
  <1>5. TypeOK
    BY <1>4, IdleFacts DEF Init, TypeOK, Versions
  <1>6. Unique
    BY <1>1, <1>3 DEF Unique
  <1>7. \A u \in Ids : AccountInv(u)
    BY <1>3 DEF Init, AccountInv, Good, Known, Roles
  <1>8. \A r \in Requests : TaskInv(r)
    BY IdleFacts DEF Init, TaskInv
  <1>9. QED
    BY <1>5, <1>6, <1>7, <1>8 DEF IInv

-----------------------------------------------------------------------------
(* What every step keeps, and what follows from it.                         *)

\* An account gets a role when it is created, and a history only grows.
HistoryKept ==
  /\ retyped \subseteq retyped' /\ approved \subseteq approved' /\ revived \subseteq revived'
  /\ \A u \in Ids : Known(u) => joined'[u] = joined[u]

Kept ==
  /\ HistoryKept
  /\ \A u \in Ids, v \in Versions : Known(u) /\ Backed(u, v) => Backed(u, v)'

\* A row of account u that says after the step what it should.
GoodNext(u, row) ==
  /\ u \notin retyped' => ~row.email.mixed
  /\ joined'[u] = "VENDEDOR" /\ u \notin approved' => Waiting(row)
  /\ joined'[u] # Nobody => row.terms

LEMMA GoodStays ==
  ASSUME HistoryKept, NEW u \in Ids, NEW row, Good(u, row)
  PROVE  Known(u)' /\ GoodNext(u, row)
  BY DEF HistoryKept, Good, GoodNext, Known

\* A request that does nothing.
LEMMA TaskStays ==
  ASSUME Kept, NEW r \in Requests, TaskInv(r), task'[r] = task[r]
  PROVE  TaskInv(r)'
  <1> DEFINE t == task[r]
  <1>1. t.at \in {"terms", "hook", "start", "accept", "save"} => Good(t.who, t.row)'
    BY GoodStays DEF Kept, TaskInv, Good, GoodNext, Waiting
  <1>2. t.at = "start" => Backed(t.who, t.version)'
    BY DEF Kept, TaskInv, Good
  <1>3. QED
    BY <1>1, <1>2 DEF TaskInv, Fresh, Waiting, Good

\* An account that nothing happens to.
LEMMA AccountStays ==
  ASSUME Kept, NEW u \in Ids, AccountInv(u), TypeOK,
         users'[u] = users[u], session'[u] = session[u], joined'[u] = joined[u]
  PROVE  AccountInv(u)'
  <1>1. Exists(u) => Good(u, users[u])'
    BY GoodStays DEF Kept, AccountInv, Good, GoodNext, Waiting
  <1>2. joined[u] = "VENDEDOR" /\ u \notin approved' => session[u] = 0
    BY DEF Kept, HistoryKept, AccountInv
  <1>3. joined[u] # Nobody => \E v \in Versions : Backed(u, v)'
    BY DEF Kept, AccountInv, Known
  <1>4. session[u] # 0 => Exists(u) /\ Backed(u, session[u])'
    BY DEF Kept, AccountInv, Good, TypeOK
  <1>5. QED
    BY <1>1, <1>2, <1>3, <1>4 DEF AccountInv, Exists, Good, Waiting

\* An account whose row is written.
LEMMA AccountWritten ==
  ASSUME Kept, NEW u \in Ids, AccountInv(u), TypeOK, NEW row \in User, Good(u, row),
         users'[u] = row, session'[u] = session[u], joined'[u] = joined[u]
  PROVE  AccountInv(u)'
  <1>1. Good(u, row)'
    BY GoodStays DEF Kept, Good, GoodNext, Waiting
  <1>2. joined[u] = "VENDEDOR" /\ u \notin approved' => session[u] = 0
    BY DEF Kept, HistoryKept, AccountInv
  <1>3. joined[u] # Nobody => \E v \in Versions : Backed(u, v)'
    BY DEF Kept, AccountInv, Known
  <1>4. session[u] # 0 => Backed(u, session[u])'
    BY DEF Kept, AccountInv, Good, TypeOK
  <1>5. QED
    BY <1>1, <1>2, <1>3, <1>4 DEF AccountInv, Exists, Good, Waiting

\* One row is written, with an address that was its own or is free.
LEMMA UniqueStays ==
  ASSUME Unique, NEW x \in Ids, \A u \in Ids : u # x => users'[u] = users[u],
         \/ ~Exists(x)'
         \/ Exists(x) /\ users'[x].email = users[x].email
         \/ Free(users'[x].email, x)
  PROVE  Unique'
  BY DEF Unique, Exists, Free, Rows

\* A step that changes one request, and nothing in the tables.
LEMMA TasksOnly ==
  ASSUME IInv, NEW r \in Requests, NEW t \in Task, task' = [task EXCEPT ![r] = t],
         UNCHANGED <<users, accepted, current, session, joined, revived>>,
         edits' \in 0..MaxEdits,
         retyped \subseteq retyped', retyped' \subseteq Ids,
         approved \subseteq approved', approved' \subseteq Ids,
         TaskInv(r)'
  PROVE  IInv'
  <1>1. TypeOK'
    BY DEF IInv, TypeOK
  <1>2. Kept
    BY DEF Kept, HistoryKept, Backed, Exists
  <1>3. Unique'
    BY DEF IInv, Unique, Exists
  <1>4. \A u \in Ids : AccountInv(u)'
    BY <1>2, AccountStays DEF IInv
  <1>5. ASSUME NEW x \in Requests PROVE TaskInv(x)'
    <2>1. CASE x = r
      BY <2>1
    <2>2. CASE x # r
      BY <1>2, <2>2, TaskStays DEF IInv, TypeOK
    <2>3. QED
      BY <2>1, <2>2
  <1>6. QED
    BY <1>1, <1>3, <1>4, <1>5 DEF IInv

LEMMA FailsInv ==
  ASSUME IInv, NEW r \in Requests, Fails(r)
  PROVE  IInv'
  <1>1. task' = [task EXCEPT ![r] = Idle] /\ task'[r] = Idle
    BY DEF Fails, Done, IInv, TypeOK
  <1>2. TaskInv(r)'
    BY <1>1, IdleFacts DEF TaskInv
  <1>3. QED
    BY <1>1, <1>2, IdleFacts, TasksOnly DEF Fails, history, IInv, TypeOK

\* A request that goes on with a row of an account.
LEMMA GoesInv ==
  ASSUME IInv, NEW r \in Requests, NEW stage \in {"terms", "hook", "start", "accept", "save"},
         NEW u \in Ids, NEW row \in User, NEW v \in {0} \cup Versions,
         Goes(r, stage, u, row, v), Known(u), GoodNext(u, row),
         stage = "accept" => v \in Versions,
         stage = "start" => v \in Versions /\ Backed(u, v),
         UNCHANGED <<users, accepted, current, session, joined, revived>>,
         edits' \in 0..MaxEdits,
         retyped \subseteq retyped', retyped' \subseteq Ids,
         approved \subseteq approved', approved' \subseteq Ids
  PROVE  IInv'
  <1> DEFINE t == [at |-> stage, who |-> u, row |-> row, version |-> v]
  <1>1. t \in Task
    BY DEF Task, Stages
  <1>2. task' = [task EXCEPT ![r] = t] /\ task'[r] = t
    BY DEF Goes, IInv, TypeOK
  <1>4. Good(u, row)'
    BY DEF Good, GoodNext, Waiting, Known
  <1>3. stage = "start" => Backed(u, v)'
    BY DEF Backed, Exists
  <1>5. TaskInv(r)'
    BY <1>2, <1>3, <1>4 DEF TaskInv
  <1>6. QED
    BY <1>1, <1>2, <1>5, TasksOnly

-----------------------------------------------------------------------------
(* The actions.                                                             *)

\* A row in the table is good to carry away.
LEMMA RowFacts ==
  ASSUME IInv, NEW u \in Ids, Exists(u)
  PROVE  users[u] \in User /\ Good(u, users[u]) /\ Known(u)
  BY DEF IInv, TypeOK, AccountInv, Exists, Good

LEMMA RegisterValidateInv ==
  ASSUME IInv, NEW r \in Requests, NEW e \in Email, NEW role \in Roles, NEW says \in BOOLEAN,
         NEW v \in Versions, RegisterValidate(r, e, role, says, v)
  PROVE  IInv'
  <1> DEFINE row == InitialRow(LowerCase(e), role)
             t == [at |-> "create", who |-> Nobody, row |-> row, version |-> v]
  <1>1. LowerCase(e) \in Email /\ ~LowerCase(e).mixed
    BY DEF LowerCase, Email
  <1>2. row \in User /\ row.email = LowerCase(e) /\ row.role = role
    BY <1>1 DEF InitialRow, User, Status
  <1>3. Fresh(row)
    BY <1>1, <1>2 DEF Fresh, InitialRow, Waiting
  <1>4. t \in Task
    BY <1>2 DEF Task, Stages
  <1>5. task' = [task EXCEPT ![r] = t] /\ task'[r] = t
    BY DEF RegisterValidate, RegisterHook, Goes, IInv, TypeOK
  <1>6. TaskInv(r)'
    BY <1>2, <1>3, <1>5 DEF TaskInv, Fresh, Waiting
  <1>7. QED
    BY <1>4, <1>5, <1>6, TasksOnly DEF RegisterValidate, history, IInv, TypeOK

LEMMA LoginValidateInv ==
  ASSUME IInv, NEW r \in Requests, NEW u \in Ids, LoginValidate(r, u)
  PROVE  IInv'
  <1>1. users[u] \in User /\ Good(u, users[u])
    BY RowFacts DEF LoginValidate
  <1>2. Known(u) /\ GoodNext(u, users[u])
    BY <1>1 DEF Good, GoodNext, LoginValidate, history
  <1>3. QED
    BY <1>1, <1>2, GoesInv DEF LoginValidate, history, IInv, TypeOK

LEMMA AcceptFetchInv ==
  ASSUME IInv, NEW r \in Requests, NEW u \in Ids, NEW v \in Versions, AcceptFetch(r, u, v)
  PROVE  IInv'
  <1>1. users[u] \in User /\ Good(u, users[u])
    BY RowFacts DEF AcceptFetch, LoggedIn
  <1>2. Known(u) /\ GoodNext(u, users[u])
    BY <1>1 DEF Good, GoodNext, AcceptFetch, history
  <1>3. QED
    BY <1>1, <1>2, GoesInv DEF AcceptFetch, history, IInv, TypeOK

LEMMA ProfileFetchInv ==
  ASSUME IInv, NEW r \in Requests, NEW u \in Ids, NEW e \in Email, ProfileFetch(r, u, e)
  PROVE  IInv'
  <1> DEFINE row == [users[u] EXCEPT !.email = LowerCase(e)]
  <1>1. users[u] \in User /\ Good(u, users[u])
    BY RowFacts DEF ProfileFetch, LoggedIn
  <1>2. LowerCase(e) \in Email /\ ~LowerCase(e).mixed
    BY DEF LowerCase, Email
  <1>3. /\ row \in User /\ row.email = LowerCase(e) /\ row.terms = users[u].terms
        /\ row.status = users[u].status /\ row.active = users[u].active
    BY <1>1, <1>2 DEF User
  <1>4. Known(u) /\ GoodNext(u, row)
    BY <1>1, <1>2, <1>3 DEF Good, GoodNext, Waiting, ProfileFetch, history
  <1>5. QED
    BY <1>3, <1>4, GoesInv DEF ProfileFetch, history, IInv, TypeOK

\* An administrator's request is one of MaxEdits.
LEMMA AdminFacts ==
  ASSUME IInv, AdminRequest
  PROVE  edits' \in 0..MaxEdits
  BY DEF AdminRequest, IInv, TypeOK

LEMMA StatusFetchInv ==
  ASSUME IInv, NEW r \in Requests, NEW u \in Ids, NEW st \in Statuses, StatusFetch(r, u, st)
  PROVE  IInv'
  <1> DEFINE row == WithStatus(users[u], st)
  <1>1. users[u] \in User /\ Good(u, users[u])
    BY RowFacts DEF StatusFetch
  <1>2. row \in User /\ row.email = users[u].email /\ row.terms = users[u].terms
    BY <1>1 DEF User, WithStatus
  <1>3. Known(u) /\ GoodNext(u, row)
    BY <1>1, <1>2 DEF Good, GoodNext, StatusFetch
  <1>4. approved \subseteq approved' /\ approved' \subseteq Ids
    BY DEF StatusFetch, IInv, TypeOK
  <1>5. QED
    BY <1>2, <1>3, <1>4, AdminFacts, GoesInv DEF StatusFetch, IInv, TypeOK

LEMMA AdminActivatesInv ==
  ASSUME IInv, NEW r \in Requests, NEW u \in Ids, NEW active \in BOOLEAN, AdminActivates(r, u, active)
  PROVE  IInv'
  <1> DEFINE row == [users[u] EXCEPT !.active = active]
  <1>1. users[u] \in User /\ Good(u, users[u])
    BY RowFacts DEF AdminActivates
  <1>2. row \in User /\ row.email = users[u].email /\ row.terms = users[u].terms
    BY <1>1 DEF User
  <1>3. Known(u) /\ GoodNext(u, row)
    BY <1>1, <1>2 DEF Good, GoodNext, AdminActivates
  <1>4. approved \subseteq approved' /\ approved' \subseteq Ids
    BY DEF AdminActivates, IInv, TypeOK
  <1>5. QED
    BY <1>2, <1>3, <1>4, AdminFacts, GoesInv DEF AdminActivates, IInv, TypeOK

LEMMA AdminTypesInv ==
  ASSUME IInv, NEW r \in Requests, NEW u \in Ids, NEW e \in Email, AdminTypes(r, u, e)
  PROVE  IInv'
  <1> DEFINE row == [users[u] EXCEPT !.email = e]
  <1>1. users[u] \in User /\ Good(u, users[u])
    BY RowFacts DEF AdminTypes
  <1>2. /\ row \in User /\ row.terms = users[u].terms
        /\ row.status = users[u].status /\ row.active = users[u].active
    BY <1>1 DEF User
  <1>3. Known(u) /\ GoodNext(u, row)
    BY <1>1, <1>2 DEF Good, GoodNext, Waiting, AdminTypes
  <1>4. retyped \subseteq retyped' /\ retyped' \subseteq Ids
    BY DEF AdminTypes, IInv, TypeOK
  <1>5. QED
    BY <1>2, <1>3, <1>4, AdminFacts, GoesInv DEF AdminTypes, IInv, TypeOK

\* An acceptance is stored, and the column of the account it belongs to.
LEMMA AcceptanceKept ==
  ASSUME IInv, NEW u \in Ids, NEW row \in User, NEW v \in Versions,
         RegisterAcceptance(u, row, v), UNCHANGED <<session, history>>
  PROVE  /\ users' \in [Ids -> User \cup {NoUser}]
         /\ accepted' \subseteq {w \in Ids : users'[w] # NoUser} \X Versions
         /\ Kept /\ Unique'
         /\ \A w \in Ids : AccountInv(w)'
  <1> DEFINE new == [users[u] EXCEPT !.terms = TRUE]
  <1>1. users[u] \in User /\ Good(u, users[u])
    BY RowFacts DEF RegisterAcceptance
  <1>2. /\ new \in User /\ new # NoUser /\ new.email = users[u].email /\ new.terms
        /\ new.status = users[u].status /\ new.active = users[u].active
    BY <1>1 DEF User
  <1>3. Good(u, new)
    BY <1>1, <1>2 DEF Good, Waiting
  <1>4. users \in [Ids -> User \cup {NoUser}] /\ accepted \subseteq {w \in Ids : users[w] # NoUser} \X Versions
    BY DEF IInv, TypeOK
  <1>5. \A w \in Ids : users'[w] = users[w] \/ (w = u /\ users'[w] = new)
    BY <1>4 DEF RegisterAcceptance
  <1>6. users' \in [Ids -> User \cup {NoUser}]
    BY <1>2, <1>4 DEF RegisterAcceptance
  <1>7. \A w \in Ids : Exists(w)' <=> Exists(w)
    BY <1>1, <1>2, <1>5 DEF Exists
  <1>8. accepted' \subseteq {w \in Ids : users'[w] # NoUser} \X Versions
    BY <1>4, <1>7 DEF RegisterAcceptance, Exists
  <1>9. Kept
    BY <1>7 DEF Kept, HistoryKept, Backed, RegisterAcceptance, history
  <1>10. Unique'
    BY <1>2, <1>5, <1>7, UniqueStays DEF IInv, RegisterAcceptance
  <1>11. ASSUME NEW w \in Ids PROVE AccountInv(w)'
    <2>1. CASE users'[w] = users[w]
      BY <1>9, <2>1, AccountStays DEF IInv, history
    <2>2. CASE w = u /\ users'[w] = new
      BY <1>2, <1>3, <1>9, <2>2, AccountWritten DEF IInv, history
    <2>3. QED
      BY <1>5, <2>1, <2>2
  <1>12. QED
    BY <1>6, <1>8, <1>9, <1>10, <1>11

\* An acceptance is stored and request r goes on with t.
LEMMA AcceptanceInv ==
  ASSUME IInv, NEW r \in Requests, NEW u \in Ids, NEW row \in User, NEW v \in Versions,
         RegisterAcceptance(u, row, v), UNCHANGED <<current, session, edits, history>>,
         NEW t \in Task, task' = [task EXCEPT ![r] = t], TaskInv(r)'
  PROVE  IInv'
  <1>1. Kept /\ Unique' /\ \A w \in Ids : AccountInv(w)'
    BY AcceptanceKept
  <1>2. TypeOK'
    BY AcceptanceKept DEF IInv, TypeOK, history
  <1>3. ASSUME NEW x \in Requests PROVE TaskInv(x)'
    <2>1. CASE x = r
      BY <2>1
    <2>2. CASE x # r
      BY <1>1, <2>2, TaskStays DEF IInv, TypeOK
    <2>3. QED
      BY <2>1, <2>2
  <1>4. QED
    BY <1>1, <1>2, <1>3 DEF IInv

LEMMA AcceptInv ==
  ASSUME IInv, NEW r \in Requests, Accept(r)
  PROVE  IInv'
  <1>1. task[r].who \in Ids /\ task[r].row \in User /\ task[r].version \in Versions
    BY DEF Accept, At, IInv, TaskInv
  <1>2. task' = [task EXCEPT ![r] = Idle] /\ task'[r] = Idle
    BY DEF Accept, Done, IInv, TypeOK
  <1>3. TaskInv(r)'
    BY <1>2, IdleFacts DEF TaskInv
  <1>4. QED
    BY <1>1, <1>2, <1>3, IdleFacts, AcceptanceInv DEF Accept

LEMMA EnsureTermsInv ==
  ASSUME IInv, NEW r \in Requests, NEW says \in BOOLEAN, NEW v \in Versions,
         NEW next \in {"hook", "start"}, task[r].at \in {"terms", "hook"},
         NEW u \in Ids, NEW row \in User, task[r].who = u, task[r].row = row,
         EnsureTerms(r, says, v, next), UNCHANGED <<current, session, edits, history>>
  PROVE  IInv'
  <1> DEFINE signed == [row EXCEPT !.terms = TRUE]
  <1>1. Good(u, row) /\ Known(u)
    BY DEF IInv, TaskInv, Good
  <1>2. PICK ver \in {0} \cup Versions : ver = InForce(next, v) /\ (next = "start" => ver = v)
    BY DEF InForce
  <1>3. CASE HasAccepted(u, v) /\ Goes(r, next, u, row, ver) /\ UNCHANGED <<users, accepted>>
    <2>1. GoodNext(u, row)
      BY <1>1 DEF Good, GoodNext, history
    <2>2. next = "start" => Backed(u, ver)
      BY <1>2, <1>3 DEF HasAccepted, Backed
    <2>3. /\ UNCHANGED <<users, accepted, current, session, joined, revived>>
          /\ edits' \in 0..MaxEdits
          /\ retyped \subseteq retyped' /\ retyped' \subseteq Ids
          /\ approved \subseteq approved' /\ approved' \subseteq Ids
      BY <1>3 DEF history, IInv, TypeOK
    <2>4. next # "accept" /\ (next = "start" => ver \in Versions)
      BY <1>2
    <2>5. Goes(r, next, u, row, ver)
      BY <1>3
    <2>6. QED
      BY <1>1, <2>1, <2>2, <2>3, <2>4, <2>5, GoesInv
  <1>4. CASE RegisterAcceptance(u, row, v) /\ Goes(r, next, u, signed, ver)
    <2> DEFINE t == [at |-> next, who |-> u, row |-> signed, version |-> ver]
    <2>1. /\ signed \in User /\ signed.email = row.email /\ signed.terms
          /\ signed.status = row.status /\ signed.active = row.active
      BY <1>1 DEF User
    <2>2. t \in Task
      BY <1>1, <1>2, <2>1 DEF Task, Stages
    <2>3. task' = [task EXCEPT ![r] = t] /\ task'[r] = t
      BY <1>4 DEF Goes, IInv, TypeOK
    <2>4. Good(u, signed)'
      BY <1>1, <2>1 DEF Good, Known, Waiting, history
    <2>5. next = "start" => Backed(u, v)'
      BY <1>4 DEF RegisterAcceptance, Backed
    <2>6. /\ t.at = next /\ t.who = u /\ t.row = signed /\ t.version = ver
          /\ next = "start" => ver \in Versions /\ Backed(u, ver)'
      BY <1>2, <2>5
    <2>7. TaskInv(r)'
      BY <2>1, <2>3, <2>4, <2>6 DEF TaskInv
    <2>8. QED
      BY <1>1, <1>4, <2>2, <2>3, <2>7, AcceptanceInv
  <1>5. QED
    BY <1>2, <1>3, <1>4 DEF EnsureTerms

LEMMA LoginTermsInv ==
  ASSUME IInv, NEW r \in Requests, NEW says \in BOOLEAN, NEW v \in Versions, LoginTerms(r, says, v)
  PROVE  IInv'
  <1>1. task[r].who \in Ids /\ task[r].row \in User /\ task[r].at = "terms"
    BY DEF LoginTerms, At, IInv, TaskInv
  <1>2. QED
    BY <1>1, EnsureTermsInv, FailsInv DEF LoginTerms, Refused

LEMMA LoginHookInv ==
  ASSUME IInv, NEW r \in Requests, LoginHook(r)
  PROVE  IInv'
  <1>1. current \in Versions /\ task[r].who \in Ids /\ task[r].row \in User /\ task[r].at = "hook"
    BY DEF LoginHook, At, IInv, TypeOK, TaskInv
  <1>2. QED
    BY <1>1, EnsureTermsInv, FailsInv DEF LoginHook, Refused

\* The row is inserted together with its acceptance.
LEMMA RegisterCreateInv ==
  ASSUME IInv, NEW r \in Requests, NEW u \in Ids, RegisterCreate(r, u)
  PROVE  IInv'
  <1>1. PICK row \in User, v \in Versions : row = task[r].row /\ v = task[r].version /\ Fresh(row)
    BY DEF IInv, TaskInv, RegisterCreate, At
  <1> DEFINE new == [row EXCEPT !.terms = TRUE]
  <1>2. /\ new \in User /\ new # NoUser /\ new.email = row.email /\ new.terms
        /\ new.status = row.status /\ new.active = row.active
    BY <1>1 DEF User
  <1>3. ~Known(u) /\ ~Exists(u)
    BY DEF RegisterCreate, Unused, Known
  <1>4. users' = [users EXCEPT ![u] = new] /\ accepted' = accepted \cup {<<u, v>>}
        /\ joined' = [joined EXCEPT ![u] = row.role] /\ task' = [task EXCEPT ![r] = Idle]
    BY <1>1 DEF RegisterCreate, Done
  <1>5. /\ users \in [Ids -> User \cup {NoUser}] /\ joined \in [Ids -> Roles \cup {Nobody}]
        /\ accepted \subseteq {w \in Ids : users[w] # NoUser} \X Versions
        /\ task \in [Requests -> Task]
    BY DEF IInv, TypeOK
  <1>6. Exists(u)' /\ \A w \in Ids : w # u => users'[w] = users[w] /\ (Exists(w)' <=> Exists(w))
    BY <1>2, <1>4, <1>5 DEF Exists
  <1>7. TypeOK'
    <2>1. users' \in [Ids -> User \cup {NoUser}]
      BY <1>2, <1>4, <1>5
    <2>2. accepted' \subseteq {w \in Ids : users'[w] # NoUser} \X Versions
      BY <1>1, <1>4, <1>5, <1>6 DEF Exists
    <2>3. joined' \in [Ids -> Roles \cup {Nobody}]
      BY <1>1, <1>4, <1>5 DEF Fresh
    <2>4. task' \in [Requests -> Task]
      BY <1>4, <1>5, IdleFacts
    <2>5. QED
      BY <2>1, <2>2, <2>3, <2>4 DEF RegisterCreate, IInv, TypeOK
  <1>8. Kept
    BY <1>3, <1>4, <1>5, <1>6 DEF Kept, HistoryKept, Backed, RegisterCreate
  <1>9. Unique'
    <2>1. Free(users'[u].email, u)
      BY <1>1, <1>2, <1>4, <1>5 DEF RegisterCreate, Free, Rows
    <2>2. QED
      BY <1>6, <2>1, UniqueStays DEF IInv
  <1>10. AccountInv(u)'
    <2>1. users'[u] = new /\ joined'[u] = row.role /\ joined'[u] # Nobody /\ <<u, v>> \in accepted'
      BY <1>1, <1>4, <1>5 DEF Fresh
    <2>2. session'[u] = 0
      BY <1>3 DEF RegisterCreate, IInv, AccountInv
    <2>3. Good(u, new)'
      BY <1>1, <1>2, <2>1 DEF Good, Known, Fresh, Waiting
    <2>4. QED
      BY <1>1, <2>1, <2>2, <2>3 DEF AccountInv, Good, Waiting, Backed
  <1>11. ASSUME NEW w \in Ids, w # u PROVE AccountInv(w)'
    BY <1>4, <1>5, <1>6, <1>8, <1>11, AccountStays DEF IInv, RegisterCreate
  <1>12. \A x \in Requests : TaskInv(x)'
    <2>1. TaskInv(r)'
      BY <1>4, <1>5, IdleFacts DEF TaskInv
    <2>2. \A x \in Requests : x # r => TaskInv(x)'
      BY <1>4, <1>5, <1>8, TaskStays DEF IInv
    <2>3. QED
      BY <2>1, <2>2
  <1>13. QED
    BY <1>7, <1>9, <1>10, <1>11, <1>12 DEF IInv

LEMMA CreateSuperuserInv ==
  ASSUME IInv, NEW u \in Ids, NEW e \in Email, CreateSuperuser(u, e)
  PROVE  IInv'
  <1> DEFINE new == [email |-> e, role |-> "ADMIN", status |-> "ACTIVE", active |-> TRUE, terms |-> TRUE]
  <1>1. new \in User /\ new # NoUser /\ new.email = e /\ new.terms
    <2>1. new \in User
      BY DEF User, Roles, Status
    <2>2. new.email = e /\ new.terms
      OBVIOUS
    <2>3. QED
      BY <2>1, <2>2
  <1>2. ~Known(u) /\ ~Exists(u) /\ joined[u] = Nobody
    BY DEF CreateSuperuser, Unused, Known
  <1>3. users' = [users EXCEPT ![u] = new]
    BY DEF CreateSuperuser
  <1>4. /\ users \in [Ids -> User \cup {NoUser}]
        /\ accepted \subseteq {w \in Ids : users[w] # NoUser} \X Versions
    BY DEF IInv, TypeOK
  <1>5. Exists(u)' /\ \A w \in Ids : w # u => users'[w] = users[w] /\ (Exists(w)' <=> Exists(w))
    BY <1>1, <1>3, <1>4 DEF Exists
  <1>6. TypeOK'
    <2>1. users' \in [Ids -> User \cup {NoUser}]
      BY <1>1, <1>3, <1>4
    <2>2. accepted' \subseteq {w \in Ids : users'[w] # NoUser} \X Versions
      BY <1>4, <1>5 DEF CreateSuperuser, Exists
    <2>3. edits' \in 0..MaxEdits
      BY AdminFacts DEF CreateSuperuser
    <2>4. QED
      BY <2>1, <2>2, <2>3 DEF CreateSuperuser, IInv, TypeOK
  <1>7. Kept
    BY <1>2, <1>5 DEF Kept, HistoryKept, Backed, CreateSuperuser
  <1>8. Unique'
    <2>1. Free(users'[u].email, u)
      BY <1>1, <1>3, <1>4 DEF CreateSuperuser, Free, Rows
    <2>2. QED
      BY <1>5, <2>1, UniqueStays DEF IInv
  <1>9. AccountInv(u)'
    <2>1. users'[u] = new /\ joined'[u] = Nobody /\ u \in retyped'
      BY <1>2, <1>3, <1>4 DEF CreateSuperuser
    <2>2. session'[u] = 0
      BY <1>2 DEF CreateSuperuser, IInv, AccountInv
    <2>3. Nobody # "VENDEDOR"
      BY DEF Roles
    <2>4. QED
      BY <1>1, <2>1, <2>2, <2>3 DEF AccountInv, Good, Known
  <1>10. ASSUME NEW w \in Ids, w # u PROVE AccountInv(w)'
    BY <1>5, <1>7, <1>10, AccountStays DEF IInv, CreateSuperuser
  <1>11. \A x \in Requests : TaskInv(x)'
    BY <1>7, TaskStays DEF IInv, CreateSuperuser
  <1>12. QED
    BY <1>6, <1>8, <1>9, <1>10, <1>11 DEF IInv

\* Every column of the instance is written; a row that is gone comes back.
LEMMA SaveInv ==
  ASSUME IInv, NEW r \in Requests, Save(r)
  PROVE  IInv'
  <1>1. PICK u \in Ids, row \in User : task[r].who = u /\ task[r].row = row /\ Good(u, row) /\ Known(u)
    BY DEF IInv, TaskInv, Save, At, Good
  <1>2. /\ users' = [users EXCEPT ![u] = row] /\ task' = [task EXCEPT ![r] = Idle]
        /\ revived' = IF Exists(u) THEN revived ELSE revived \cup {u}
        /\ Free(row.email, u)
    BY <1>1 DEF Save, Done
  <1>3. /\ users \in [Ids -> User \cup {NoUser}]
        /\ accepted \subseteq {w \in Ids : users[w] # NoUser} \X Versions
        /\ task \in [Requests -> Task]
    BY DEF IInv, TypeOK
  <1>4. Exists(u)' /\ users'[u] = row /\ \A w \in Ids : w # u => users'[w] = users[w] /\ (Exists(w)' <=> Exists(w))
    BY <1>2, <1>3 DEF Exists
  <1>5. TypeOK'
    <2>1. users' \in [Ids -> User \cup {NoUser}]
      BY <1>2, <1>3
    <2>2. accepted' \subseteq {w \in Ids : users'[w] # NoUser} \X Versions
      BY <1>3, <1>4 DEF Save, Exists
    <2>3. task' \in [Requests -> Task]
      BY <1>2, <1>3, IdleFacts
    <2>4. revived' \subseteq Ids
      BY <1>2 DEF IInv, TypeOK
    <2>5. QED
      BY <2>1, <2>2, <2>3, <2>4 DEF Save, IInv, TypeOK
  <1>6. Kept
    <2>1. HistoryKept
      BY <1>2 DEF HistoryKept, Save
    <2>2. ASSUME NEW w \in Ids, NEW v \in Versions, Backed(w, v) PROVE Backed(w, v)'
      <3>1. CASE w = u
        BY <1>2, <2>2, <3>1 DEF Backed, Save
      <3>2. CASE w # u
        BY <1>2, <1>4, <2>2, <3>2 DEF Backed, Save
      <3>3. QED
        BY <3>1, <3>2
    <2>3. QED
      BY <2>1, <2>2 DEF Kept
  <1>7. Unique'
    BY <1>2, <1>4, UniqueStays DEF IInv
  <1>8. ASSUME NEW w \in Ids PROVE AccountInv(w)'
    <2>1. CASE w = u
      BY <1>1, <1>4, <1>6, <2>1, AccountWritten DEF IInv, Save
    <2>2. CASE w # u
      BY <1>4, <1>6, <2>2, AccountStays DEF IInv, Save
    <2>3. QED
      BY <2>1, <2>2
  <1>9. \A x \in Requests : TaskInv(x)'
    <2>1. TaskInv(r)'
      BY <1>2, <1>3, IdleFacts DEF TaskInv
    <2>2. \A x \in Requests : x # r => TaskInv(x)'
      BY <1>2, <1>3, <1>6, TaskStays DEF IInv
    <2>3. QED
      BY <2>1, <2>2
  <1>10. QED
    BY <1>5, <1>7, <1>8, <1>9 DEF IInv

LEMMA DeleteInv ==
  ASSUME IInv, NEW u \in Ids, Delete(u)
  PROVE  IInv'
  <1>1. /\ users \in [Ids -> User \cup {NoUser}]
        /\ accepted \subseteq {w \in Ids : users[w] # NoUser} \X Versions
        /\ session \in [Ids -> {0} \cup Versions]
    BY DEF IInv, TypeOK
  <1>2. ~Exists(u)' /\ \A w \in Ids : w # u => users'[w] = users[w] /\ (Exists(w)' <=> Exists(w))
    BY <1>1 DEF Delete, Exists
  <1>3. \A w \in Ids, v \in Versions : <<w, v>> \in accepted /\ w # u => <<w, v>> \in accepted'
    BY DEF Delete
  <1>4. TypeOK'
    <2>1. users' \in [Ids -> User \cup {NoUser}]
      BY <1>1 DEF Delete
    <2>2. accepted' \subseteq {w \in Ids : users'[w] # NoUser} \X Versions
      BY <1>1, <1>2 DEF Delete, Exists
    <2>3. session' \in [Ids -> {0} \cup Versions]
      BY <1>1 DEF Delete
    <2>4. edits' \in 0..MaxEdits
      BY AdminFacts DEF Delete
    <2>5. QED
      BY <2>1, <2>2, <2>3, <2>4 DEF Delete, IInv, TypeOK, history
  <1>5. Kept
    <2>1. HistoryKept
      BY DEF HistoryKept, Delete, history
    <2>2. ASSUME NEW w \in Ids, NEW v \in Versions, Backed(w, v) PROVE Backed(w, v)'
      BY <1>2, <1>3, <2>2 DEF Backed, Delete, history
    <2>3. QED
      BY <2>1, <2>2 DEF Kept
  <1>6. Unique'
    BY <1>2, UniqueStays DEF IInv
  <1>7. ASSUME NEW w \in Ids PROVE AccountInv(w)'
    <2>1. CASE w = u
      <3>1. session'[u] = 0 /\ \A v : Backed(u, v)'
        BY <1>1, <1>2 DEF Delete, Backed
      <3>2. 1 \in Versions
        BY DEF Versions
      <3>3. QED
        BY <1>2, <2>1, <3>1, <3>2 DEF AccountInv
    <2>2. CASE w # u
      <3>1. session'[w] = session[w]
        BY <1>1, <2>2 DEF Delete
      <3>2. QED
        BY <1>2, <1>5, <2>2, <3>1, AccountStays DEF IInv, Delete, history
    <2>3. QED
      BY <2>1, <2>2
  <1>8. \A x \in Requests : TaskInv(x)'
    BY <1>5, TaskStays DEF IInv, Delete
  <1>9. QED
    BY <1>4, <1>6, <1>7, <1>8 DEF IInv

LEMMA LoginStartInv ==
  ASSUME IInv, NEW r \in Requests, LoginStart(r)
  PROVE  IInv'
  <1>1. PICK u \in Ids, row \in User, v \in Versions :
          /\ task[r].who = u /\ task[r].row = row /\ task[r].version = v
          /\ Good(u, row) /\ Known(u) /\ Backed(u, v)
    BY DEF IInv, TaskInv, LoginStart, At, Good
  <1>2. /\ session' = [session EXCEPT ![u] = v] /\ task' = [task EXCEPT ![r] = Idle]
        /\ Exists(u) /\ MayUse(row)
    BY <1>1 DEF LoginStart, Done
  <1>3. session \in [Ids -> {0} \cup Versions] /\ task \in [Requests -> Task]
    BY DEF IInv, TypeOK
  <1>4. session' \in [Ids -> {0} \cup Versions] /\ task' \in [Requests -> Task]
    BY <1>2, <1>3, IdleFacts
  <1>5. TypeOK'
    BY <1>4 DEF LoginStart, IInv, TypeOK, history
  <1>6. Kept
    BY DEF Kept, HistoryKept, Backed, Exists, LoginStart, history
  <1>7. Unique'
    BY DEF IInv, Unique, Exists, LoginStart
  <1>8. AccountInv(u)'
    <2>1. ~(joined[u] = "VENDEDOR" /\ u \notin approved)
      BY <1>1, <1>2 DEF Good, Waiting, MayUse
    <2>2. session'[u] = v /\ AccountInv(u)
      BY <1>2, <1>3 DEF IInv
    <2>3. Good(u, users[u])
      BY <1>2, <2>2 DEF AccountInv
    <2>4. QED
      BY <1>1, <1>2, <2>1, <2>2, <2>3 DEF AccountInv, Backed, Exists, Good, Known, LoginStart, history
  <1>9. ASSUME NEW w \in Ids, w # u PROVE AccountInv(w)'
    <2>1. session'[w] = session[w]
      BY <1>2, <1>3, <1>9
    <2>2. QED
      BY <1>6, <2>1, AccountStays DEF IInv, LoginStart, history
  <1>10. \A x \in Requests : TaskInv(x)'
    <2>1. TaskInv(r)'
      BY <1>2, <1>3, IdleFacts DEF TaskInv
    <2>2. \A x \in Requests : x # r => TaskInv(x)'
      BY <1>2, <1>3, <1>6, TaskStays DEF IInv
    <2>3. QED
      BY <2>1, <2>2
  <1>11. QED
    BY <1>5, <1>7, <1>8, <1>9, <1>10 DEF IInv

\* A deployment and a change of role write none of the tables.
LEMMA NoTableInv ==
  ASSUME IInv, UNCHANGED <<users, accepted, session, task, history>>,
         current' \in Versions, edits' \in 0..MaxEdits
  PROVE  IInv'
  <1>1. TypeOK'
    BY DEF IInv, TypeOK, history
  <1>2. Kept
    BY DEF Kept, HistoryKept, Backed, Exists, history
  <1>3. Unique'
    BY DEF IInv, Unique, Exists
  <1>4. \A u \in Ids : AccountInv(u)'
    BY <1>2, AccountStays DEF IInv, history
  <1>5. \A r \in Requests : TaskInv(r)'
    BY <1>2, TaskStays DEF IInv
  <1>6. QED
    BY <1>1, <1>3, <1>4, <1>5 DEF IInv

LEMMA StepIInv == IInv /\ [Next]_accountVars => IInv'
  <1> SUFFICES ASSUME IInv, [Next]_accountVars PROVE IInv'
    OBVIOUS
  <1>1. edits \in 0..MaxEdits /\ current \in Versions
    BY DEF IInv, TypeOK
  <1>2. CASE Deploy
    <2>1. current' \in Versions
      BY <1>1, <1>2 DEF Deploy, Versions
    <2>2. QED
      BY <1>1, <1>2, <2>1, NoTableInv DEF Deploy
  <1>3. CASE UNCHANGED accountVars
    BY <1>1, <1>3, NoTableInv DEF accountVars
  <1>4. ASSUME NEW u \in Ids, Delete(u) \/ ChangeRole(u) \/ \E e \in Email : CreateSuperuser(u, e)
        PROVE  IInv'
    BY <1>1, <1>4, DeleteInv, CreateSuperuserInv, AdminFacts, NoTableInv DEF ChangeRole
  <1>5. ASSUME NEW r \in Requests,
               \/ RegisterTaken(r) \/ LoginHook(r) \/ LoginStart(r) \/ Accept(r)
               \/ Save(r) \/ SaveTaken(r) \/ Die(r)
        PROVE  IInv'
    BY <1>5, FailsInv, LoginHookInv, LoginStartInv, AcceptInv, SaveInv
    DEF RegisterTaken, SaveTaken, Die
  <1>6. ASSUME NEW r \in Requests, NEW says \in BOOLEAN, NEW v \in Versions, LoginTerms(r, says, v)
        PROVE  IInv'
    BY <1>6, LoginTermsInv
  <1>7. ASSUME NEW r \in Requests, NEW e \in Email, NEW role \in Roles, NEW says \in BOOLEAN,
               NEW v \in Versions, RegisterValidate(r, e, role, says, v)
        PROVE  IInv'
    BY <1>7, RegisterValidateInv
  <1>8. ASSUME NEW r \in Requests, NEW u \in Ids,
               \/ RegisterCreate(r, u) \/ LoginValidate(r, u)
               \/ \E v \in Versions : AcceptFetch(r, u, v)
               \/ \E e \in Email : ProfileFetch(r, u, e) \/ AdminTypes(r, u, e)
               \/ \E st \in Statuses : StatusFetch(r, u, st)
               \/ \E active \in BOOLEAN : AdminActivates(r, u, active)
        PROVE  IInv'
    BY <1>8, RegisterCreateInv, LoginValidateInv, AcceptFetchInv, ProfileFetchInv, AdminTypesInv,
       StatusFetchInv, AdminActivatesInv
  <1>9. QED
    BY <1>2, <1>3, <1>4, <1>5, <1>6, <1>7, <1>8 DEF Next

LEMMA Invariant == Spec => []IInv
  BY InitIInv, StepIInv, PTL DEF Spec

-----------------------------------------------------------------------------
(* The theorems.                                                            *)

\* Two accounts share an address, up to case, only if an administrator typed it
\* for one of them (users/serializers.py:30, 224).
THEOREM AddressesStayUnique == Spec => []SelfServiceEmailsUnique
  <1>1. ASSUME IInv PROVE SelfServiceEmailsUnique
    <2> SUFFICES ASSUME NEW u \in Rows, NEW w \in Rows, u # w, u \notin retyped, w \notin retyped,
                        users[u].email.address = users[w].email.address
                 PROVE  FALSE
      BY DEF SelfServiceEmailsUnique
    <2>1. u \in Ids /\ w \in Ids /\ Exists(u) /\ Exists(w)
      BY DEF Rows
    <2>2. users[u] \in User /\ users[w] \in User /\ ~users[u].email.mixed /\ ~users[w].email.mixed
      BY <1>1, <2>1, RowFacts DEF Good
    <2>3. users[u].email \in Email /\ users[w].email \in Email
      BY <2>2 DEF User
    <2>4. users[u].email = users[w].email
      BY <2>2, <2>3 DEF Email
    <2>5. QED
      BY <1>1, <2>1, <2>4 DEF IInv, Unique
  <1>2. QED
    BY <1>1, Invariant, PTL

\* Who registered as a vendor has no session before an administrator touched the
\* account, whatever stale rows are saved (application/services.py:17).
THEOREM VendorsAreApproved == Spec => []VendorsWait
  <1>1. IInv => VendorsWait
    BY DEF IInv, AccountInv, VendorsWait
  <1>2. QED
    BY <1>1, Invariant, PTL

\* A registered account has accepted some version, and says so
\* (terms/services.py:115-124).
THEOREM RegistrationsAreWhole == Spec => []RegistrationIsWhole
  <1>1. ASSUME IInv PROVE RegistrationIsWhole
    <2> SUFFICES ASSUME NEW u \in Rows, joined[u] # Nobody, u \notin revived
                 PROVE  users[u].terms /\ \E v \in Versions : TermsStatus(u, v)
      BY DEF RegistrationIsWhole
    <2>1. u \in Ids /\ Exists(u) /\ AccountInv(u)
      BY <1>1 DEF Rows, IInv
    <2>2. QED
      BY <2>1 DEF AccountInv, Good, Backed, TermsStatus, HasAccepted
  <1>2. QED
    BY <1>1, Invariant, PTL

\* A session started under the version of the terms that was deployed, and that
\* its user has accepted (terms/services.py:43-50, 142-145).
THEOREM SessionsHaveTerms == Spec => []StartedUnderTerms
  <1>1. IInv => StartedUnderTerms
    BY DEF IInv, AccountInv, StartedUnderTerms, Backed, TermsStatus, HasAccepted
  <1>2. QED
    BY <1>1, Invariant, PTL
=============================================================================
