------------------------------ MODULE Accounts ------------------------------
(***************************************************************************)
(* The accounts of the shop and the terms they accept: registration, the   *)
(* part of a login that the terms app hooks into, the acceptance view, the *)
(* edits of users_user by its owner and by an administrator, the deletion  *)
(* of an account, and the deployment of a new version of the terms.        *)
(*                                                                         *)
(* Each statement outside of a transaction.atomic block is a step.  What a *)
(* request keeps between two of them, the row it fetched in particular, is *)
(* its task.  Passwords, names and personal data are left out; roles       *)
(* matter to the registration alone.                                       *)
(***************************************************************************)
EXTENDS Naturals, FiniteSets

CONSTANTS
  Ids,         \* primary keys (uuid4, never used twice)
  Legacy,      \* the accounts that are older than the terms app
  Requests,    \* requests being served
  Addresses,   \* e-mail addresses, up to the case of their letters
  MaxVersion,  \* bound: versions of the terms deployed
  Statuses,    \* statuses an administrator may set
  MaxEdits,    \* bound: requests of the administrators
  Nobody, NoUser

ASSUME LegacyAssumption == Legacy \subseteq Ids
ASSUME BoundAssumption == MaxVersion \in Nat \ {0} /\ MaxEdits \in Nat

Versions == 1..MaxVersion
Roles == {"VENDEDOR", "CLIENTE"}  \* that a form may ask for
Status == {"ACTIVE", "INACTIVE", "PENDING", "BLOCKED"}
Email == [address: Addresses, mixed: BOOLEAN]
User == [email: Email, role: Roles \cup {"ADMIN"}, status: Status, active: BOOLEAN, terms: BOOLEAN]

ASSUME StatusesAssumption == Statuses \subseteq Status
ASSUME NullAssumption == Nobody \notin Ids \cup Roles /\ NoUser \notin User

VARIABLES
  users,     \* Ids -> the row of users_user, or NoUser
  accepted,  \* terms_acceptance: pairs of a user and a version
  current,   \* settings.SHOPSTARTER_TERMS_VERSION of the release deployed
  session,   \* Ids -> the version in force at the last login, or 0
  task,      \* Requests -> what it does next, for whom, with which instance
  edits,     \* how many requests the administrators made
  joined,    \* history: Ids -> the role that the account registered with
  approved,  \* history: vendors whose status or is_active an administrator set
  retyped,   \* history: accounts whose address an administrator typed
  revived    \* history: accounts that a save inserted after their deletion

history == <<joined, approved, retyped, revived>>
accountVars == <<users, accepted, current, session, task, edits, history>>

Stages == {"idle", "create", "terms", "hook", "start", "accept", "save"}
Task == [at: Stages, who: Ids \cup {Nobody}, row: User \cup {NoUser}, version: {0} \cup Versions]
Idle == [at |-> "idle", who |-> Nobody, row |-> NoUser, version |-> 0]

TypeOK ==
  /\ users \in [Ids -> User \cup {NoUser}]
  /\ accepted \subseteq {u \in Ids : users[u] # NoUser} \X Versions
  /\ current \in Versions
  /\ session \in [Ids -> {0} \cup Versions]
  /\ task \in [Requests -> Task]
  /\ edits \in 0..MaxEdits
  /\ joined \in [Ids -> Roles \cup {Nobody}]
  /\ approved \cup retyped \cup revived \subseteq Ids

\* A legacy account is active, with the column terms_accepted at its default.
LegacyRow(a) ==
  [email |-> [address |-> a, mixed |-> FALSE], role |-> "CLIENTE",
   status |-> "ACTIVE", active |-> TRUE, terms |-> FALSE]

Init ==
  /\ \E addr \in [Legacy -> Addresses] :
       /\ \A u, w \in Legacy : addr[u] = addr[w] => u = w
       /\ users = [u \in Ids |-> IF u \in Legacy THEN LegacyRow(addr[u]) ELSE NoUser]
  /\ accepted = {}
  /\ current = 1
  /\ session = [u \in Ids |-> 0]
  /\ task = [r \in Requests |-> Idle]
  /\ edits = 0
  /\ joined = [u \in Ids |-> Nobody]
  /\ approved = {} /\ retyped = {} /\ revived = {}

-----------------------------------------------------------------------------
Exists(u) == users[u] # NoUser
Rows == {u \in Ids : Exists(u)}
MayUse(row) == row.active /\ row.status # "BLOCKED"

\* mutant: the address is kept as it was typed
AsTyped(e) == e

\* value.strip().lower()
LowerCase(e) == [e EXCEPT !.mixed = FALSE]

\* User.objects.filter(email__iexact=email)
Matching(e) == {u \in Rows : users[u].email.address = e.address}

\* The unique constraint of users_user.email.
Free(e, u) == \A w \in Rows \ {u} : users[w].email # e

HasAccepted(u, v) == <<u, v>> \in accepted

Goes(r, stage, u, row, v) ==
  task' = [task EXCEPT ![r] = [at |-> stage, who |-> u, row |-> row, version |-> v]]
Done(r) == task' = [task EXCEPT ![r] = Idle]
At(r, stage) == task[r].at = stage

\* An error answers the request; its transaction is rolled back.
Fails(r) == Done(r) /\ UNCHANGED <<users, accepted, current, session, edits, history>>

\* register_terms_acceptance(user, version), one transaction: the foreign key
\* and update_fields both fail when the row is gone.
RegisterAcceptance(u, row, v) ==
  /\ Exists(u)
  /\ accepted' = accepted \cup {<<u, v>>}
  /\ users' = IF row.terms THEN users ELSE [users EXCEPT ![u].terms = TRUE]

(* POST /auth/register/                                                     *)

\* mutant: the account of a vendor is active at once
InitialRowActive(e, role) ==
  [email |-> e, role |-> role, status |-> "ACTIVE", active |-> TRUE, terms |-> FALSE]

\* UserService.register_user: a vendor waits for an administrator.
InitialRow(e, role) ==
  [email |-> e, role |-> role,
   status |-> IF role = "VENDEDOR" THEN "PENDING" ELSE "ACTIVE",
   active |-> role # "VENDEDOR",
   terms |-> FALSE]

\* What a form says of terms_accepted, in one of the ways to say yes.
AcceptsTerms(says) == says

\* The hook after the validators: the form must accept the terms, of a version
\* that it may name.
RegisterHook(r, row, says, v) ==
  /\ AcceptsTerms(says)
  /\ Goes(r, "create", Nobody, row, v)

\* The validators of RegisterSerializer.
RegisterValidate(r, e, role, says, v) ==
  /\ At(r, "idle")
  /\ Matching(e) = {}
  /\ RegisterHook(r, InitialRow(LowerCase(e), role), says, v)
  /\ UNCHANGED <<users, accepted, current, session, edits, history>>

Unused(u) == ~Exists(u) /\ joined[u] = Nobody /\ u \notin Legacy \cup retyped

\* mutant: the acceptance is left to another transaction, which never runs
RegisterCreateApart(r, u) ==
  /\ At(r, "create")
  /\ Unused(u) /\ Free(task[r].row.email, Nobody)
  /\ users' = [users EXCEPT ![u] = task[r].row]
  /\ joined' = [joined EXCEPT ![u] = task[r].row.role]
  /\ Done(r)
  /\ UNCHANGED <<accepted, current, session, edits, approved, retyped, revived>>

\* register_user of the terms app: the user and the acceptance, all or nothing.
RegisterCreate(r, u) ==
  /\ At(r, "create")
  /\ Unused(u) /\ Free(task[r].row.email, Nobody)
  /\ users' = [users EXCEPT ![u] = [task[r].row EXCEPT !.terms = TRUE]]
  /\ accepted' = accepted \cup {<<u, task[r].version>>}
  /\ joined' = [joined EXCEPT ![u] = task[r].row.role]
  /\ Done(r)
  /\ UNCHANGED <<current, session, edits, approved, retyped, revived>>

RegisterTaken(r) == At(r, "create") /\ ~Free(task[r].row.email, Nobody) /\ Fails(r)

(* POST /auth/login/                                                        *)

\* LoginSerializer.validate before the hook.
LoginValidate(r, u) ==
  /\ At(r, "idle")
  /\ Exists(u) /\ Matching(users[u].email) = {u}
  /\ MayUse(users[u]) /\ users[u].status # "PENDING"
  /\ Goes(r, "terms", u, users[u], 0)
  /\ UNCHANGED <<users, accepted, current, session, edits, history>>

\* The login remembers the version that was deployed, not the one asked for.
InForce(stage, v) == IF stage = "start" THEN v ELSE 0

\* mutant: terms_accepted is enough, no acceptance is registered
EnsureTermsByFlag(r, says, v, next) ==
  /\ AcceptsTerms(says) \/ task[r].row.terms \/ HasAccepted(task[r].who, v)
  /\ Goes(r, next, task[r].who, task[r].row, InForce(next, v))
  /\ UNCHANGED <<users, accepted>>

\* An acceptance of version v is there, or is registered because the request
\* says so (says) or terms_accepted was already set; the request goes on.
EnsureTerms(r, says, v, next) ==
  LET u == task[r].who
      row == task[r].row
  IN \/ /\ HasAccepted(u, v)
        /\ Goes(r, next, u, row, InForce(next, v))
        /\ UNCHANGED <<users, accepted>>
     \/ /\ ~HasAccepted(u, v)
        /\ AcceptsTerms(says) \/ row.terms
        /\ RegisterAcceptance(u, row, v)
        /\ Goes(r, next, u, [row EXCEPT !.terms = TRUE], InForce(next, v))

Refused(r, says, v) ==
  /\ ~HasAccepted(task[r].who, v)
  /\ (~says /\ ~task[r].row.terms) \/ ~Exists(task[r].who)
  /\ Fails(r)

\* The hook in LoginSerializer.validate: version v is the request's choice.
LoginTerms(r, says, v) ==
  /\ At(r, "terms")
  /\ \/ EnsureTerms(r, says, v, "hook") /\ UNCHANGED <<current, session, edits, history>>
     \/ Refused(r, says, v)

\* The hook in AuthService.login_user: the version is the one deployed.
LoginHook(r) ==
  /\ At(r, "hook")
  /\ \/ EnsureTerms(r, FALSE, current, "start") /\ UNCHANGED <<current, session, edits, history>>
     \/ Refused(r, FALSE, current)

\* AuthService.login_user itself; users_session references users_user.
LoginStart(r) ==
  /\ At(r, "start")
  /\ Exists(task[r].who)
  /\ MayUse(task[r].row)
  /\ session' = [session EXCEPT ![task[r].who] = task[r].version]
  /\ Done(r)
  /\ UNCHANGED <<users, accepted, current, edits, history>>

(* POST /terms/accept/, PATCH /users/me/profile/                            *)

\* CustomJWTAuthentication: request.user is the row as it is now.
LoggedIn(u) == Exists(u) /\ MayUse(users[u]) /\ session[u] # 0

AcceptFetch(r, u, v) ==
  /\ At(r, "idle")
  /\ LoggedIn(u)
  /\ Goes(r, "accept", u, users[u], v)
  /\ UNCHANGED <<users, accepted, current, session, edits, history>>

\* TermsStatusView.
TermsStatus(u, v) == HasAccepted(u, v)

Accept(r) ==
  /\ At(r, "accept")
  /\ RegisterAcceptance(task[r].who, task[r].row, task[r].version)
  /\ Done(r)
  /\ UNCHANGED <<current, session, edits, history>>

\* MyProfileSerializer: is_valid, and the instance to be saved.
ProfileFetch(r, u, e) ==
  /\ At(r, "idle")
  /\ LoggedIn(u)
  /\ Matching(e) \subseteq {u}
  /\ Goes(r, "save", u, [users[u] EXCEPT !.email = LowerCase(e)], 0)
  /\ UNCHANGED <<users, accepted, current, session, edits, history>>

(* The administrators.                                                      *)

AdminRequest == edits < MaxEdits /\ edits' = edits + 1

\* ChangeUserStatusView: is_active follows the status, but for PENDING.
WithStatus(row, s) ==
  [row EXCEPT !.status = s,
              !.active = IF s = "PENDING" THEN @ ELSE s = "ACTIVE"]

StatusFetch(r, u, s) ==
  /\ At(r, "idle") /\ Exists(u)
  /\ AdminRequest
  /\ Goes(r, "save", u, WithStatus(users[u], s), 0)
  /\ approved' = approved \cup {w \in {u} : joined[w] = "VENDEDOR"}
  /\ UNCHANGED <<users, accepted, current, session, joined, retyped, revived>>

\* PATCH of AdminUserViewSet: the address as typed, after a look for an exact
\* duplicate, or is_active.
AdminTypes(r, u, e) ==
  /\ At(r, "idle") /\ Exists(u)
  /\ AdminRequest
  /\ Free(e, u)
  /\ Goes(r, "save", u, [users[u] EXCEPT !.email = e], 0)
  /\ retyped' = retyped \cup {u}
  /\ UNCHANGED <<users, accepted, current, session, joined, approved, revived>>

AdminActivates(r, u, active) ==
  /\ At(r, "idle") /\ Exists(u)
  /\ AdminRequest
  /\ Goes(r, "save", u, [users[u] EXCEPT !.active = active], 0)
  /\ approved' = approved \cup {w \in {u} : joined[w] = "VENDEDOR"}
  /\ UNCHANGED <<users, accepted, current, session, joined, retyped, revived>>

\* UserManager.create_superuser: normalize_email changes the domain alone, and
\* the terms are accepted by the flag alone.
CreateSuperuser(u, e) ==
  /\ AdminRequest
  /\ Unused(u) /\ Free(e, Nobody)
  /\ users' = [users EXCEPT ![u] =
       [email |-> e, role |-> "ADMIN", status |-> "ACTIVE", active |-> TRUE, terms |-> TRUE]]
  /\ retyped' = retyped \cup {u}
  /\ UNCHANGED <<accepted, current, session, task, joined, approved, revived>>

\* The new role is saved, but the audit service has no log_role_change: the
\* transaction is rolled back.  The same role again is answered and not saved.
ChangeRole(u) ==
  /\ Exists(u)
  /\ AdminRequest
  /\ UNCHANGED <<users, accepted, current, session, task, history>>

\* user.save() without update_fields: every column of the instance, and an
\* INSERT when there is no row to update.
Save(r) ==
  LET u == task[r].who IN
  /\ At(r, "save")
  /\ Free(task[r].row.email, u)
  /\ users' = [users EXCEPT ![u] = task[r].row]
  /\ revived' = IF Exists(u) THEN revived ELSE revived \cup {u}
  /\ Done(r)
  /\ UNCHANGED <<accepted, current, session, edits, joined, approved, retyped>>

SaveTaken(r) == At(r, "save") /\ ~Free(task[r].row.email, task[r].who) /\ Fails(r)

\* AdminUserViewSet.destroy; acceptances and sessions CASCADE.
Delete(u) ==
  /\ Exists(u)
  /\ AdminRequest
  /\ users' = [users EXCEPT ![u] = NoUser]
  /\ accepted' = {a \in accepted : a[1] # u}
  /\ session' = [session EXCEPT ![u] = 0]
  /\ UNCHANGED <<current, task, history>>

\* A release raises SHOPSTARTER_TERMS_VERSION.
Deploy ==
  /\ current < MaxVersion
  /\ current' = current + 1
  /\ UNCHANGED <<users, accepted, session, task, edits, history>>

\* A request dies, or the row it refers to is gone.
Die(r) == ~At(r, "idle") /\ Fails(r)

Next ==
  \/ Deploy
  \/ \E u \in Ids :
       \/ Delete(u) \/ ChangeRole(u)
       \/ \E e \in Email : CreateSuperuser(u, e)
  \/ \E r \in Requests :
       \/ RegisterTaken(r) \/ LoginHook(r) \/ LoginStart(r) \/ Accept(r)
       \/ Save(r) \/ SaveTaken(r) \/ Die(r)
       \/ \E says \in BOOLEAN, v \in Versions : LoginTerms(r, says, v)
       \/ \E e \in Email, role \in Roles, says \in BOOLEAN, v \in Versions :
            RegisterValidate(r, e, role, says, v)
       \/ \E u \in Ids :
            \/ RegisterCreate(r, u) \/ LoginValidate(r, u)
            \/ \E v \in Versions : AcceptFetch(r, u, v)
            \/ \E e \in Email : ProfileFetch(r, u, e) \/ AdminTypes(r, u, e)
            \/ \E s \in Statuses : StatusFetch(r, u, s)
            \/ \E active \in BOOLEAN : AdminActivates(r, u, active)

Spec == Init /\ [][Next]_accountVars
=============================================================================
