------------------------------- MODULE Audit -------------------------------
(***************************************************************************)
(* The audit log: the suspicious attempts that ban an address and cost the *)
(* signed-in user reputation, and the entries that the post_save signal    *)
(* writes for every audited row.                                           *)
(*                                                                         *)
(* AuditService._log runs outside of a transaction at the failed login and *)
(* at the honeypot, so each of its statements commits by itself and is a   *)
(* step.  A save in autocommit is a transaction of its own too, and its    *)
(* entry is another; in a transaction.atomic block they commit together.   *)
(* What an entry says of the request is in the memory of the thread, which *)
(* the middleware fills at the start of a request and nobody clears.       *)
(***************************************************************************)
EXTENDS Naturals, FiniteSets, Sequences

CONSTANTS
  Workers,      \* threads that serve requests
  Celery,       \* and those of them that run tasks instead
  Addresses,    \* client addresses
  FullScore,    \* reputation_score of the user, in steps of 0.50
  MaxAttempts,  \* bound: suspicious attempts
  MaxVersion    \* bound: changes of the audited row

ASSUME BoundAssumption == FullScore \in Nat /\ MaxAttempts \in Nat /\ MaxVersion \in Nat
ASSUME WorkersAssumption == IsFiniteSet(Workers) /\ Celery \subseteq Workers

VARIABLES
  logged,    \* Addresses -> suspicious entries with that address in audit_log
  banned,    \* addresses in core_banned_ip
  score,     \* users_user.reputation_score of the user with a session cookie
  version,   \* how often the audited row was changed
  entries,   \* what audit_log says of changes of the row
  context,   \* Workers -> _thread_locals.ip_address
  task,      \* Workers -> what the worker does next
  attempts,  \* how many suspicious attempts began
  penalties, \* history: how many penalties were saved
  origin,    \* history: the address that each change of the row came from
  silent     \* history: changes by bulk updates, or whose worker died

vars == <<logged, banned, score, version, entries, context, task, attempts, penalties, origin, silent>>
security == <<logged, banned, score, attempts, penalties>>
row == <<version, entries, origin, silent>>

Stages == {"idle", "serve", "count", "ban", "penalise", "insert", "entry"}
From == Addresses \cup {"none"}
Task == [at: Stages, ip: From, signed: BOOLEAN, score: 0..FullScore, change: 0..MaxVersion]
Idle == [at |-> "idle", ip |-> "none", signed |-> FALSE, score |-> 0, change |-> 0]
Entry == [change: 1..MaxVersion, ip: From]

TypeOK ==
  /\ logged \in [Addresses -> 0..MaxAttempts]
  /\ banned \subseteq Addresses
  /\ score \in 0..FullScore
  /\ version \in 0..MaxVersion
  /\ entries \subseteq Entry
  /\ silent \subseteq 1..version
  /\ origin \in [1..version -> From]
  /\ context \in [Workers -> From]
  /\ task \in [Workers -> Task]
  /\ attempts \in 0..MaxAttempts
  /\ penalties \in 0..attempts

Init ==
  /\ logged = [a \in Addresses |-> 0]
  /\ banned = {}
  /\ score = FullScore
  /\ version = 0 /\ entries = {} /\ silent = {}
  /\ origin = <<>>
  /\ context = [w \in Workers |-> "none"]
  /\ task = [w \in Workers |-> Idle]
  /\ attempts = 0 /\ penalties = 0

-----------------------------------------------------------------------------
At(w, stage) == task[w].at = stage
Goes(w, stage) == task' = [task EXCEPT ![w].at = stage]
Done(w) == task' = [task EXCEPT ![w] = Idle]

(* CurrentUserMiddleware                                                    *)

\* mutant: the address is stored when the thread has none yet
KeepsContext(w, ip) ==
  context' = [context EXCEPT ![w] = IF @ = "none" THEN ip ELSE @]

\* The address, the user and the browser of the request.
SetContext(w, ip) == context' = [context EXCEPT ![w] = ip]

\* request.user is the user of a Django session, or nobody.
BeginRequest(w, ip, signed) ==
  /\ At(w, "idle") /\ w \notin Celery
  /\ SetContext(w, ip)
  /\ task' = [task EXCEPT ![w] = [Idle EXCEPT !.at = "serve", !.ip = ip, !.signed = signed]]
  /\ UNCHANGED <<security, row>>

\* A Celery task passes no middleware.
BeginTask(w) ==
  /\ At(w, "idle") /\ w \in Celery
  /\ Goes(w, "serve")
  /\ UNCHANGED <<security, row, context>>

\* The context stays behind in the thread.
End(w) ==
  /\ At(w, "serve")
  /\ Done(w)
  /\ UNCHANGED <<security, row, context>>

(* AuditService._log(is_suspicious=True)                                    *)

\* The user is fetched when the log first looks at it.  A failure of the alert
\* e-mail is caught.
Attempt(w, ip) ==
  /\ At(w, "serve") /\ w \notin Celery
  /\ attempts < MaxAttempts /\ attempts' = attempts + 1
  /\ task' = [task EXCEPT ![w] = [task[w] EXCEPT
       !.at = "count", !.ip = ip, !.score = IF task[w].signed THEN score ELSE 0]]
  /\ UNCHANGED <<logged, banned, score, penalties, row, context>>

\* LoginView passes the address of the request, for whatever reason it failed.
LogFailedLogin(w) == Attempt(w, task[w].ip)

\* A registration with a filled honeypot leaves the address to the context.
Honeypot(w) == Attempt(w, context[w])

AfterBan(w) == IF task[w].signed THEN "penalise" ELSE "insert"

\* mutant: the limit is one attempt too late
ReachesLimitLate(n) == n >= 3

\* The third attempt bans, and this one is not in the log yet.
ReachesLimit(n) == n >= 2

\* The suspicious entries of this address are counted.
CountAttempts(w) ==
  /\ At(w, "count")
  /\ Goes(w, IF ReachesLimit(logged[task[w].ip]) THEN "ban" ELSE AfterBan(w))
  /\ UNCHANGED <<security, row, context>>

\* BannedIP.objects.get_or_create.
Ban(w) ==
  /\ At(w, "ban")
  /\ banned' = banned \cup {task[w].ip}
  /\ Goes(w, AfterBan(w))
  /\ UNCHANGED <<logged, score, attempts, penalties, row, context>>

\* mutant: a penalty of a whole point
PenalisedTwice(s) == IF s < 2 THEN 0 ELSE s - 2

\* max(0, reputation_score - 0.50)
Penalised(s) == IF s = 0 THEN 0 ELSE s - 1

\* The new score is computed from the instance, and saved by name.
Penalise(w) ==
  /\ At(w, "penalise")
  /\ score' = Penalised(task[w].score)
  /\ penalties' = penalties + 1
  /\ Goes(w, "insert")
  /\ UNCHANGED <<logged, banned, attempts, row, context>>

\* Both requests are refused after that.
InsertAttempt(w) ==
  /\ At(w, "insert")
  /\ logged' = [logged EXCEPT ![task[w].ip] = @ + 1]
  /\ Done(w)
  /\ UNCHANGED <<banned, score, attempts, penalties, row, context>>

(* The signal audit_create_update                                           *)

Changes(ip) ==
  /\ version < MaxVersion
  /\ version' = version + 1
  /\ origin' = Append(origin, ip)

\* save() in autocommit: creation, update, soft deletion or restoration.
Save(w) ==
  /\ At(w, "serve")
  /\ Changes(task[w].ip)
  /\ task' = [task EXCEPT ![w] = [task[w] EXCEPT !.at = "entry", !.change = version + 1]]
  /\ UNCHANGED <<security, entries, silent, context>>

\* The address that get_current_ip() has for the worker.
Says(w, change) == [change |-> change, ip |-> context[w]]

\* The entry that the signal handler writes next.
LogEntry(w) ==
  /\ At(w, "entry")
  /\ entries' = entries \cup {Says(w, task[w].change)}
  /\ task' = [task EXCEPT ![w] = [task[w] EXCEPT !.at = "serve", !.change = 0]]
  /\ UNCHANGED <<security, version, origin, silent, context>>

\* mutant: the save of an atomic block is not signalled
SaveAtomicSilent(w) ==
  /\ At(w, "serve")
  /\ Changes(task[w].ip)
  /\ UNCHANGED <<security, entries, silent, task, context>>

\* save() in a transaction.atomic block: the row and its entry, or neither.
SaveAtomic(w) ==
  /\ At(w, "serve")
  /\ Changes(task[w].ip)
  /\ entries' = entries \cup {Says(w, version + 1)}
  /\ UNCHANGED <<security, silent, task, context>>

\* QuerySet.update(), delete() and restore() send no signal.
BulkUpdate(w) ==
  /\ At(w, "serve")
  /\ Changes(task[w].ip)
  /\ silent' = silent \cup {version + 1}
  /\ UNCHANGED <<security, entries, task, context>>

\* A worker dies, or a statement fails: what was committed stays.
Die(w) ==
  /\ ~At(w, "idle")
  /\ silent' = IF At(w, "entry") THEN silent \cup {task[w].change} ELSE silent
  /\ Done(w)
  /\ UNCHANGED <<security, version, entries, origin, context>>

WorkerStep(w) ==
  \/ \E ip \in Addresses, signed \in BOOLEAN : BeginRequest(w, ip, signed)
  \/ BeginTask(w) \/ End(w)
  \/ LogFailedLogin(w) \/ Honeypot(w) \/ CountAttempts(w) \/ Ban(w) \/ Penalise(w) \/ InsertAttempt(w)
  \/ Save(w) \/ LogEntry(w) \/ SaveAtomic(w) \/ BulkUpdate(w) \/ Die(w)

Next == \E w \in Workers : WorkerStep(w)

Spec == Init /\ [][Next]_vars
=============================================================================
