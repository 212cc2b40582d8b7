--------------------------- MODULE AiDescription ---------------------------
(***************************************************************************)
(* The AI description of one product: the view that queues the Celery      *)
(* task, the task with its retries, the worker that may die under it       *)
(* (acks_late), the reaper, and the requests of others that save the row.  *)
(*                                                                         *)
(* Each request starts one task and is named by it.  A task has a message  *)
(* per attempt, kept in the order sent; a message is acknowledged after    *)
(* its result is stored.  Statements on the row are steps: only the last   *)
(* one of the task is in a transaction.                                    *)
(***************************************************************************)
EXTENDS Naturals, Sequences

CONSTANTS
  Requests,    \* requests for a description, and the tasks they start
  Editors,     \* requests that save the whole row of the product
  MaxRetries,  \* max_retries of the task
  MaxLosses,   \* bound: how often a process or a worker is lost, over all tasks
  MaxTouches,  \* bound: how often others refresh updated_at
  NoCopy       \* the editor has fetched nothing

ASSUME BoundAssumption == MaxRetries \in Nat /\ MaxLosses \in Nat /\ MaxTouches \in Nat

VARIABLES
  row,      \* the product: ai_status, ai_description, is_deleted, and whether
            \* updated_at is more than ten minutes old
  view,     \* Requests -> where the view is
  msgs,     \* Requests -> the messages of the task, one for each attempt
  result,   \* Requests -> state of the task in the result backend
  copy,     \* Editors -> ai_status and ai_description as fetched, or NoCopy
  struck,   \* history: the tasks that lost a process or a worker
  losses, touches

aiVars == <<row, view, msgs, result, copy, struck, losses, touches>>
taskVars == <<msgs, result, struck>>

AIStatus == {"NONE", "PROCESSING", "DONE", "FAILED"}
\* An ai_description: none, or some text of the vendor or of the service.
Text == {"none", "some"}
\* At a statement of the task, in one of its handlers, or past both: the task
\* returned, or raised after its handler or in it; its retry was sent, or its
\* result stored.
AtStatement == {"read", "claim", "save"}
Handling == {"handler", "timeout"}
Raised == {"raised", "broke"}
Taken == AtStatement \cup Handling \cup Raised \cup
         {"generate", "returned", "retried", "stored"}
Stage == Taken \cup {"queued", "over"}
\* found is what the service returned to the attempt.
Message == [retries: 0..MaxRetries, at: Stage, found: Text]
Copy == [status: AIStatus, text: Text]

ASSUME NoCopyAssumption == NoCopy \notin Copy

TypeOK ==
  /\ row \in [status: AIStatus, text: Text, deleted: BOOLEAN, stale: BOOLEAN]
  /\ view \in [Requests -> {"idle", "enqueue", "mark", "answered"}]
  /\ msgs \in [Requests -> Seq(Message)]
  /\ result \in [Requests -> {"PENDING", "RETRY", "SUCCESS", "FAILURE"}]
  /\ copy \in [Editors -> Copy \cup {NoCopy}]
  /\ struck \in SUBSET Requests
  /\ losses \in 0..MaxLosses
  /\ touches \in 0..MaxTouches

Init ==
  /\ row = [status |-> "NONE", text |-> "none", deleted |-> FALSE, stale |-> FALSE]
  /\ view = [r \in Requests |-> "idle"]
  /\ msgs = [r \in Requests |-> <<>>]
  /\ result = [r \in Requests |-> "PENDING"]
  /\ copy = [e \in Editors |-> NoCopy]
  /\ struck = {}
  /\ losses = 0 /\ touches = 0

Sent(r) == DOMAIN msgs[r]
NewMessage(n) == [retries |-> n, at |-> "queued", found |-> "none"]

-----------------------------------------------------------------------------
(* POST /products/<id>/generate_ai_description/                             *)

\* A product that has a description is answered from the row, and nothing runs.
Ask(r) ==
  /\ view[r] = "idle"
  /\ ~row.deleted /\ row.text = "none"
  /\ view' = [view EXCEPT ![r] = "enqueue"]
  /\ UNCHANGED <<row, taskVars, copy, losses, touches>>

\* The view's own save.
Marked(status) == row' = [row EXCEPT !.status = status]

\* .delay(): the broker takes the message, or the view records the failure.
Enqueue(r) ==
  /\ view[r] = "enqueue"
  /\ \/ /\ view' = [view EXCEPT ![r] = "mark"]
        /\ msgs' = [msgs EXCEPT ![r] = Append(@, NewMessage(0))]
        /\ UNCHANGED row
     \/ /\ view' = [view EXCEPT ![r] = "answered"]
        /\ Marked("FAILED")
        /\ UNCHANGED msgs
  /\ UNCHANGED <<result, copy, struck, losses, touches>>

\* PROCESSING is written after the message was sent, whatever became of it.
Mark(r) ==
  /\ view[r] = "mark"
  /\ view' = [view EXCEPT ![r] = "answered"]
  /\ Marked("PROCESSING")
  /\ UNCHANGED <<taskVars, copy, losses, touches>>

-----------------------------------------------------------------------------
(* generate_ai_description_task, in the attempt of message i of task t      *)

Stands(t, i, stages) == i \in Sent(t) /\ msgs[t][i].at \in stages
Goes(t, i, to) == msgs' = [msgs EXCEPT ![t][i].at = to]
Leaves(t, i, to) == msgs' = [msgs EXCEPT ![t][i].at = to, ![t][i].found = "none"]

\* A worker takes the message.  With acks_late it stays unacknowledged.
Take(t, i) ==
  /\ Stands(t, i, {"queued"})
  /\ Goes(t, i, "read")
  /\ UNCHANGED <<row, view, result, struck, copy, losses, touches>>

\* mutant: a product that is not found is looked for again
ReadRequeues(t, i) ==
  /\ Stands(t, i, {"read"})
  /\ Goes(t, i, IF row.deleted THEN "queued"
                ELSE IF row.status = "DONE" THEN "returned" ELSE "claim")
  /\ UNCHANGED <<row, view, result, struck, copy, losses, touches>>

\* An archived product is not found; a DONE one is left alone.
Read(t, i) ==
  /\ Stands(t, i, {"read"})
  /\ Goes(t, i, IF row.deleted \/ row.status = "DONE" THEN "returned" ELSE "claim")
  /\ UNCHANGED <<row, view, result, struck, copy, losses, touches>>

Claim(t, i) ==
  /\ Stands(t, i, {"claim"})
  /\ Marked("PROCESSING")
  /\ Goes(t, i, "generate")
  /\ UNCHANGED <<view, result, struck, copy, losses, touches>>

\* The service answers whatever happens in it, the soft time limit included: it
\* catches every exception and returns the message as a text.  Only the model
\* may answer with nothing.
Generate(t, i) ==
  /\ Stands(t, i, {"generate"})
  /\ \E text \in Text :
       msgs' = [msgs EXCEPT ![t][i].at = "save", ![t][i].found = text]
  /\ UNCHANGED <<row, view, result, struck, copy, losses, touches>>

\* SELECT ... FOR UPDATE and the two columns, in one transaction.
Save(t, i) ==
  /\ Stands(t, i, {"save"})
  /\ row' = IF row.deleted THEN row
            ELSE [row EXCEPT !.status = "DONE", !.text = msgs[t][i].found]
  /\ Leaves(t, i, "returned")
  /\ UNCHANGED <<view, result, struck, copy, losses, touches>>

\* The soft time limit strikes at a statement of the task itself.
SoftTimeLimit(t, i) ==
  /\ Stands(t, i, AtStatement)
  /\ Leaves(t, i, "timeout")
  /\ UNCHANGED <<row, view, result, struck, copy, losses, touches>>

\* A statement raises something else.
Error(t, i) ==
  /\ Stands(t, i, AtStatement)
  /\ Leaves(t, i, "handler")
  /\ UNCHANGED <<row, view, result, struck, copy, losses, touches>>

\* Product.objects.filter(id=...).update(): archived rows are left out.
MarkFailed ==
  IF row.deleted THEN UNCHANGED row ELSE Marked("FAILED")

\* mutant: one attempt more
LastAttemptLate(t, i) == msgs[t][i].retries > MaxRetries

LastAttempt(t, i) == msgs[t][i].retries >= MaxRetries

\* mutant: the handler counts one attempt more than autoretry does
RecordsFailureLate(t, i) ==
  IF msgs[t][i].retries > MaxRetries THEN MarkFailed ELSE UNCHANGED row

\* The handler records the failure of the last attempt only.
RecordsFailure(t, i) == IF LastAttempt(t, i) THEN MarkFailed ELSE UNCHANGED row

\* A statement of its own: "except Exception" raises the exception again, the
\* handler of the soft time limit returns.
Handle(t, i) ==
  /\ \/ Stands(t, i, {"handler"}) /\ RecordsFailure(t, i) /\ Goes(t, i, "raised")
     \/ Stands(t, i, {"timeout"}) /\ MarkFailed /\ Goes(t, i, "returned")
  /\ UNCHANGED <<view, result, struck, copy, losses, touches>>

\* The handler's own UPDATE raises, or the soft time limit strikes in it.
HandlerFails(t, i) ==
  /\ Stands(t, i, Handling)
  /\ Goes(t, i, "broke")
  /\ UNCHANGED <<row, view, result, struck, copy, losses, touches>>

-----------------------------------------------------------------------------
(* Celery around the task.                                                  *)

\* autoretry sends a message for the next attempt before anything is stored.
Retry(t, i) ==
  /\ Stands(t, i, Raised) /\ ~LastAttempt(t, i)
  /\ msgs' = [msgs EXCEPT ![t] = Append([@ EXCEPT ![i].at = "retried"],
                                        NewMessage(msgs[t][i].retries + 1))]
  /\ UNCHANGED <<row, view, result, struck, copy, losses, touches>>

\* The broker does not take it: the message is rejected, and no result stored.
RetryRefused(t, i) ==
  /\ Stands(t, i, Raised) /\ ~LastAttempt(t, i)
  /\ Goes(t, i, "over")
  /\ UNCHANGED <<row, view, result, struck, copy, losses, touches>>

\* The backend keeps a SUCCESS whatever is stored after it.
Stored(t, state) ==
  result' = [result EXCEPT ![t] = IF @ = "SUCCESS" THEN @ ELSE state]

Store(t, i) ==
  /\ \/ Stands(t, i, {"returned"}) /\ Stored(t, "SUCCESS")
     \/ Stands(t, i, Raised) /\ LastAttempt(t, i) /\ Stored(t, "FAILURE")
     \/ Stands(t, i, {"retried"}) /\ Stored(t, "RETRY")
  /\ Goes(t, i, "stored")
  /\ UNCHANGED <<row, view, struck, copy, losses, touches>>

Acknowledge(t, i) ==
  /\ Stands(t, i, {"stored"})
  /\ Goes(t, i, "over")
  /\ UNCHANGED <<row, view, result, struck, copy, losses, touches>>

\* The supervisor stores a failure of its own: after the hard time limit before
\* it acknowledges, after the death of the pool process when it has done so,
\* and not at all if it dies in between.
Killed(t, i) ==
  /\ Stands(t, i, Taken)
  /\ losses < MaxLosses
  /\ losses' = losses + 1
  /\ \/ Leaves(t, i, "stored") /\ Stored(t, "FAILURE")
     \/ Leaves(t, i, "over") /\ Stored(t, "FAILURE")
     \/ Leaves(t, i, "over") /\ UNCHANGED result
  /\ struck' = struck \cup {t}
  /\ UNCHANGED <<row, view, copy, touches>>

\* The whole worker is lost: the message that was not acknowledged is delivered
\* again, also when the result of its attempt is stored or its retry sent.
Redelivered(t, i) ==
  /\ Stands(t, i, Taken)
  /\ losses < MaxLosses
  /\ losses' = losses + 1
  /\ Leaves(t, i, "queued")
  /\ struck' = struck \cup {t}
  /\ UNCHANGED <<row, view, result, copy, touches>>

-----------------------------------------------------------------------------
(* reap_zombie_ai_tasks, and what others do to the row.                     *)

\* mutant: the comparison with the threshold is reversed
ReapableYoung == row.status = "PROCESSING" /\ ~row.stale /\ ~row.deleted

Reapable == row.status = "PROCESSING" /\ row.stale /\ ~row.deleted

\* update() leaves updated_at alone.
Reap ==
  /\ Reapable
  /\ Marked("FAILED")
  /\ UNCHANGED <<view, taskVars, copy, losses, touches>>

TenMinutesPass ==
  /\ ~row.stale
  /\ row' = [row EXCEPT !.stale = TRUE]
  /\ UNCHANGED <<view, taskVars, copy, losses, touches>>

\* A save of the locked row by an order: only updated_at moves.
OrderSaves ==
  /\ touches < MaxTouches
  /\ touches' = touches + 1
  /\ row' = [row EXCEPT !.stale = FALSE]
  /\ UNCHANGED <<view, taskVars, copy, losses>>

\* Archive and restore save one column, updated_at not included.
Archive ==
  /\ row' = [row EXCEPT !.deleted = ~@]
  /\ UNCHANGED <<view, taskVars, copy, losses, touches>>

EditFetch(e) ==
  /\ copy[e] = NoCopy /\ touches < MaxTouches
  /\ ~row.deleted
  /\ copy' = [copy EXCEPT ![e] = [status |-> row.status, text |-> row.text]]
  /\ UNCHANGED <<row, view, taskVars, losses, touches>>

\* An edit may set ai_description and writes every column of what it fetched;
\* the archive flag follows the edit or the fetched row.
EditSave(e) ==
  /\ copy[e] # NoCopy
  /\ touches < MaxTouches
  /\ touches' = touches + 1
  /\ \E text \in Text, deleted \in BOOLEAN :
       row' = [status |-> copy[e].status, text |-> text, deleted |-> deleted, stale |-> FALSE]
  /\ copy' = [copy EXCEPT ![e] = NoCopy]
  /\ UNCHANGED <<view, taskVars, losses>>

-----------------------------------------------------------------------------
TaskStep(t, i) ==
  \/ Take(t, i) \/ Read(t, i) \/ Claim(t, i) \/ Generate(t, i) \/ Save(t, i)
  \/ Handle(t, i) \/ Retry(t, i) \/ Store(t, i) \/ Acknowledge(t, i)

WorkersGoOn == \E t \in Requests : \E i \in Sent(t) : TaskStep(t, i)

Fault(t, i) ==
  \/ SoftTimeLimit(t, i) \/ Error(t, i) \/ HandlerFails(t, i) \/ RetryRefused(t, i)
  \/ Killed(t, i) \/ Redelivered(t, i)

Next ==
  \/ \E r \in Requests : Ask(r) \/ Enqueue(r) \/ Mark(r)
  \/ WorkersGoOn
  \/ \E t \in Requests : \E i \in Sent(t) : Fault(t, i)
  \/ Reap \/ TenMinutesPass \/ OrderSaves \/ Archive
  \/ \E e \in Editors : EditFetch(e) \/ EditSave(e)

Spec == Init /\ [][Next]_aiVars

\* Workers that are alive go on with one task or another; beat runs the reaper every five minutes.
\* Views, editors and faults are never forced.
Fairness ==
  /\ WF_aiVars(WorkersGoOn)
  /\ WF_aiVars(TenMinutesPass)
  /\ WF_aiVars(Reap)

FairSpec == Spec /\ Fairness
-----------------------------------------------------------------------------
\* GET /products/tasks/<id>/: the answer is read from the result backend, and
\* a task that returned is DONE whatever it returned.
TaskStatus(t) ==
  CASE result[t] = "SUCCESS" -> "DONE"
    [] result[t] = "FAILURE" -> "FAILED"
    [] result[t] = "RETRY"   -> "RETRYING"
    [] OTHER                 -> "PENDING"
=============================================================================
