------------------------- MODULE AiDescriptionProps -------------------------
(* What is claimed of module AiDescription.                                 *)
EXTENDS AiDescription

\* The poll of a task is the life of a job: its attempts are sent in order and
\* at most max_retries follow the first, unless a process or a worker died under
\* the task; DONE is final; FAILED comes with the last attempt or a death only
\* (products/tasks.py:10-18, products/views.py:395-414).
PolledJob == INSTANCE Job WITH
  Jobs <- Requests,
  Budget <- MaxRetries,
  answer <- [t \in Requests |-> TaskStatus(t)],
  sent <- [t \in Requests |-> [i \in Sent(t) |-> msgs[t][i].retries]],
  struck <- struck
PollFollowsJob == PolledJob!Spec

\* An attempt that will itself end a PROCESSING, or hand it on to a retry.
Responsible(t, i) ==
  \/ msgs[t][i].at \in {"queued", "generate"} \cup AtStatement \cup Handling
  \/ msgs[t][i].at \in Raised /\ ~LastAttempt(t, i)
SomeoneResponsible == \E t \in Requests : \E i \in Sent(t) : Responsible(t, i)

\* The last attempt that could end PROCESSING does not go while the product, not
\* archived, stays PROCESSING: whatever several attempts of several tasks, the
\* reaper and the other writers did to the row, only a failure of the failure's
\* own statement, of the broker or of the process leaves it to the reaper
\* (tasks.py:22-49).
LeavesNoneProcessing ==
  [][SomeoneResponsible /\ ~SomeoneResponsible' /\ ~row.deleted =>
       \/ row'.status # "PROCESSING"
       \/ \E t \in Requests : \E i \in Sent(t) :
            HandlerFails(t, i) \/ RetryRefused(t, i) \/ Killed(t, i)]_aiVars

\* Nothing stays PROCESSING for ever, whether its task was lost, had finished
\* before the view wrote PROCESSING, or never found the row; unless the product
\* is archived, which hides it from the reaper (tasks.py:54-59).
ProcessingEnds == row.status = "PROCESSING" ~> (row.status # "PROCESSING" \/ row.deleted)

\* Every message that the broker took comes to an end, for any pattern of
\* retries, losses and reaping.
Finished(t) == \A i \in Sent(t) : Stands(t, i, {"over"})
TasksEnd == \A t \in Requests : ~Finished(t) ~> Finished(t)
=============================================================================
