-------------------------------- MODULE Job --------------------------------
(***************************************************************************)
(* What a client that polls GET /products/tasks/<id>/ may rely on.  A job  *)
(* makes its attempts one after the other and at most 1 + Budget of them,  *)
(* unless an accident repeats one.  An answer of DONE is final; RETRYING   *)
(* means that a retry was sent, and FAILED that none is left or that the   *)
(* job had an accident: it may then be answered anew.                      *)
(***************************************************************************)
EXTENDS Naturals, Sequences

CONSTANTS Jobs, Budget

VARIABLES
  answer,     \* Jobs -> what the poll answers
  sent,       \* Jobs -> number of retries before each attempt, in the order sent
  struck      \* jobs that had an accident

jobVars == <<answer, sent, struck>>

Init ==
  /\ answer = [j \in Jobs |-> "PENDING"]
  /\ sent = [j \in Jobs |-> <<>>]
  /\ struck = {}

\* The next attempt, or after an accident any attempt again.
Attempt(j, n) ==
  /\ n = Len(sent[j]) \/ j \in struck
  /\ sent' = [sent EXCEPT ![j] = Append(@, n)]
  /\ UNCHANGED <<answer, struck>>

\* The answers open to job j.
Answers(j) ==
  {a \in {"RETRYING", "FAILED", "DONE"} :
     /\ a = "RETRYING" => Len(sent[j]) > 1
     /\ a = "FAILED" /\ j \notin struck => Len(sent[j]) = 1 + Budget}

Answer(j) ==
  /\ sent[j] # <<>>
  /\ answer[j] # "DONE"
  /\ \E a \in Answers(j) : answer' = [answer EXCEPT ![j] = a]
  /\ UNCHANGED <<sent, struck>>

Accident(j) ==
  /\ sent[j] # <<>>
  /\ struck' = struck \cup {j}
  /\ \/ UNCHANGED answer
     \/ answer[j] # "DONE" /\ answer' = [answer EXCEPT ![j] = "FAILED"]
  /\ UNCHANGED sent

Next == \E j \in Jobs : (\E n \in 0..Budget : Attempt(j, n)) \/ Answer(j) \/ Accident(j)

Spec == Init /\ [][Next]_jobVars
=============================================================================
