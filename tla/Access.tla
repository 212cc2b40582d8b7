------------------------------ MODULE Access ------------------------------
(***************************************************************************)
(* What closing a session promises to the owner of an account: a session   *)
(* is opened once, closed once, never opened again, and a request is let   *)
(* in only under a session that is open at some moment of its              *)
(* authentication.                                                         *)
(***************************************************************************)
CONSTANTS SessionIds, Requests, Nobody

VARIABLES
  phase,     \* SessionIds -> "none", "open" or "closed"
  inside     \* Requests -> the session it was let in under, or Nobody

accessVars == <<phase, inside>>

Init ==
  /\ phase = [s \in SessionIds |-> "none"]
  /\ inside = [r \in Requests |-> Nobody]

Open(s) ==
  /\ phase[s] = "none"
  /\ phase' = [phase EXCEPT ![s] = "open"]
  /\ UNCHANGED inside

\* Requests that were let in may leave in the same step.
Close(S, leaving) ==
  /\ \A s \in S : phase[s] # "none"
  /\ phase' = [s \in SessionIds |-> IF s \in S THEN "closed" ELSE phase[s]]
  /\ inside' = [r \in Requests |-> IF r \in leaving THEN Nobody ELSE inside[r]]

LetIn(r, s) ==
  /\ inside[r] = Nobody
  /\ phase[s] = "open"
  /\ inside' = [inside EXCEPT ![r] = s]
  /\ UNCHANGED phase

Next ==
  \/ \E s \in SessionIds : Open(s)
  \/ \E S \in SUBSET SessionIds, leaving \in SUBSET Requests : Close(S, leaving)
  \/ \E r \in Requests, s \in SessionIds : LetIn(r, s)

Spec == Init /\ [][Next]_accessVars
=============================================================================
