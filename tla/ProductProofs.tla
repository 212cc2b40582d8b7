--------------------------- MODULE ProductProofs ---------------------------
(***************************************************************************)
(* Theorems about what happens to one product, checked by TLAPS:           *)
(*   module AiDescription, for any number of requests, editors, retries    *)
(*   and losses;                                                           *)
(*   module Moderation, for any number of moderators, images and edits.    *)
(***************************************************************************)
EXTENDS AiDescriptionProps, ModerationProps, SequenceTheorems, TLAPS

\* What an attempt is once it can no longer send a retry.
Settled == {"retried", "stored", "over"}

\* The message of a task is sent once by its view.  As long as nothing died under
\* the task, attempts are numbered in the order sent and only the newest is open.
MessageInv(t) ==
  /\ view[t] \in {"idle", "enqueue"} => msgs[t] = <<>>
  /\ \A i \in Sent(t) : msgs[t][i].at = "retried" => Len(msgs[t]) > 1
  /\ t \notin struck => \A i \in Sent(t) :
       /\ msgs[t][i].retries = i - 1
       /\ i < Len(msgs[t]) => msgs[t][i].at \in Settled

\* The inductive invariant.
IInv == TypeOK /\ \A t \in Requests : MessageInv(t)

RowType == [status: AIStatus, text: Text, deleted: BOOLEAN, stale: BOOLEAN]
ResultType == {"PENDING", "RETRY", "SUCCESS", "FAILURE"}

USE BoundAssumption, NoCopyAssumption

LEMMA SentIs ==
  ASSUME TypeOK, NEW t \in Requests
  PROVE  /\ msgs[t] \in Seq(Message) /\ Len(msgs[t]) \in Nat
         /\ Sent(t) = 1..Len(msgs[t])
         /\ \A i \in Sent(t) : msgs[t][i] \in Message
  BY DEF TypeOK, Sent

LEMMA InitIInv == Init => IInv
  <1> SUFFICES ASSUME Init PROVE IInv
    OBVIOUS
  <1>1. <<>> \in Seq(Message)
    OBVIOUS
  <1>2. TypeOK
    BY <1>1 DEF Init, TypeOK, AIStatus, Text
  <1>3. \A t \in Requests : msgs[t] = <<>>
    BY DEF Init
  <1>4. \A t \in Requests : Sent(t) = {}
    <2>1. Len(<<>>) = 0 /\ 1..0 = {}
      OBVIOUS
    <2>2. QED
      BY <1>2, <1>3, <2>1, SentIs
  <1>5. \A t \in Requests : MessageInv(t)
    BY <1>3, <1>4 DEF MessageInv
  <1>6. QED
    BY <1>2, <1>5 DEF IInv

-----------------------------------------------------------------------------
(* What a step does to each part of the state.                              *)

LEMMA StageIs ==
  Stage = {"queued", "over", "read", "claim", "save", "handler", "timeout", "raised",
           "broke", "generate", "returned", "retried", "stored"}
  BY DEF Stage, Taken, AtStatement, Handling, Raised

\* Only ai_status changes.
LEMMA MarkedType ==
  ASSUME TypeOK, NEW status \in AIStatus, Marked(status)
  PROVE  row' \in RowType
  BY DEF TypeOK, Marked, RowType

LEMMA MarkFailedType ==
  ASSUME TypeOK, MarkFailed
  PROVE  row' \in RowType
  <1>1. "FAILED" \in AIStatus
    BY DEF AIStatus
  <1>2. QED
    BY <1>1, MarkedType DEF MarkFailed, TypeOK, RowType

\* Message i of task t becomes m, in the same attempt.
Becomes(t, i, m) ==
  /\ m \in Message /\ m.retries = msgs[t][i].retries
  /\ msgs' = [msgs EXCEPT ![t] = [msgs[t] EXCEPT ![i] = m]]

LEMMA GoesBecomes ==
  ASSUME TypeOK, NEW t \in Requests, NEW i \in Sent(t), NEW to \in Stage, Goes(t, i, to)
  PROVE  \E m : Becomes(t, i, m) /\ m.at = to
  <1> DEFINE m == [msgs[t][i] EXCEPT !.at = to]
  <1>1. msgs[t][i] \in Message
    BY SentIs
  <1>2. m \in Message /\ m.retries = msgs[t][i].retries /\ m.at = to
    BY <1>1 DEF Message
  <1>3. msgs' = [msgs EXCEPT ![t] = [msgs[t] EXCEPT ![i] = m]]
    BY DEF Goes
  <1>4. QED
    BY <1>2, <1>3 DEF Becomes

LEMMA LeavesBecomes ==
  ASSUME TypeOK, NEW t \in Requests, NEW i \in Sent(t), NEW to \in Stage, NEW text \in Text,
         msgs' = [msgs EXCEPT ![t][i].at = to, ![t][i].found = text]
  PROVE  \E m : Becomes(t, i, m) /\ m.at = to
  <1> DEFINE m == [msgs[t][i] EXCEPT !.at = to, !.found = text]
  <1>1. msgs[t][i] \in Message /\ msgs[t] \in Seq(Message) /\ i \in DOMAIN msgs[t]
    BY SentIs DEF Sent
  <1>2. m \in Message /\ m.retries = msgs[t][i].retries /\ m.at = to
    BY <1>1 DEF Message
  <1>3. msgs \in [Requests -> Seq(Message)]
    BY DEF TypeOK
  <1>4. msgs' = [msgs EXCEPT ![t] = [msgs[t] EXCEPT ![i] = m]]
    BY <1>1, <1>3
  <1>5. QED
    BY <1>2, <1>4 DEF Becomes

LEMMA LeavesTo ==
  ASSUME TypeOK, NEW t \in Requests, NEW i \in Sent(t), NEW to \in Stage, Leaves(t, i, to)
  PROVE  \E m : Becomes(t, i, m) /\ m.at = to
  <1>1. "none" \in Text
    BY DEF Text
  <1>2. QED
    BY <1>1, LeavesBecomes DEF Leaves

\* The other messages and the numbers of the attempts stay.
LEMMA BecomesShape ==
  ASSUME TypeOK, NEW t \in Requests, NEW i \in Sent(t), NEW m, Becomes(t, i, m)
  PROVE  /\ msgs' \in [Requests -> Seq(Message)]
         /\ \A x \in Requests : Sent(x)' = Sent(x) /\ Len(msgs'[x]) = Len(msgs[x])
         /\ msgs'[t][i] = m
         /\ \A x \in Requests : \A j \in Sent(x) :
              (x # t \/ j # i) => msgs'[x][j] = msgs[x][j]
         /\ \A x \in Requests : \A j \in Sent(x) : msgs'[x][j].retries = msgs[x][j].retries
  <1> DEFINE s == [msgs[t] EXCEPT ![i] = m]
  <1>1. msgs[t] \in Seq(Message) /\ i \in 1..Len(msgs[t]) /\ m \in Message
    BY SentIs DEF Becomes
  <1>2. /\ s \in Seq(Message) /\ Len(s) = Len(msgs[t])
        /\ \A j \in 1..Len(msgs[t]) : s[j] = IF j = i THEN m ELSE msgs[t][j]
    BY <1>1, ExceptSeq
  <1>3. msgs \in [Requests -> Seq(Message)] /\ msgs' = [msgs EXCEPT ![t] = s]
    BY DEF TypeOK, Becomes
  <1> HIDE DEF s
  <1>4. msgs' \in [Requests -> Seq(Message)] /\ msgs'[t] = s
    BY <1>2, <1>3
  <1>5. \A x \in Requests : x # t => msgs'[x] = msgs[x]
    BY <1>3
  <1>6. \A x \in Requests : Len(msgs'[x]) = Len(msgs[x])
    BY <1>2, <1>4, <1>5
  <1>7. \A x \in Requests : Sent(x)' = 1..Len(msgs'[x])
    BY <1>4 DEF Sent
  <1>8. \A x \in Requests : Sent(x) = 1..Len(msgs[x])
    BY SentIs
  <1>9. \A x \in Requests : Sent(x)' = Sent(x)
    BY <1>6, <1>7, <1>8
  <1>10. msgs'[t][i] = m
    BY <1>1, <1>2, <1>4
  <1>11. \A x \in Requests : \A j \in Sent(x) :
           (x # t \/ j # i) => msgs'[x][j] = msgs[x][j]
    BY <1>2, <1>4, <1>5, <1>8
  <1>12. \A x \in Requests : \A j \in Sent(x) : msgs'[x][j].retries = msgs[x][j].retries
    BY <1>10, <1>11 DEF Becomes
  <1>13. QED
    BY <1>4, <1>6, <1>9, <1>10, <1>11, <1>12

\* A message that moves on keeps the invariant if it does not settle without
\* having sent its retry, and does not come back unless its task was struck.
LEMMA BecomesInv ==
  ASSUME IInv, NEW t \in Requests, NEW i \in Sent(t), NEW m, Becomes(t, i, m),
         m.at # "retried",
         msgs[t][i].at \in Settled => m.at \in Settled \/ t \in struck',
         struck \subseteq struck', UNCHANGED view
  PROVE  msgs' \in [Requests -> Seq(Message)] /\ \A x \in Requests : MessageInv(x)'
  <1>1. /\ msgs' \in [Requests -> Seq(Message)]
        /\ \A x \in Requests : Sent(x)' = Sent(x) /\ Len(msgs'[x]) = Len(msgs[x])
        /\ msgs'[t][i] = m
        /\ \A x \in Requests : \A j \in Sent(x) :
             (x # t \/ j # i) => msgs'[x][j] = msgs[x][j]
        /\ \A x \in Requests : \A j \in Sent(x) : msgs'[x][j].retries = msgs[x][j].retries
    BY BecomesShape DEF IInv
  <1>2. ASSUME NEW x \in Requests PROVE MessageInv(x)'
    <2>1. MessageInv(x) /\ Sent(x)' = Sent(x) /\ Len(msgs'[x]) = Len(msgs[x])
      BY <1>1 DEF IInv
    <2>2. view'[x] \in {"idle", "enqueue"} => msgs'[x] = <<>>
      BY <1>1, <2>1, SentIs DEF MessageInv, IInv, TypeOK
    <2>3. \A j \in Sent(x)' : msgs'[x][j].at = "retried" => Len(msgs'[x]) > 1
      BY <1>1, <2>1 DEF MessageInv
    <2>4. ASSUME x \notin struck', NEW j \in Sent(x)'
          PROVE  /\ msgs'[x][j].retries = j - 1
                 /\ j < Len(msgs'[x]) => msgs'[x][j].at \in Settled
      <3>1. x \notin struck /\ j \in Sent(x)
        BY <2>1, <2>4
      <3>2. msgs[x][j].retries = j - 1 /\ (j < Len(msgs[x]) => msgs[x][j].at \in Settled)
        BY <2>1, <3>1 DEF MessageInv
      <3>3. msgs'[x][j].retries = j - 1
        BY <1>1, <3>1, <3>2
      <3>4. j < Len(msgs[x]) => msgs'[x][j].at \in Settled
        BY <1>1, <2>4, <3>1, <3>2
      <3>5. QED
        BY <2>1, <3>3, <3>4
    <2>5. QED
      BY <2>2, <2>3, <2>4 DEF MessageInv
  <1>3. QED
    BY <1>1, <1>2

\* The parts of the state that a step of a task writes keep their types.
LEMMA TaskInv ==
  ASSUME IInv, msgs' \in [Requests -> Seq(Message)], \A x \in Requests : MessageInv(x)',
         row' \in RowType, result' \in [Requests -> ResultType],
         struck' \in SUBSET Requests, losses' \in 0..MaxLosses,
         UNCHANGED <<view, copy, touches>>
  PROVE  IInv'
  BY DEF IInv, TypeOK, RowType, ResultType

LEMMA StateTypes ==
  ASSUME IInv
  PROVE  /\ TypeOK /\ row \in RowType /\ result \in [Requests -> ResultType]
         /\ struck \in SUBSET Requests /\ losses \in 0..MaxLosses
  BY DEF IInv, TypeOK, RowType, ResultType

LEMMA StoredType ==
  ASSUME IInv, NEW t \in Requests, NEW state \in ResultType, Stored(t, state)
  PROVE  result' \in [Requests -> ResultType]
  BY StateTypes DEF Stored, ResultType

\* The steps of others leave views, messages and results alone.
LEMMA OthersInv ==
  ASSUME IInv, UNCHANGED <<view, taskVars>>, TypeOK'
  PROVE  IInv'
  BY DEF IInv, MessageInv, Sent, taskVars

LEMMA OthersType ==
  ASSUME TypeOK, Reap \/ TenMinutesPass \/ OrderSaves \/ Archive
  PROVE  TypeOK' /\ UNCHANGED <<view, taskVars>>
  <1>1. CASE Reap
    <2>1. "FAILED" \in AIStatus
      BY DEF AIStatus
    <2>2. row' \in RowType
      BY <1>1, <2>1, MarkedType DEF Reap
    <2>3. QED
      BY <1>1, <2>2 DEF Reap, TypeOK, taskVars, RowType
  <1>2. CASE TenMinutesPass
    BY <1>2 DEF TenMinutesPass, TypeOK, taskVars
  <1>3. CASE OrderSaves
    <2>1. touches' \in 0..MaxTouches
      BY <1>3 DEF OrderSaves, TypeOK
    <2>2. row' \in RowType
      BY <1>3 DEF OrderSaves, TypeOK, RowType
    <2>3. QED
      BY <1>3, <2>1, <2>2 DEF OrderSaves, TypeOK, taskVars, RowType
  <1>4. CASE Archive
    BY <1>4 DEF Archive, TypeOK, taskVars
  <1>5. QED
    BY <1>1, <1>2, <1>3, <1>4

LEMMA EditorsType ==
  ASSUME TypeOK, NEW e \in Editors, EditFetch(e) \/ EditSave(e)
  PROVE  TypeOK' /\ UNCHANGED <<view, taskVars>>
  <1>1. CASE EditFetch(e)
    BY <1>1 DEF EditFetch, TypeOK, taskVars, Copy
  <1>2. CASE EditSave(e)
    <2>1. copy[e] \in Copy
      BY <1>2 DEF EditSave, TypeOK
    <2>2. row' \in RowType
      BY <1>2, <2>1 DEF EditSave, Copy, RowType
    <2>3. touches' \in 0..MaxTouches /\ copy' \in [Editors -> Copy \cup {NoCopy}]
      BY <1>2 DEF EditSave, TypeOK
    <2>4. QED
      BY <1>2, <2>2, <2>3 DEF EditSave, TypeOK, taskVars, RowType
  <1>3. QED
    BY <1>1, <1>2

LEMMA NewMessageType ==
  ASSUME NEW n \in 0..MaxRetries
  PROVE  NewMessage(n) \in Message /\ NewMessage(n).at = "queued" /\ NewMessage(n).retries = n
  BY StageIs DEF NewMessage, Message, Text

LEMMA EnqueueSends ==
  ASSUME IInv, NEW r \in Requests, view[r] = "enqueue",
         msgs' = [msgs EXCEPT ![r] = Append(@, NewMessage(0))]
  PROVE  /\ msgs[r] = <<>> /\ msgs'[r] = <<NewMessage(0)>>
         /\ Sent(r)' = {1} /\ Len(msgs'[r]) = 1
         /\ msgs' \in [Requests -> Seq(Message)]
         /\ \A x \in Requests : x # r => msgs'[x] = msgs[x]
  <1>1. msgs[r] = <<>> /\ msgs \in [Requests -> Seq(Message)]
    BY DEF IInv, MessageInv, TypeOK
  <1>2. 0 \in 0..MaxRetries
    OBVIOUS
  <1>3. NewMessage(0) \in Message
    BY <1>2, NewMessageType
  <1> DEFINE s == <<NewMessage(0)>>
  <1>4. s \in Seq(Message) /\ DOMAIN s = {1} /\ Len(s) = 1
    BY <1>3
  <1>5. Append(msgs[r], NewMessage(0)) = s
    BY <1>1
  <1> HIDE DEF s
  <1>6. msgs' = [msgs EXCEPT ![r] = s]
    BY <1>5
  <1>7. msgs'[r] = s /\ msgs' \in [Requests -> Seq(Message)]
    BY <1>1, <1>4, <1>6
  <1>8. \A x \in Requests : x # r => msgs'[x] = msgs[x]
    BY <1>1, <1>6
  <1>9. QED
    BY <1>1, <1>4, <1>7, <1>8 DEF Sent, s

LEMMA ViewInv ==
  ASSUME IInv, NEW r \in Requests, Ask(r) \/ Enqueue(r) \/ Mark(r)
  PROVE  IInv'
  <1>1. "FAILED" \in AIStatus /\ "PROCESSING" \in AIStatus
    BY DEF AIStatus
  <1>2. CASE Ask(r)
    BY <1>2 DEF Ask, IInv, TypeOK, MessageInv, Sent, taskVars
  <1>3. CASE Enqueue(r) /\ UNCHANGED msgs
    <2>1. Marked("FAILED") /\ view' = [view EXCEPT ![r] = "answered"]
      <3>1. view'[r] = "mark" => FALSE
        <4>1. SUFFICES ASSUME msgs' = [msgs EXCEPT ![r] = Append(@, NewMessage(0))] PROVE FALSE
          BY <1>3 DEF Enqueue, IInv, TypeOK
        <4>2. msgs[r] = <<>> /\ msgs'[r] = <<NewMessage(0)>>
          BY <1>3, <4>1, EnqueueSends DEF Enqueue
        <4>3. QED
          BY <1>3, <4>2
      <3>2. QED
        BY <1>3, <3>1 DEF Enqueue, IInv, TypeOK
    <2>2. row' \in RowType
      BY <1>1, <2>1, MarkedType DEF IInv
    <2>3. TypeOK'
      BY <1>3, <2>1, <2>2 DEF Enqueue, IInv, TypeOK, RowType
    <2>4. \A x \in Requests : MessageInv(x)'
      BY <1>3, <2>1 DEF Enqueue, IInv, TypeOK, MessageInv, Sent
    <2>5. QED
      BY <2>3, <2>4 DEF IInv
  <1>4. CASE Enqueue(r) /\ msgs' # msgs
    <2>1. /\ view[r] = "enqueue" /\ view' = [view EXCEPT ![r] = "mark"]
          /\ msgs' = [msgs EXCEPT ![r] = Append(@, NewMessage(0))]
          /\ UNCHANGED <<row, result, copy, struck, losses, touches>>
      BY <1>4 DEF Enqueue
    <2>2. /\ msgs'[r] = <<NewMessage(0)>>
          /\ Sent(r)' = {1} /\ Len(msgs'[r]) = 1
          /\ msgs' \in [Requests -> Seq(Message)]
          /\ \A x \in Requests : x # r => msgs'[x] = msgs[x]
      BY <2>1, EnqueueSends
    <2>3. TypeOK'
      BY <2>1, <2>2 DEF IInv, TypeOK
    <2>4. MessageInv(r)'
      <3>1. view'[r] = "mark"
        BY <2>1 DEF IInv, TypeOK
      <3>2. 0 \in 0..MaxRetries
        OBVIOUS
      <3>3. msgs'[r][1].retries = 0 /\ msgs'[r][1].at = "queued"
        BY <2>2, <3>2, NewMessageType
      <3>4. QED
        BY <2>2, <3>1, <3>3 DEF MessageInv
    <2>5. \A x \in Requests : x # r => MessageInv(x)'
      BY <2>1, <2>2 DEF IInv, TypeOK, MessageInv, Sent
    <2>6. QED
      BY <2>3, <2>4, <2>5 DEF IInv
  <1>5. CASE Mark(r)
    <2>1. row' \in RowType
      BY <1>1, <1>5, MarkedType DEF Mark, IInv
    <2>2. TypeOK'
      BY <1>5, <2>1 DEF Mark, IInv, TypeOK, RowType, taskVars
    <2>3. \A x \in Requests : MessageInv(x)'
      BY <1>5 DEF Mark, IInv, TypeOK, MessageInv, Sent, taskVars
    <2>4. QED
      BY <2>2, <2>3 DEF IInv
  <1>6. QED
    BY <1>2, <1>3, <1>4, <1>5

-----------------------------------------------------------------------------
(* The steps of an attempt.                                                 *)

\* A step that only moves a message on, and may write the row and the result.
LEMMA GoesInv ==
  ASSUME IInv, NEW t \in Requests, NEW i \in Sent(t), NEW m, Becomes(t, i, m),
         m.at # "retried",
         msgs[t][i].at \in Settled => m.at \in Settled \/ t \in struck',
         row' \in RowType, result' \in [Requests -> ResultType],
         struck \subseteq struck', struck' \in SUBSET Requests, losses' \in 0..MaxLosses,
         UNCHANGED <<view, copy, touches>>
  PROVE  IInv'
  <1>1. msgs' \in [Requests -> Seq(Message)] /\ \A x \in Requests : MessageInv(x)'
    BY BecomesInv
  <1>2. QED
    BY <1>1, TaskInv

\* A retry is sent by the newest attempt, unless the task was struck.
LEMMA RetrySends ==
  ASSUME IInv, NEW t \in Requests, NEW i \in Sent(t), Retry(t, i)
  PROVE  /\ msgs' \in [Requests -> Seq(Message)]
         /\ msgs[t][i].retries + 1 \in 0..MaxRetries
         /\ Len(msgs'[t]) = Len(msgs[t]) + 1 /\ Sent(t)' = 1..(Len(msgs[t]) + 1)
         /\ msgs'[t][Len(msgs[t]) + 1] = NewMessage(msgs[t][i].retries + 1)
         /\ msgs'[t][i] = [msgs[t][i] EXCEPT !.at = "retried"]
         /\ \A j \in Sent(t) : j # i => msgs'[t][j] = msgs[t][j]
         /\ \A x \in Requests : x # t => msgs'[x] = msgs[x]
  <1> DEFINE m == [msgs[t][i] EXCEPT !.at = "retried"]
             s == [msgs[t] EXCEPT ![i] = m]
             n == msgs[t][i].retries + 1
  <1>1. msgs[t] \in Seq(Message) /\ i \in 1..Len(msgs[t]) /\ msgs[t][i] \in Message
    BY SentIs DEF IInv
  <1>2. m \in Message
    BY <1>1, StageIs DEF Message
  <1>3. n \in 0..MaxRetries
    BY <1>1 DEF Retry, LastAttempt, Message
  <1>4. /\ s \in Seq(Message) /\ Len(s) = Len(msgs[t])
        /\ \A j \in 1..Len(msgs[t]) : s[j] = IF j = i THEN m ELSE msgs[t][j]
    BY <1>1, <1>2, ExceptSeq
  <1>5. NewMessage(n) \in Message
    BY <1>3, NewMessageType
  <1>6. msgs' = [msgs EXCEPT ![t] = Append(s, NewMessage(n))]
    BY DEF Retry
  <1> HIDE DEF s, n
  <1> DEFINE a == Append(s, NewMessage(n))
  <1>7. /\ a \in Seq(Message) /\ Len(a) = Len(s) + 1
        /\ \A j \in 1..Len(s) : a[j] = s[j]
        /\ a[Len(s) + 1] = NewMessage(n)
    BY <1>4, <1>5, AppendProperties
  <1> HIDE DEF a
  <1>8. msgs \in [Requests -> Seq(Message)] /\ msgs' = [msgs EXCEPT ![t] = a]
    BY <1>6 DEF IInv, TypeOK, a
  <1>9. msgs'[t] = a /\ msgs' \in [Requests -> Seq(Message)]
    BY <1>7, <1>8
  <1>10. \A x \in Requests : x # t => msgs'[x] = msgs[x]
    BY <1>8
  <1>11. Len(msgs'[t]) = Len(msgs[t]) + 1 /\ Sent(t)' = 1..(Len(msgs[t]) + 1)
    BY <1>1, <1>4, <1>7, <1>9 DEF Sent
  <1>12. msgs'[t][Len(msgs[t]) + 1] = NewMessage(n)
    BY <1>4, <1>7, <1>9
  <1>13. \A j \in Sent(t) : msgs'[t][j] = IF j = i THEN m ELSE msgs[t][j]
    BY <1>1, <1>4, <1>7, <1>9, SentIs DEF IInv
  <1>14. QED
    BY <1>3, <1>9, <1>10, <1>11, <1>12, <1>13 DEF n

LEMMA RetryInv ==
  ASSUME IInv, NEW t \in Requests, NEW i \in Sent(t), Retry(t, i)
  PROVE  IInv'
  <1>1. /\ msgs' \in [Requests -> Seq(Message)]
        /\ msgs[t][i].retries + 1 \in 0..MaxRetries
        /\ Len(msgs'[t]) = Len(msgs[t]) + 1 /\ Sent(t)' = 1..(Len(msgs[t]) + 1)
        /\ msgs'[t][Len(msgs[t]) + 1] = NewMessage(msgs[t][i].retries + 1)
        /\ msgs'[t][i] = [msgs[t][i] EXCEPT !.at = "retried"]
        /\ \A j \in Sent(t) : j # i => msgs'[t][j] = msgs[t][j]
        /\ \A x \in Requests : x # t => msgs'[x] = msgs[x]
    BY RetrySends
  <1>2. /\ Len(msgs[t]) \in Nat /\ Sent(t) = 1..Len(msgs[t]) /\ msgs[t][i] \in Message
        /\ \A j \in Sent(t) : msgs[t][j] \in Message
    BY SentIs DEF IInv
  <1>3. msgs'[t][i].at = "retried" /\ msgs'[t][i].retries = msgs[t][i].retries
    BY <1>1, <1>2 DEF Message
  <1>4. /\ NewMessage(msgs[t][i].retries + 1).at = "queued"
        /\ NewMessage(msgs[t][i].retries + 1).retries = msgs[t][i].retries + 1
    BY <1>1, NewMessageType
  <1>5. MessageInv(t)'
    <2>1. view'[t] \notin {"idle", "enqueue"}
      <3>1. msgs[t] # <<>>
        BY <1>2
      <3>2. QED
        BY <3>1 DEF IInv, MessageInv, Retry
    <2>2. \A j \in Sent(t)' : msgs'[t][j].at = "retried" => Len(msgs'[t]) > 1
      BY <1>1, <1>2
    <2>3. ASSUME t \notin struck', NEW j \in Sent(t)'
          PROVE  /\ msgs'[t][j].retries = j - 1
                 /\ j < Len(msgs'[t]) => msgs'[t][j].at \in Settled
      <3>1. /\ msgs[t][i].retries = i - 1
            /\ i < Len(msgs[t]) => msgs[t][i].at \in Settled
        BY <2>3 DEF IInv, MessageInv, Retry
      <3>2. msgs[t][i].at \notin Settled
        BY DEF Retry, Stands, Raised, Settled
      <3>3. i = Len(msgs[t])
        BY <1>2, <3>1, <3>2
      <3>4. CASE j = Len(msgs[t]) + 1
        BY <1>1, <1>2, <1>4, <3>1, <3>3, <3>4
      <3>5. CASE j = i
        BY <1>3, <3>1, <3>5 DEF Settled
      <3>6. CASE j \in Sent(t) /\ j # i
        <4>1. msgs[t][j].retries = j - 1 /\ (j < Len(msgs[t]) => msgs[t][j].at \in Settled)
          BY <2>3, <3>6 DEF IInv, MessageInv, Retry
        <4>2. j < Len(msgs[t])
          BY <1>2, <3>3, <3>6
        <4>3. QED
          BY <1>1, <3>6, <4>1, <4>2
      <3>7. QED
        BY <1>1, <1>2, <3>4, <3>5, <3>6
    <2>4. QED
      BY <2>1, <2>2, <2>3 DEF MessageInv
  <1>6. \A x \in Requests : x # t => MessageInv(x)'
    BY <1>1 DEF IInv, MessageInv, Sent, Retry
  <1>7. /\ UNCHANGED <<row, result, struck, losses, view, copy, touches>>
        /\ \A x \in Requests : MessageInv(x)'
    BY <1>5, <1>6 DEF Retry
  <1>8. QED
    BY <1>1, <1>7, StateTypes, TaskInv

LEMMA TaskStepInv ==
  ASSUME IInv, NEW t \in Requests, NEW i \in Sent(t), TaskStep(t, i)
  PROVE  IInv'
  <1>1. /\ TypeOK /\ row \in RowType /\ result \in [Requests -> ResultType]
        /\ struck \in SUBSET Requests /\ losses \in 0..MaxLosses
    BY StateTypes
  <1>2. CASE Take(t, i)
    <2>1. PICK m : Becomes(t, i, m) /\ m.at = "read"
      BY <1>1, <1>2, GoesBecomes, StageIs DEF Take
    <2>2. QED
      BY <1>1, <1>2, <2>1, GoesInv DEF Take, Stands, Settled
  <1>3. CASE Read(t, i)
    <2>1. PICK m : Becomes(t, i, m) /\ m.at \in {"returned", "claim"}
      BY <1>1, <1>3, GoesBecomes, StageIs DEF Read
    <2>2. QED
      BY <1>1, <1>3, <2>1, GoesInv DEF Read, Stands, Settled
  <1>4. CASE Claim(t, i)
    <2>1. row' \in RowType
      BY <1>1, <1>4, MarkedType DEF Claim, AIStatus
    <2>2. PICK m : Becomes(t, i, m) /\ m.at = "generate"
      BY <1>1, <1>4, GoesBecomes, StageIs DEF Claim
    <2>3. QED
      BY <1>1, <1>4, <2>1, <2>2, GoesInv DEF Claim, Stands, Settled
  <1>5. CASE Generate(t, i)
    <2>1. PICK m : Becomes(t, i, m) /\ m.at = "save"
      <3>1. PICK text \in Text : msgs' = [msgs EXCEPT ![t][i].at = "save", ![t][i].found = text]
        BY <1>5 DEF Generate
      <3>2. "save" \in Stage
        BY StageIs
      <3>3. QED
        BY <1>1, <3>1, <3>2, LeavesBecomes
    <2>2. msgs[t][i].at \notin Settled /\ UNCHANGED <<row, view, result, struck, copy, losses, touches>>
      BY <1>5 DEF Generate, Stands, Settled
    <2>3. QED
      BY <1>1, <2>1, <2>2, GoesInv
  <1>6. CASE Save(t, i)
    <2>1. msgs[t][i].found \in Text
      BY <1>1, SentIs DEF Message
    <2>2. row' \in RowType
      BY <1>1, <1>6, <2>1 DEF Save, AIStatus, RowType
    <2>3. "none" \in Text
      BY DEF Text
    <2>4. PICK m : Becomes(t, i, m) /\ m.at = "returned"
      BY <1>1, <1>6, <2>3, LeavesBecomes, StageIs DEF Save, Leaves
    <2>5. QED
      BY <1>1, <1>6, <2>2, <2>4, GoesInv DEF Save, Stands, Settled
  <1>7. CASE Handle(t, i)
    <2>1. row' \in RowType
      BY <1>1, <1>7, MarkFailedType DEF Handle, RecordsFailure
    <2>2. PICK m : Becomes(t, i, m) /\ m.at \in {"raised", "returned"}
      BY <1>1, <1>7, GoesBecomes, StageIs DEF Handle
    <2>3. QED
      BY <1>1, <1>7, <2>1, <2>2, GoesInv DEF Handle, Stands, Settled
  <1>8. CASE Retry(t, i)
    BY <1>8, RetryInv
  <1>9. CASE Store(t, i)
    <2>1. result' \in [Requests -> ResultType]
      BY <1>9, StoredType DEF Store, ResultType
    <2>2. PICK m : Becomes(t, i, m) /\ m.at = "stored"
      BY <1>1, <1>9, GoesBecomes, StageIs DEF Store
    <2>3. QED
      BY <1>1, <1>9, <2>1, <2>2, GoesInv DEF Store, Settled
  <1>10. CASE Acknowledge(t, i)
    <2>1. PICK m : Becomes(t, i, m) /\ m.at = "over"
      BY <1>1, <1>10, GoesBecomes, StageIs DEF Acknowledge
    <2>2. QED
      BY <1>1, <1>10, <2>1, GoesInv DEF Acknowledge, Settled
  <1>11. QED
    BY <1>2, <1>3, <1>4, <1>5, <1>6, <1>7, <1>8, <1>9, <1>10 DEF TaskStep

LEMMA FaultInv ==
  ASSUME IInv, NEW t \in Requests, NEW i \in Sent(t), Fault(t, i)
  PROVE  IInv'
  <1>1. /\ TypeOK /\ row \in RowType /\ result \in [Requests -> ResultType]
        /\ struck \in SUBSET Requests /\ losses \in 0..MaxLosses /\ "none" \in Text
    BY StateTypes DEF Text
  <1>2. CASE SoftTimeLimit(t, i)
    <2>1. PICK m : Becomes(t, i, m) /\ m.at = "timeout"
      BY <1>1, <1>2, LeavesBecomes, StageIs DEF SoftTimeLimit, Leaves
    <2>2. QED
      BY <1>1, <1>2, <2>1, GoesInv DEF SoftTimeLimit, Stands, Settled, AtStatement
  <1>3. CASE Error(t, i)
    <2>1. PICK m : Becomes(t, i, m) /\ m.at = "handler"
      BY <1>1, <1>3, LeavesBecomes, StageIs DEF Error, Leaves
    <2>2. QED
      BY <1>1, <1>3, <2>1, GoesInv DEF Error, Stands, Settled, AtStatement
  <1>4. CASE HandlerFails(t, i)
    <2>1. PICK m : Becomes(t, i, m) /\ m.at = "broke"
      BY <1>1, <1>4, GoesBecomes, StageIs DEF HandlerFails
    <2>2. QED
      BY <1>1, <1>4, <2>1, GoesInv DEF HandlerFails, Stands, Settled, Handling
  <1>5. CASE RetryRefused(t, i)
    <2>1. PICK m : Becomes(t, i, m) /\ m.at = "over"
      BY <1>1, <1>5, GoesBecomes, StageIs DEF RetryRefused
    <2>2. QED
      BY <1>1, <1>5, <2>1, GoesInv DEF RetryRefused, Settled
  <1>6. CASE Killed(t, i)
    <2>1. result' \in [Requests -> ResultType]
      BY <1>1, <1>6, StoredType DEF Killed, ResultType
    <2>2. PICK m : Becomes(t, i, m) /\ m.at \in {"stored", "over"}
      <3>1. Leaves(t, i, "stored") \/ Leaves(t, i, "over")
        BY <1>6 DEF Killed
      <3>2. "stored" \in Stage /\ "over" \in Stage
        BY StageIs
      <3>3. CASE Leaves(t, i, "stored")
        BY <1>1, <3>2, <3>3, LeavesTo
      <3>4. CASE Leaves(t, i, "over")
        BY <1>1, <3>2, <3>4, LeavesTo
      <3>5. QED
        BY <3>1, <3>3, <3>4
    <2>3. struck \subseteq struck' /\ struck' \in SUBSET Requests /\ losses' \in 0..MaxLosses
      BY <1>1, <1>6 DEF Killed
    <2>4. UNCHANGED <<row, view, copy, touches>>
      BY <1>6 DEF Killed
    <2>5. QED
      BY <1>1, <2>1, <2>2, <2>3, <2>4, GoesInv DEF Settled
  <1>7. CASE Redelivered(t, i)
    <2>1. PICK m : Becomes(t, i, m) /\ m.at = "queued"
      BY <1>1, <1>7, LeavesBecomes, StageIs DEF Redelivered, Leaves
    <2>2. struck \subseteq struck' /\ struck' \in SUBSET Requests /\ t \in struck'
      BY <1>1, <1>7 DEF Redelivered
    <2>3. losses' \in 0..MaxLosses
      BY <1>1, <1>7 DEF Redelivered
    <2>4. UNCHANGED <<row, view, result, copy, touches>>
      BY <1>7 DEF Redelivered
    <2>5. QED
      BY <1>1, <2>1, <2>2, <2>3, <2>4, GoesInv
  <1>8. QED
    BY <1>2, <1>3, <1>4, <1>5, <1>6, <1>7 DEF Fault

LEMMA StepIInv == IInv /\ [Next]_aiVars => IInv'
  <1> SUFFICES ASSUME IInv, [Next]_aiVars PROVE IInv'
    OBVIOUS
  <1>1. ASSUME NEW r \in Requests, Ask(r) \/ Enqueue(r) \/ Mark(r) PROVE IInv'
    BY <1>1, ViewInv
  <1>2. ASSUME NEW t \in Requests, NEW i \in Sent(t), TaskStep(t, i) PROVE IInv'
    BY <1>2, TaskStepInv
  <1>3. ASSUME NEW t \in Requests, NEW i \in Sent(t), Fault(t, i) PROVE IInv'
    BY <1>3, FaultInv
  <1>4. CASE Reap \/ TenMinutesPass \/ OrderSaves \/ Archive
    BY <1>4, OthersType, OthersInv DEF IInv
  <1>5. ASSUME NEW e \in Editors, EditFetch(e) \/ EditSave(e) PROVE IInv'
    BY <1>5, EditorsType, OthersInv DEF IInv
  <1>6. CASE UNCHANGED aiVars
    BY <1>6 DEF aiVars, taskVars, IInv, TypeOK, MessageInv, Sent
  <1>7. QED
    BY <1>1, <1>2, <1>3, <1>4, <1>5, <1>6 DEF Next, WorkersGoOn

LEMMA Invariant == Spec => []IInv
  BY InitIInv, StepIInv, PTL DEF Spec

-----------------------------------------------------------------------------
(* Refinement of module Job.                                                *)

Polled == [t \in Requests |-> TaskStatus(t)]
SentNumbers == [t \in Requests |-> [i \in Sent(t) |-> msgs[t][i].retries]]

LEMMA JobVars ==
  /\ PolledJob!jobVars = <<Polled, SentNumbers, struck>>
  /\ UNCHANGED <<Polled, SentNumbers, struck>> => UNCHANGED PolledJob!jobVars
  BY DEF PolledJob!jobVars, Polled, SentNumbers

LEMMA SentLength ==
  ASSUME TypeOK, NEW t \in Requests
  PROVE  /\ SentNumbers[t] \in Seq(0..MaxRetries)
         /\ Len(SentNumbers[t]) = Len(msgs[t])
         /\ \A i \in Sent(t) : SentNumbers[t][i] = msgs[t][i].retries
  <1> DEFINE s == [i \in Sent(t) |-> msgs[t][i].retries]
  <1>1. /\ Len(msgs[t]) \in Nat /\ Sent(t) = 1..Len(msgs[t])
        /\ \A i \in Sent(t) : msgs[t][i] \in Message
    BY SentIs
  <1>2. \A i \in 1..Len(msgs[t]) : s[i] \in 0..MaxRetries
    BY <1>1 DEF Message
  <1>3. s \in Seq(0..MaxRetries) /\ Len(s) = Len(msgs[t])
    <2>1. s \in [1..Len(msgs[t]) -> 0..MaxRetries]
      BY <1>1, <1>2
    <2> HIDE DEF s
    <2>2. QED
      BY <1>1, <2>1
  <1>4. SentNumbers[t] = s
    BY DEF SentNumbers
  <1>5. QED
    BY <1>3, <1>4

\* A message that moves on sends nothing.
LEMMA BecomesSends ==
  ASSUME TypeOK, NEW t \in Requests, NEW i \in Sent(t), NEW m, Becomes(t, i, m)
  PROVE  SentNumbers' = SentNumbers
  <1>1. /\ \A x \in Requests : Sent(x)' = Sent(x)
        /\ \A x \in Requests : \A j \in Sent(x) : msgs'[x][j].retries = msgs[x][j].retries
    BY BecomesShape
  <1>2. \A x \in Requests :
          [j \in Sent(x) |-> msgs[x][j].retries]' = [j \in Sent(x) |-> msgs[x][j].retries]
    BY <1>1
  <1>3. QED
    BY <1>2 DEF SentNumbers

\* What the poll answers after a state is stored.
Shows(state) ==
  CASE state = "SUCCESS" -> "DONE" [] state = "FAILURE" -> "FAILED" [] OTHER -> "RETRYING"

LEMMA StoredShows ==
  ASSUME IInv, NEW t \in Requests, NEW state \in {"SUCCESS", "FAILURE", "RETRY"}, Stored(t, state)
  PROVE  \/ Polled' = Polled
         \/ Polled[t] # "DONE" /\ Polled' = [Polled EXCEPT ![t] = Shows(state)]
  <1>1. result \in [Requests -> ResultType]
    BY StateTypes
  <1>2. CASE result[t] = "SUCCESS"
    <2>1. result' = result
      BY <1>1, <1>2 DEF Stored
    <2>2. QED
      BY <2>1 DEF Polled, TaskStatus
  <1>3. CASE result[t] # "SUCCESS"
    <2>1. result' = [result EXCEPT ![t] = state]
      BY <1>3 DEF Stored
    <2>2. \A x \in Requests : x # t => TaskStatus(x)' = TaskStatus(x)
      BY <1>1, <2>1 DEF TaskStatus
    <2>3. TaskStatus(t)' = Shows(state)
      BY <1>1, <2>1 DEF TaskStatus, Shows
    <2>4. TaskStatus(t) # "DONE"
      BY <1>3 DEF TaskStatus
    <2>5. Polled' = [Polled EXCEPT ![t] = Shows(state)]
      BY <2>2, <2>3 DEF Polled
    <2>6. QED
      BY <2>4, <2>5 DEF Polled
  <1>4. QED
    BY <1>2, <1>3

\* Nothing is stored or sent.
LEMMA Stutters ==
  ASSUME IInv, NEW t \in Requests, NEW i \in Sent(t), NEW m, Becomes(t, i, m),
         UNCHANGED <<result, struck>>
  PROVE  UNCHANGED PolledJob!jobVars
  <1>1. Polled' = Polled
    BY DEF Polled, TaskStatus
  <1>2. SentNumbers' = SentNumbers
    BY BecomesSends DEF IInv
  <1>3. QED
    BY <1>1, <1>2, JobVars

LEMMA OthersStutter ==
  ASSUME UNCHANGED taskVars
  PROVE  UNCHANGED PolledJob!jobVars
  BY JobVars DEF taskVars, Polled, SentNumbers, TaskStatus, Sent

LEMMA EnqueueAttempts ==
  ASSUME IInv, NEW r \in Requests, Enqueue(r)
  PROVE  PolledJob!Attempt(r, 0) \/ UNCHANGED PolledJob!jobVars
  <1>1. CASE UNCHANGED msgs
    BY <1>1, OthersStutter DEF Enqueue, taskVars
  <1>2. CASE msgs' # msgs
    <2>1. /\ view[r] = "enqueue" /\ UNCHANGED <<result, struck>>
          /\ msgs' = [msgs EXCEPT ![r] = Append(@, NewMessage(0))]
      BY <1>2 DEF Enqueue
    <2>2. /\ msgs[r] = <<>> /\ msgs'[r] = <<NewMessage(0)>> /\ Sent(r)' = {1}
          /\ \A x \in Requests : x # r => msgs'[x] = msgs[x]
      BY <2>1, EnqueueSends
    <2>3. NewMessage(0).retries = 0
      BY NewMessageType
    <2>4. [i \in Sent(r) |-> msgs[r][i].retries] = <<>>
      BY <2>2 DEF Sent
    <2>5. [i \in Sent(r) |-> msgs[r][i].retries]' = <<0>>
      BY <2>2, <2>3
    <2>6. \A x \in Requests : x # r =>
            [i \in Sent(x) |-> msgs[x][i].retries]' = [i \in Sent(x) |-> msgs[x][i].retries]
      BY <2>2 DEF Sent
    <2>7. SentNumbers[r] = <<>> /\ SentNumbers' = [SentNumbers EXCEPT ![r] = Append(@, 0)]
      <3>1. SentNumbers[r] = <<>> /\ Append(SentNumbers[r], 0) = <<0>>
        <4>1. Append(<<>>, 0) = <<0>>
          OBVIOUS
        <4>2. SentNumbers[r] = <<>>
          BY <2>4 DEF SentNumbers
        <4>3. QED
          BY <4>1, <4>2
      <3>2. SentNumbers' = [SentNumbers EXCEPT ![r] = <<0>>]
        BY <2>5, <2>6 DEF SentNumbers
      <3>3. QED
        BY <3>1, <3>2
    <2>8. Polled' = Polled
      BY <2>1 DEF Polled, TaskStatus
    <2>9. PolledJob!Attempt(r, 0)
      BY <2>1, <2>7, <2>8 DEF PolledJob!Attempt, Polled, SentNumbers
    <2>10. QED
      BY <2>9
  <1>3. QED
    BY <1>1, <1>2

\* A retry is the next attempt, or the task was struck.
LEMMA RetryAttempts ==
  ASSUME IInv, NEW t \in Requests, NEW i \in Sent(t), Retry(t, i)
  PROVE  \E n \in 0..MaxRetries : PolledJob!Attempt(t, n)
  <1> DEFINE n == msgs[t][i].retries + 1
  <1>1. /\ msgs' \in [Requests -> Seq(Message)]
        /\ n \in 0..MaxRetries
        /\ Len(msgs'[t]) = Len(msgs[t]) + 1 /\ Sent(t)' = 1..(Len(msgs[t]) + 1)
        /\ msgs'[t][Len(msgs[t]) + 1] = NewMessage(n)
        /\ msgs'[t][i] = [msgs[t][i] EXCEPT !.at = "retried"]
        /\ \A j \in Sent(t) : j # i => msgs'[t][j] = msgs[t][j]
        /\ \A x \in Requests : x # t => msgs'[x] = msgs[x]
    BY RetrySends
  <1>2. /\ Len(msgs[t]) \in Nat /\ Sent(t) = 1..Len(msgs[t]) /\ msgs[t][i] \in Message
    BY SentIs DEF IInv
  <1>3. n = Len(msgs[t]) \/ t \in struck
    <2>1. SUFFICES ASSUME t \notin struck PROVE n = Len(msgs[t])
      OBVIOUS
    <2>2. /\ msgs[t][i].retries = i - 1
          /\ i < Len(msgs[t]) => msgs[t][i].at \in Settled
      BY <2>1 DEF IInv, MessageInv
    <2>3. msgs[t][i].at \notin Settled
      BY DEF Retry, Stands, Raised, Settled
    <2>4. QED
      BY <1>2, <2>2, <2>3
  <1>4. NewMessage(n).retries = n
    BY <1>1, NewMessageType
  <1>5. msgs'[t][i].retries = msgs[t][i].retries
    BY <1>1, <1>2 DEF Message
  <1> HIDE DEF n
  <1>6. \A j \in Sent(t) : msgs'[t][j].retries = msgs[t][j].retries
    BY <1>1, <1>5
  <1> DEFINE s == [j \in Sent(t) |-> msgs[t][j].retries]
             a == [j \in 1..(Len(msgs[t]) + 1) |-> IF j \in Sent(t) THEN msgs[t][j].retries ELSE n]
  <1>7. s \in Seq(0..MaxRetries) /\ Len(s) = Len(msgs[t]) /\ SentNumbers[t] = s
    BY SentLength DEF IInv, SentNumbers
  <1>8. Append(s, n) = a
    <2>1. /\ Append(s, n) \in Seq(0..MaxRetries) /\ Len(Append(s, n)) = Len(msgs[t]) + 1
          /\ \A j \in 1..Len(msgs[t]) : Append(s, n)[j] = s[j]
          /\ Append(s, n)[Len(msgs[t]) + 1] = n
      BY <1>1, <1>7, AppendProperties
    <2>2. Append(s, n) = [j \in 1..(Len(msgs[t]) + 1) |-> Append(s, n)[j]]
      BY <1>2, <2>1
    <2>3. \A j \in 1..(Len(msgs[t]) + 1) : Append(s, n)[j] = a[j]
      BY <1>2, <2>1
    <2>4. QED
      BY <2>2, <2>3
  <1>9. [j \in Sent(t) |-> msgs[t][j].retries]' = a
    <2>1. \A j \in Sent(t)' : msgs'[t][j].retries = a[j]
      BY <1>1, <1>2, <1>4, <1>6
    <2>2. QED
      BY <1>1, <2>1
  <1>10. \A x \in Requests : x # t =>
           [j \in Sent(x) |-> msgs[x][j].retries]' = [j \in Sent(x) |-> msgs[x][j].retries]
    BY <1>1 DEF Sent
  <1> HIDE DEF s, a
  <1>11. SentNumbers' = [SentNumbers EXCEPT ![t] = Append(@, n)]
    <2>1. SentNumbers' = [SentNumbers EXCEPT ![t] = a]
      BY <1>9, <1>10 DEF SentNumbers
    <2>2. QED
      BY <1>7, <1>8, <2>1
  <1>12. Polled' = Polled /\ UNCHANGED struck
    BY DEF Retry, Polled, TaskStatus
  <1>13. n = Len(SentNumbers[t]) \/ t \in struck
    BY <1>3, <1>7
  <1>14. PolledJob!Attempt(t, n)
    BY <1>11, <1>12, <1>13 DEF PolledJob!Attempt, Polled, SentNumbers
  <1>15. QED
    BY <1>1, <1>14 DEF PolledJob!Attempt

LEMMA StoreAnswers ==
  ASSUME IInv, NEW t \in Requests, NEW i \in Sent(t), Store(t, i)
  PROVE  PolledJob!Answer(t) \/ UNCHANGED PolledJob!jobVars
  <1>1. PICK m : Becomes(t, i, m)
    BY GoesBecomes, StageIs, StateTypes DEF Store
  <1>2. SentNumbers' = SentNumbers /\ UNCHANGED struck
    BY <1>1, BecomesSends DEF IInv, Store
  <1>3. PICK state \in {"SUCCESS", "FAILURE", "RETRY"} :
          /\ Stored(t, state)
          /\ state = "FAILURE" => Stands(t, i, Raised) /\ LastAttempt(t, i)
          /\ state = "RETRY" => msgs[t][i].at = "retried"
    BY DEF Store, Stands
  <1>4. CASE Polled' = Polled
    BY <1>2, <1>4, JobVars
  <1>5. CASE Polled[t] # "DONE" /\ Polled' = [Polled EXCEPT ![t] = Shows(state)]
    <2>1. /\ Len(msgs[t]) \in Nat /\ Sent(t) = 1..Len(msgs[t]) /\ msgs[t][i] \in Message
      BY SentIs DEF IInv
    <2>2. Len(SentNumbers[t]) = Len(msgs[t]) /\ SentNumbers[t] \in Seq(0..MaxRetries)
      BY SentLength DEF IInv
    <2>3. SentNumbers[t] # <<>>
      BY <2>1, <2>2
    <2>4. state = "RETRY" => Len(SentNumbers[t]) > 1
      BY <1>3, <2>2 DEF IInv, MessageInv
    <2>5. state = "FAILURE" /\ t \notin struck => Len(SentNumbers[t]) = 1 + MaxRetries
      <3>1. SUFFICES ASSUME state = "FAILURE", t \notin struck
                     PROVE  Len(msgs[t]) = 1 + MaxRetries
        BY <2>2
      <3>2. msgs[t][i].at \notin Settled /\ msgs[t][i].retries = MaxRetries
        BY <1>3, <2>1, <3>1 DEF Stands, Raised, Settled, LastAttempt, Message
      <3>3. msgs[t][i].retries = i - 1 /\ (i < Len(msgs[t]) => msgs[t][i].at \in Settled)
        BY <3>1 DEF IInv, MessageInv
      <3>4. QED
        BY <2>1, <3>2, <3>3
    <2>6. Shows(state) \in PolledJob!Answers(t)
      BY <2>4, <2>5 DEF Shows, PolledJob!Answers, SentNumbers
    <2>7. PolledJob!Answer(t)
      BY <1>2, <1>5, <2>3, <2>6 DEF PolledJob!Answer, Polled, SentNumbers
    <2>8. QED
      BY <2>7
  <1>6. QED
    BY <1>3, <1>4, <1>5, StoredShows

LEMMA FaultIsAccident ==
  ASSUME IInv, NEW t \in Requests, NEW i \in Sent(t), Killed(t, i) \/ Redelivered(t, i)
  PROVE  PolledJob!Accident(t)
  <1>1. PICK m : Becomes(t, i, m)
    <2>1. \E to \in Stage : Leaves(t, i, to)
      BY StageIs DEF Killed, Redelivered
    <2>2. "none" \in Text
      BY DEF Text
    <2>3. QED
      BY <2>1, <2>2, LeavesBecomes, StateTypes DEF Leaves
  <1>2. SentNumbers' = SentNumbers /\ struck' = struck \cup {t}
    BY <1>1, BecomesSends DEF IInv, Killed, Redelivered
  <1>3. SentNumbers[t] # <<>>
    <2>1. Len(SentNumbers[t]) = Len(msgs[t]) /\ SentNumbers[t] \in Seq(0..MaxRetries)
      BY SentLength DEF IInv
    <2>2. Len(msgs[t]) \in Nat /\ Sent(t) = 1..Len(msgs[t])
      BY SentIs DEF IInv
    <2>3. QED
      BY <2>1, <2>2
  <1>4. Polled' = Polled \/ (Polled[t] # "DONE" /\ Polled' = [Polled EXCEPT ![t] = "FAILED"])
    <2>1. CASE UNCHANGED result
      BY <2>1 DEF Polled, TaskStatus
    <2>2. CASE Stored(t, "FAILURE")
      BY <2>2, StoredShows DEF Shows
    <2>3. QED
      BY <2>1, <2>2 DEF Killed, Redelivered
  <1>5. QED
    BY <1>2, <1>3, <1>4 DEF PolledJob!Accident, Polled, SentNumbers

LEMMA InitJob == Init => PolledJob!Init
  <1> SUFFICES ASSUME Init PROVE PolledJob!Init
    OBVIOUS
  <1>1. \A t \in Requests : TaskStatus(t) = "PENDING"
    BY DEF Init, TaskStatus
  <1>2. \A t \in Requests : [i \in Sent(t) |-> msgs[t][i].retries] = <<>>
    BY DEF Init, Sent
  <1>3. QED
    BY <1>1, <1>2 DEF Init, PolledJob!Init

\* Steps that move a message on and store nothing.
LEMMA QuietSteps ==
  ASSUME IInv, NEW t \in Requests, NEW i \in Sent(t),
         \/ Take(t, i) \/ Read(t, i) \/ Claim(t, i) \/ Generate(t, i) \/ Save(t, i)
         \/ Handle(t, i) \/ Acknowledge(t, i) \/ SoftTimeLimit(t, i) \/ Error(t, i)
         \/ HandlerFails(t, i) \/ RetryRefused(t, i)
  PROVE  UNCHANGED PolledJob!jobVars
  <1>1. "none" \in Text
    BY DEF Text
  <1>2. \/ \E to \in Stage : Goes(t, i, to)
        \/ \E to \in Stage, text \in Text : msgs' = [msgs EXCEPT ![t][i].at = to, ![t][i].found = text]
    <2>1. CASE Take(t, i) \/ Claim(t, i)
      BY <2>1, StageIs DEF Take, Claim
    <2>2. CASE Read(t, i)
      BY <2>2, StageIs DEF Read
    <2>3. CASE Handle(t, i)
      BY <2>3, StageIs DEF Handle
    <2>4. CASE Acknowledge(t, i) \/ HandlerFails(t, i) \/ RetryRefused(t, i)
      BY <2>4, StageIs DEF Acknowledge, HandlerFails, RetryRefused
    <2>5. CASE Generate(t, i)
      BY <2>5, StageIs DEF Generate
    <2>6. CASE Save(t, i)
      BY <1>1, <2>6, StageIs DEF Save, Leaves
    <2>7. CASE SoftTimeLimit(t, i)
      BY <1>1, <2>7, StageIs DEF SoftTimeLimit, Leaves
    <2>8. CASE Error(t, i)
      BY <1>1, <2>8, StageIs DEF Error, Leaves
    <2>9. QED
      BY <2>1, <2>2, <2>3, <2>4, <2>5, <2>6, <2>7, <2>8
  <1>3. PICK m : Becomes(t, i, m)
    BY <1>2, GoesBecomes, LeavesBecomes, StateTypes
  <1>4. UNCHANGED <<result, struck>>
    BY DEF Take, Read, Claim, Generate, Save, Handle, Acknowledge, SoftTimeLimit, Error,
           HandlerFails, RetryRefused
  <1>5. QED
    BY <1>3, <1>4, Stutters

LEMMA StepJob == IInv /\ [Next]_aiVars => [PolledJob!Next]_PolledJob!jobVars
  <1> SUFFICES ASSUME IInv, [Next]_aiVars PROVE PolledJob!Next \/ UNCHANGED PolledJob!jobVars
    OBVIOUS
  <1>1. ASSUME NEW r \in Requests, Ask(r) \/ Mark(r) PROVE UNCHANGED PolledJob!jobVars
    BY <1>1, OthersStutter DEF Ask, Mark
  <1>2. ASSUME NEW r \in Requests, Enqueue(r) PROVE PolledJob!Next \/ UNCHANGED PolledJob!jobVars
    BY <1>2, EnqueueAttempts DEF PolledJob!Next
  <1>3. ASSUME NEW t \in Requests, NEW i \in Sent(t), TaskStep(t, i)
        PROVE PolledJob!Next \/ UNCHANGED PolledJob!jobVars
    BY <1>3, QuietSteps, RetryAttempts, StoreAnswers DEF TaskStep, PolledJob!Next
  <1>4. ASSUME NEW t \in Requests, NEW i \in Sent(t), Fault(t, i)
        PROVE PolledJob!Next \/ UNCHANGED PolledJob!jobVars
    BY <1>4, QuietSteps, FaultIsAccident DEF Fault, PolledJob!Next
  <1>5. CASE Reap \/ TenMinutesPass \/ OrderSaves \/ Archive
    BY <1>5, OthersStutter DEF Reap, TenMinutesPass, OrderSaves, Archive
  <1>6. ASSUME NEW e \in Editors, EditFetch(e) \/ EditSave(e) PROVE UNCHANGED PolledJob!jobVars
    BY <1>6, OthersStutter DEF EditFetch, EditSave
  <1>7. CASE UNCHANGED aiVars
    BY <1>7, OthersStutter DEF aiVars, taskVars
  <1>8. QED
    BY <1>1, <1>2, <1>3, <1>4, <1>5, <1>6, <1>7 DEF Next, WorkersGoOn

\* The poll of each task is the life of a job: attempts in order, at most
\* max_retries after the first unless something died under the task, and DONE
\* final (products/tasks.py:10-18, products/views.py:395-414).
THEOREM PollIsAJob == Spec => PollFollowsJob
  BY Invariant, InitJob, StepJob, PTL DEF Spec, PollFollowsJob, PolledJob!Spec

-----------------------------------------------------------------------------
(* Attempts that end PROCESSING.                                            *)

LEMMA StaysResponsible ==
  ASSUME NEW t \in Requests, NEW i \in Sent(t)', msgs'[t][i] = msgs[t][i], Responsible(t, i)
  PROVE  SomeoneResponsible'
  BY DEF Responsible, SomeoneResponsible, LastAttempt

\* A message that another message's step leaves alone.
LEMMA OtherResponsible ==
  ASSUME TypeOK, NEW t \in Requests, NEW i \in Sent(t), Responsible(t, i),
         NEW u \in Requests, NEW j \in Sent(u), NEW m, Becomes(u, j, m), u # t \/ j # i
  PROVE  SomeoneResponsible'
  <1>1. i \in Sent(t)' /\ msgs'[t][i] = msgs[t][i]
    BY BecomesShape
  <1>2. QED
    BY <1>1, StaysResponsible

\* The message itself, when it is still responsible after its step.
LEMMA SelfResponsible ==
  ASSUME TypeOK, NEW t \in Requests, NEW i \in Sent(t), NEW m, Becomes(t, i, m),
         \/ m.at \in {"queued", "generate"} \cup AtStatement \cup Handling
         \/ m.at \in Raised /\ ~LastAttempt(t, i)
  PROVE  SomeoneResponsible'
  <1>1. Sent(t)' = Sent(t) /\ msgs'[t][i] = m
    BY BecomesShape
  <1>2. m.retries = msgs[t][i].retries
    BY DEF Becomes
  <1>3. Responsible(t, i)'
    BY <1>1, <1>2 DEF Responsible, LastAttempt
  <1>4. QED
    BY <1>1, <1>3 DEF SomeoneResponsible

LEMMA RetryResponsible ==
  ASSUME IInv, NEW t \in Requests, NEW i \in Sent(t), Retry(t, i)
  PROVE  SomeoneResponsible'
  <1> DEFINE k == Len(msgs[t]) + 1
  <1>1. /\ msgs[t][i].retries + 1 \in 0..MaxRetries
        /\ Sent(t)' = 1..k
        /\ msgs'[t][k] = NewMessage(msgs[t][i].retries + 1)
    BY RetrySends
  <1>2. msgs'[t][k].at = "queued"
    BY <1>1, NewMessageType
  <1>3. k \in Sent(t)'
    BY <1>1, SentIs DEF IInv
  <1>4. QED
    BY <1>2, <1>3 DEF SomeoneResponsible, Responsible

\* The step of one attempt, another being responsible or itself.
LEMMA AttemptLeaves ==
  ASSUME IInv, ~row.deleted, NEW t \in Requests, NEW i \in Sent(t), Responsible(t, i),
         NEW u \in Requests, NEW j \in Sent(u), TaskStep(u, j) \/ Fault(u, j),
         ~HandlerFails(u, j), ~RetryRefused(u, j), ~Killed(u, j)
  PROVE  SomeoneResponsible' \/ row'.status # "PROCESSING"
  <1>1. TypeOK /\ row \in RowType /\ "none" \in Text
    BY StateTypes DEF Text
  <1>2. CASE Retry(u, j)
    BY <1>2, RetryResponsible
  <1>3. CASE Take(u, j) \/ Claim(u, j)
    <2>1. PICK m : Becomes(u, j, m) /\ m.at \in {"read", "generate"}
      BY <1>1, <1>3, GoesBecomes, StageIs DEF Take, Claim
    <2>2. QED
      BY <1>1, <2>1, SelfResponsible DEF AtStatement
  <1>4. CASE Read(u, j) /\ row.status # "DONE"
    <2>1. PICK m : Becomes(u, j, m) /\ m.at = "claim"
      BY <1>1, <1>4, GoesBecomes, StageIs DEF Read
    <2>2. QED
      BY <1>1, <2>1, SelfResponsible DEF AtStatement
  <1>5. CASE Read(u, j) /\ row.status = "DONE"
    BY <1>5 DEF Read
  <1>6. CASE Generate(u, j)
    <2>1. PICK text \in Text : msgs' = [msgs EXCEPT ![u][j].at = "save", ![u][j].found = text]
      BY <1>6 DEF Generate
    <2>2. "save" \in Stage
      BY StageIs
    <2>3. PICK m : Becomes(u, j, m) /\ m.at = "save"
      BY <1>1, <2>1, <2>2, LeavesBecomes
    <2>4. QED
      BY <1>1, <2>3, SelfResponsible DEF AtStatement
  <1>7. CASE Save(u, j)
    BY <1>1, <1>7 DEF Save, RowType
  <1>8. CASE Handle(u, j) /\ Stands(u, j, {"timeout"})
    BY <1>1, <1>8 DEF Handle, Stands, MarkFailed, Marked, RowType
  <1>9. CASE Handle(u, j) /\ Stands(u, j, {"handler"}) /\ LastAttempt(u, j)
    BY <1>1, <1>9 DEF Handle, Stands, RecordsFailure, MarkFailed, Marked, RowType
  <1>10. CASE Handle(u, j) /\ Stands(u, j, {"handler"}) /\ ~LastAttempt(u, j)
    <2>1. Goes(u, j, "raised")
      BY <1>10 DEF Handle, Stands
    <2>2. PICK m : Becomes(u, j, m) /\ m.at = "raised"
      BY <1>1, <2>1, GoesBecomes, StageIs
    <2>3. QED
      BY <1>1, <1>10, <2>2, SelfResponsible DEF Raised
  <1>11. CASE Store(u, j) \/ Acknowledge(u, j)
    <2>1. PICK m : Becomes(u, j, m)
      BY <1>1, <1>11, GoesBecomes, StageIs DEF Store, Acknowledge
    <2>2. ~Responsible(u, j)
      BY <1>11 DEF Store, Acknowledge, Stands, Responsible, AtStatement, Handling, Raised
    <2>3. u # t \/ j # i
      BY <2>2
    <2>4. QED
      BY <1>1, <2>1, <2>3, OtherResponsible
  <1>12. CASE SoftTimeLimit(u, j)
    <2>1. PICK m : Becomes(u, j, m) /\ m.at = "timeout"
      BY <1>1, <1>12, LeavesTo, StageIs DEF SoftTimeLimit
    <2>2. QED
      BY <1>1, <2>1, SelfResponsible DEF Handling
  <1>13. CASE Error(u, j)
    <2>1. PICK m : Becomes(u, j, m) /\ m.at = "handler"
      BY <1>1, <1>13, LeavesTo, StageIs DEF Error
    <2>2. QED
      BY <1>1, <2>1, SelfResponsible DEF Handling
  <1>14. CASE Redelivered(u, j)
    <2>1. PICK m : Becomes(u, j, m) /\ m.at = "queued"
      BY <1>1, <1>14, LeavesTo, StageIs DEF Redelivered
    <2>2. QED
      BY <1>1, <2>1, SelfResponsible
  <1>15. Handle(u, j) => Stands(u, j, {"timeout"}) \/ Stands(u, j, {"handler"})
    BY DEF Handle
  <1>16. QED
    BY <1>2, <1>3, <1>4, <1>5, <1>6, <1>7, <1>8, <1>9, <1>10, <1>11, <1>12, <1>13, <1>14, <1>15
       DEF TaskStep, Fault

\* Steps that touch no message of a task leave its attempts responsible.
LEMMA OthersLeave ==
  ASSUME IInv, NEW t \in Requests, NEW i \in Sent(t), Responsible(t, i),
         \/ \E r \in Requests : Ask(r) \/ Enqueue(r) \/ Mark(r)
         \/ Reap \/ TenMinutesPass \/ OrderSaves \/ Archive
         \/ \E e \in Editors : EditFetch(e) \/ EditSave(e)
  PROVE  SomeoneResponsible'
  <1>1. CASE UNCHANGED msgs
    <2>1. i \in Sent(t)' /\ msgs'[t][i] = msgs[t][i]
      BY <1>1 DEF Sent
    <2>2. QED
      BY <2>1, StaysResponsible
  <1>2. CASE msgs' # msgs
    <2>1. PICK r \in Requests : Enqueue(r)
      BY <1>2 DEF Ask, Mark, Reap, TenMinutesPass, OrderSaves, Archive, EditFetch, EditSave, taskVars
    <2>2. view[r] = "enqueue" /\ msgs' = [msgs EXCEPT ![r] = Append(@, NewMessage(0))]
      BY <1>2, <2>1 DEF Enqueue
    <2>3. msgs[r] = <<>> /\ \A x \in Requests : x # r => msgs'[x] = msgs[x]
      BY <2>2, EnqueueSends
    <2>4. r # t
      BY <2>3, SentIs DEF IInv
    <2>5. i \in Sent(t)' /\ msgs'[t][i] = msgs[t][i]
      BY <2>3, <2>4 DEF Sent
    <2>6. QED
      BY <2>5, StaysResponsible
  <1>3. QED
    BY <1>1, <1>2

\* No attempt leaves the product PROCESSING behind it, unless the handler's own
\* statement, the broker or the process failed (tasks.py:22-49).
THEOREM FailuresAreRecorded == Spec => LeavesNoneProcessing
  <1>1. ASSUME IInv, [Next]_aiVars
        PROVE [SomeoneResponsible /\ ~SomeoneResponsible' /\ ~row.deleted =>
                 \/ row'.status # "PROCESSING"
                 \/ \E t \in Requests : \E i \in Sent(t) :
                      HandlerFails(t, i) \/ RetryRefused(t, i) \/ Killed(t, i)]_aiVars
    <2> SUFFICES ASSUME Next, SomeoneResponsible, ~row.deleted,
                        \A t \in Requests : \A i \in Sent(t) :
                          ~HandlerFails(t, i) /\ ~RetryRefused(t, i) /\ ~Killed(t, i)
                 PROVE  SomeoneResponsible' \/ row'.status # "PROCESSING"
      BY <1>1
    <2>1. PICK t \in Requests : \E i \in Sent(t) : Responsible(t, i)
      BY DEF SomeoneResponsible
    <2>2. PICK i \in Sent(t) : Responsible(t, i)
      BY <2>1
    <2>3. ASSUME NEW u \in Requests, NEW j \in Sent(u), TaskStep(u, j) \/ Fault(u, j)
          PROVE  SomeoneResponsible' \/ row'.status # "PROCESSING"
      BY <1>1, <2>2, <2>3, AttemptLeaves
    <2>4. CASE \/ \E r \in Requests : Ask(r) \/ Enqueue(r) \/ Mark(r)
               \/ Reap \/ TenMinutesPass \/ OrderSaves \/ Archive
               \/ \E e \in Editors : EditFetch(e) \/ EditSave(e)
      BY <1>1, <2>2, <2>4, OthersLeave
    <2>5. QED
      BY <2>3, <2>4 DEF Next, WorkersGoOn
  <1>2. QED
    BY <1>1, Invariant, PTL DEF Spec, LeavesNoneProcessing

-----------------------------------------------------------------------------
(* Module Moderation.                                                       *)

\* What a request may be about to do, given what it decided.
DoingOk(w) ==
  /\ w.at = "idle" <=> w.decision = "none"
  /\ w.at = "images" => w.decision \in Approving
  /\ w.at \in {"images", "product", "records", "review"} => w.decision \in ProductDecisions
  /\ w.at = "record" => w.decision \in ImageDecisions
  /\ w.at \in {"record", "image"} => w.image \in Images
  /\ w.at \in {"image", "look", "count", "publish"} => w.decision = "APPROVED"
  /\ w.at = "count" => w.status \in ProductStatus
  /\ w.at = "publish" => w.status = "REJECTED"

Approves(a) == doing[a].decision \in Approving

\* A request that decided about the whole product and has the records or the
\* review to settle.
Settling(a) == doing[a].at \in {"records", "review"}

\* Nothing happened that excuses a product left REJECTED.
Clean == ~rejected /\ ~missed /\ ~undone /\ ~died

\* Nothing happened that excuses a review the product contradicts.
Plain == ~opposed /\ ~missed /\ ~undone

\* LastApprovalPublishes, and why an approval that ends leaves it true: a review
\* that approves has published the product, and an approval of an image that
\* saw the product published needs not publish it.
PublishInv ==
  /\ LastApprovalPublishes
  /\ Clean => \A a \in Moderators :
       \/ Settling(a) /\ Approves(a)
       \/ At(a, "count") /\ doing[a].status # "REJECTED"
       => product.status # "REJECTED"

\* Who has settled a review leaves no record to decide about, and who decides
\* about one has fetched it.
RecordsInv ==
  /\ review # "PENDING" \/ (\E a \in Moderators : At(a, "review")) =>
       \A i \in Images : records[i] # "PENDING"
  /\ \A a \in Moderators : At(a, "record") => records[doing[a].image] # "none"

\* Requests under way agree, with each other and with a settled review.
AgreeInv ==
  ~opposed =>
    /\ \A a, b \in Moderators :
         ~At(a, "idle") /\ ~At(b, "idle") => (Approves(a) <=> Approves(b))
    /\ review # "PENDING" =>
         \A a \in Moderators : ~At(a, "idle") => (Approves(a) <=> review \in Approving)

\* The product does not contradict a decision that was applied to it.
ProductInv ==
  /\ ReviewAndProductAgree
  /\ Plain => \A a \in Moderators : Settling(a) =>
       product.status # (IF Approves(a) THEN "REJECTED" ELSE "AVAILABLE")

\* The inductive invariant.
ModInv ==
  /\ ModTypeOK
  /\ \A a \in Moderators : DoingOk(doing[a])
  /\ PublishInv
  /\ RecordsInv
  /\ AgreeInv
  /\ ProductInv

LEMMA IdleOk == Idle \in Task /\ DoingOk(Idle)
  BY DEF Idle, Task, DoingOk, Stages, ProductDecisions, ImageDecisions, Approving

LEMMA InitModInv == ModInit => ModInv
  <1> SUFFICES ASSUME ModInit PROVE ModInv
    OBVIOUS
  <1>1. ModTypeOK
    <2>1. doing \in [Moderators -> Task]
      BY IdleOk DEF ModInit
    <2>2. /\ records \in [Images -> RecordStatus]
          /\ \A i \in Images : records[i] # "none" => images[i] # "none"
      BY DEF ModInit, RecordStatus
    <2>3. /\ draft \in {"none"} \cup ProductStatus
          /\ edits \in 0..MaxEdits
          /\ product \in [status: ProductStatus, deleted: BOOLEAN]
      BY EditsAssumption DEF ModInit, ProductStatus
    <2>4. QED
      BY <2>1, <2>2, <2>3 DEF ModInit, ModTypeOK
  <1>2. \A a \in Moderators : doing[a] = Idle
    BY DEF ModInit
  <1>3. \A a \in Moderators : DoingOk(doing[a])
    BY <1>2, IdleOk
  <1>4. PublishInv /\ RecordsInv /\ AgreeInv /\ ProductInv
    BY <1>2 DEF ModInit, PublishInv, RecordsInv, AgreeInv, ProductInv, LastApprovalPublishes,
                ReviewAndProductAgree, At, Settling, Idle, Approving
  <1>5. QED
    BY <1>1, <1>3, <1>4 DEF ModInv

\* A step that starts, moves or ends one request with something that it may do.
LEMMA OneMoves ==
  ASSUME ModInv, NEW a \in Moderators, NEW w \in Task, DoingOk(w),
         doing' = [doing EXCEPT ![a] = w]
  PROVE  /\ doing' \in [Moderators -> Task]
         /\ \A b \in Moderators : DoingOk(doing[b])'
         /\ doing'[a] = w
         /\ \A b \in Moderators \ {a} : doing'[b] = doing[b]
  BY DEF ModInv, ModTypeOK, DoingOk

\* No request moves: what is said of requests under way is as it was.
LEMMA NoneMoves ==
  ASSUME ModInv, UNCHANGED doing
  PROVE  /\ doing' \in [Moderators -> Task]
         /\ \A b \in Moderators : DoingOk(doing[b])'
  BY DEF ModInv, ModTypeOK, DoingOk

\* A request goes on with what it decided.
LEMMA GoesOnOk ==
  ASSUME ModInv, NEW a \in Moderators, NEW stage \in Stages, GoesOn(a, stage)
  PROVE  /\ [doing[a] EXCEPT !.at = stage] \in Task
         /\ doing' = [doing EXCEPT ![a] = [doing[a] EXCEPT !.at = stage]]
  BY DEF ModInv, ModTypeOK, GoesOn, Task

-----------------------------------------------------------------------------
(* One lemma for each operation of Moderation.                              *)

\* Who begins disagrees with somebody only if history notes it, and does not
\* begin when the review is settled.
LEMMA BeginsInv ==
  ASSUME ModInv, NEW a \in Moderators, NEW stage \in {"images", "product", "record"},
         NEW d \in Decisions, NEW i \in Images \cup {NoImage}, Begins(a, stage, d, i),
         review = "PENDING",
         DoingOk([at |-> stage, decision |-> d, image |-> i, status |-> "none"]),
         stage = "record" => records[i] # "none"
  PROVE  ModInv'
  <1> DEFINE w == [at |-> stage, decision |-> d, image |-> i, status |-> "none"]
  <1>1. w \in Task
    BY DEF Task, Stages
  <1>2. doing' = [doing EXCEPT ![a] = w]
    BY DEF Begins
  <1>3. /\ doing' \in [Moderators -> Task]
        /\ \A b \in Moderators : DoingOk(doing[b])'
        /\ doing'[a] = w
        /\ \A b \in Moderators \ {a} : doing'[b] = doing[b]
    BY <1>1, <1>2, OneMoves
  <1>4. ModTypeOK'
    BY <1>3 DEF ModInv, ModTypeOK, Begins
  <1>5. PublishInv'
    <2>1. ASSUME InFlight(Approving) PROVE InFlight(Approving)'
      <3>1. PICK b \in Moderators : doing[b].decision \in Approving
        BY <2>1 DEF InFlight
      <3>2. b # a
        BY <3>1 DEF Begins, At, ModInv, DoingOk, Approving
      <3>3. QED
        BY <1>3, <3>1, <3>2 DEF InFlight
    <2>2. LastApprovalPublishes'
      BY <2>1 DEF ModInv, PublishInv, LastApprovalPublishes, Begins
    <2>3. QED
      BY <1>3, <2>2 DEF ModInv, PublishInv, Clean, Settling, Approves, At, Begins
  <1>6. RecordsInv'
    BY <1>3 DEF ModInv, RecordsInv, At, Begins
  <1>7. AgreeInv'
    <2>1. SUFFICES ASSUME ~opposed', NEW b \in Moderators, NEW c \in Moderators,
                          ~At(b, "idle")', ~At(c, "idle")'
                   PROVE  (Approves(b) <=> Approves(c))'
      BY DEF AgreeInv, Begins
    <2>2. ASSUME NEW x \in Moderators, x # a, ~At(x, "idle")'
          PROVE  ~At(x, "idle") /\ (Approves(x)' <=> Approves(x)) /\ (Approves(x) <=> d \in Approving)
      BY <1>3, <2>1, <2>2 DEF Begins, At, Approves
    <2>3. Approves(a)' <=> d \in Approving
      BY <1>3 DEF Approves
    <2>4. QED
      BY <2>1, <2>2, <2>3
  <1>8. ProductInv'
    BY <1>3 DEF ModInv, ProductInv, ReviewAndProductAgree, Plain, Settling, Approves, Begins
  <1>9. QED
    BY <1>3, <1>4, <1>5, <1>6, <1>7, <1>8 DEF ModInv

LEMMA ReviewFetchInv ==
  ASSUME ModInv, NEW a \in Moderators, NEW d \in ProductDecisions, ReviewFetch(a, d)
  PROVE  ModInv'
  <1> DEFINE stage == IF d \in Approving THEN "images" ELSE "product"
  <1>1. DoingOk([at |-> stage, decision |-> d, image |-> NoImage, status |-> "none"])
    BY DEF DoingOk, ProductDecisions
  <1>2. stage \in {"images", "product", "record"} /\ stage # "record"
    OBVIOUS
  <1>3. QED
    BY <1>1, <1>2, BeginsInv DEF ReviewFetch, Decisions

LEMMA ImageFetchInv ==
  ASSUME ModInv, NEW a \in Moderators, NEW i \in Images, NEW d \in ImageDecisions,
         ImageFetch(a, i, d)
  PROVE  ModInv'
  <1>1. DoingOk([at |-> "record", decision |-> d, image |-> i, status |-> "none"])
    BY DEF DoingOk, ImageDecisions
  <1>2. review = "PENDING"
    BY DEF ModInv, RecordsInv, ImageFetch
  <1>3. QED
    BY <1>1, <1>2, BeginsInv DEF ImageFetch, Decisions

\* A request that goes on keeps its decision, one that ends decides no more: who
\* agreed still agrees, also with a review that one of them settles.
LEMMA AgreeStays ==
  ASSUME ModInv, NEW a \in Moderators, ~At(a, "idle"), NEW w,
         w.at = "idle" \/ w.decision = doing[a].decision,
         doing'[a] = w, \A b \in Moderators \ {a} : doing'[b] = doing[b],
         review' \in {review, doing[a].decision}, UNCHANGED opposed
  PROVE  AgreeInv'
  <1>1. \A b \in Moderators : ~At(b, "idle")' => ~At(b, "idle") /\ (Approves(b)' <=> Approves(b))
    BY DEF At, Approves
  <1>2. QED
    BY <1>1 DEF ModInv, AgreeInv, Approves

\* A request that goes on with what it decided.
LEMMA GoesOnStays ==
  ASSUME ModInv, NEW a \in Moderators, ~At(a, "idle"), NEW stage \in Stages, GoesOn(a, stage),
         DoingOk([doing[a] EXCEPT !.at = stage]), review' = review, UNCHANGED opposed
  PROVE  /\ doing' \in [Moderators -> Task]
         /\ \A b \in Moderators : DoingOk(doing[b])'
         /\ doing'[a] = [doing[a] EXCEPT !.at = stage]
         /\ \A b \in Moderators \ {a} : doing'[b] = doing[b]
         /\ \A b \in Moderators : Approves(b)' <=> Approves(b)
         /\ InFlight(Approving)' <=> InFlight(Approving)
         /\ AgreeInv'
  <1> DEFINE w == [doing[a] EXCEPT !.at = stage]
  <1>1. /\ w \in Task
        /\ doing' = [doing EXCEPT ![a] = w]
    BY GoesOnOk
  <1>2. w.decision = doing[a].decision
    BY DEF ModInv, ModTypeOK, Task
  <1>3. /\ doing' \in [Moderators -> Task]
        /\ \A b \in Moderators : DoingOk(doing[b])'
        /\ doing'[a] = w
        /\ \A b \in Moderators \ {a} : doing'[b] = doing[b]
    BY <1>1, OneMoves
  <1>4. AgreeInv'
    BY <1>2, <1>3, AgreeStays
  <1>5. \A b \in Moderators : Approves(b)' <=> Approves(b)
    BY <1>2, <1>3 DEF Approves
  <1>6. QED
    BY <1>3, <1>4, <1>5 DEF InFlight, Approves

\* A request that ends.
LEMMA DoneStays ==
  ASSUME ModInv, NEW a \in Moderators, ~At(a, "idle"), Done(a),
         review' \in {review, doing[a].decision}, UNCHANGED opposed
  PROVE  /\ doing' \in [Moderators -> Task]
         /\ \A b \in Moderators : DoingOk(doing[b])'
         /\ doing'[a] = Idle
         /\ \A b \in Moderators \ {a} : doing'[b] = doing[b]
         /\ ~Approves(a) /\ InFlight(Approving) => InFlight(Approving)'
         /\ AgreeInv'
  <1>1. /\ doing' \in [Moderators -> Task]
        /\ \A b \in Moderators : DoingOk(doing[b])'
        /\ doing'[a] = Idle
        /\ \A b \in Moderators \ {a} : doing'[b] = doing[b]
    BY IdleOk, OneMoves DEF Done
  <1>2. Idle.at = "idle"
    BY DEF Idle
  <1>3. AgreeInv'
    BY <1>1, <1>2, AgreeStays
  <1>4. QED
    BY <1>1, <1>3 DEF InFlight, Approves

LEMMA ApproveImagesInv ==
  ASSUME ModInv, NEW a \in Moderators, ApproveImages(a)
  PROVE  ModInv'
  <1> DEFINE w == [doing[a] EXCEPT !.at = "product"]
  <1>1. w \in Task /\ DoingOk(w) /\ "product" \in Stages /\ ~At(a, "idle") /\ Approves(a)
    BY DEF ModInv, ModTypeOK, DoingOk, Task, At, ApproveImages, Stages, Approves, ImageDecisions
  <1>2. /\ doing' \in [Moderators -> Task]
        /\ \A b \in Moderators : DoingOk(doing[b])'
        /\ doing'[a] = w
        /\ \A b \in Moderators \ {a} : doing'[b] = doing[b]
        /\ \A b \in Moderators : Approves(b)' <=> Approves(b)
        /\ AgreeInv'
    BY <1>1, GoesOnStays DEF ApproveImages, history
  <1>3. w.at = "product"
    BY DEF ModInv, ModTypeOK, Task
  <1>4. ModTypeOK'
    BY <1>2 DEF ModInv, ModTypeOK, ApproveImages, history, ModerationStatus
  <1>5. InFlight(Approving)'
    BY <1>1, <1>2 DEF InFlight, Approves
  <1>6. PublishInv'
    BY <1>2, <1>3, <1>5 DEF ModInv, PublishInv, LastApprovalPublishes, Clean, Settling, At,
                            ApproveImages, history
  <1>7. RecordsInv'
    BY <1>2, <1>3 DEF ModInv, RecordsInv, At, ApproveImages, history
  <1>8. ProductInv'
    BY <1>2, <1>3 DEF ModInv, ProductInv, ReviewAndProductAgree, Plain, Settling, ApproveImages, history
  <1>9. QED
    BY <1>2, <1>4, <1>6, <1>7, <1>8 DEF ModInv

\* A decision about the whole product: whatever the requests under way decided,
\* if history has no excuse it is what this one decided.
LEMMA DecideInv ==
  ASSUME ModInv, NEW a \in Moderators, Decide(a)
  PROVE  ModInv'
  <1> DEFINE w == [doing[a] EXCEPT !.at = "records"]
  <1>1. w \in Task /\ DoingOk(w) /\ "records" \in Stages /\ ~At(a, "idle")
    BY DEF ModInv, ModTypeOK, DoingOk, Task, At, Decide, Stages, ImageDecisions
  <1>2. /\ doing' \in [Moderators -> Task]
        /\ \A b \in Moderators : DoingOk(doing[b])'
        /\ doing'[a] = w
        /\ \A b \in Moderators \ {a} : doing'[b] = doing[b]
        /\ \A b \in Moderators : Approves(b)' <=> Approves(b)
        /\ InFlight(Approving)' <=> InFlight(Approving)
        /\ AgreeInv'
    BY <1>1, GoesOnStays DEF Decide
  <1>3. w.at = "records" /\ doing[a].decision \in ProductDecisions
    BY DEF ModInv, ModTypeOK, Task, DoingOk, Decide, At
  <1>4. ModTypeOK'
    BY <1>2 DEF ModInv, ModTypeOK, Decide, UpdateProduct, ProductStatus
  <1>5. ~missed' => ~missed /\ product'.status = IF Approves(a) THEN "AVAILABLE" ELSE "REJECTED"
    BY DEF ModInv, ModTypeOK, Decide, UpdateProduct, Approves
  <1>6. ~rejected' => ~rejected /\ Approves(a)
    BY <1>3 DEF Decide, Approves, ProductDecisions, Approving
  <1>7. PublishInv'
    BY <1>5, <1>6, <1>2 DEF PublishInv, LastApprovalPublishes, Clean
  <1>8. RecordsInv'
    BY <1>2, <1>3 DEF ModInv, RecordsInv, At, Decide
  <1>9. ProductInv'
    <2>1. SUFFICES ASSUME Plain' PROVE ProductInv'
      BY DEF ProductInv, ReviewAndProductAgree, Plain
    <2>2. \A b \in Moderators : ~At(b, "idle") => (Approves(b) <=> Approves(a))
      BY <1>1, <2>1 DEF ModInv, AgreeInv, Plain, Decide
    <2>3. review # "PENDING" => (review \in Approving <=> Approves(a))
      BY <1>1, <2>1 DEF ModInv, AgreeInv, Plain, Decide
    <2>4. \A b \in Moderators : Settling(b)' => (Approves(b)' <=> Approves(a))
      BY <1>2, <2>2 DEF Settling, At
    <2>5. ReviewAndProductAgree'
      BY <1>5, <2>1, <2>3 DEF ReviewAndProductAgree, Plain, Decide, Approving
    <2>6. QED
      BY <1>5, <2>1, <2>4, <2>5 DEF ProductInv, Plain
  <1>10. QED
    BY <1>2, <1>4, <1>7, <1>8, <1>9 DEF ModInv

LEMMA SettleRecordsInv ==
  ASSUME ModInv, NEW a \in Moderators, SettleRecords(a)
  PROVE  ModInv'
  <1> DEFINE w == [doing[a] EXCEPT !.at = "review"]
  <1>1. w \in Task /\ DoingOk(w) /\ "review" \in Stages /\ ~At(a, "idle") /\ Settling(a)
    BY DEF ModInv, ModTypeOK, DoingOk, Task, At, SettleRecords, Stages, ImageDecisions, Settling
  <1>2. /\ doing' \in [Moderators -> Task]
        /\ \A b \in Moderators : DoingOk(doing[b])'
        /\ doing'[a] = w
        /\ \A b \in Moderators \ {a} : doing'[b] = doing[b]
        /\ \A b \in Moderators : Approves(b)' <=> Approves(b)
        /\ InFlight(Approving)' <=> InFlight(Approving)
        /\ AgreeInv'
    BY <1>1, GoesOnStays DEF SettleRecords, history
  <1>3. w.at = "review"
    BY DEF ModInv, ModTypeOK, Task
  <1>4. ModTypeOK'
    <2>1. /\ records' \in [Images -> RecordStatus]
          /\ \A i \in Images : records'[i] # "none" => records[i] # "none"
      BY DEF SettleRecords, RecordStatus
    <2>2. QED
      BY <1>2, <2>1 DEF ModInv, ModTypeOK, SettleRecords, history
  <1>5. \A b \in Moderators : Settling(b)' <=> Settling(b)
    BY <1>1, <1>2, <1>3 DEF Settling
  <1>6. PublishInv'
    <2>1. \A b \in Moderators : At(b, "count")' => At(b, "count") /\ doing'[b] = doing[b]
      BY <1>2, <1>3 DEF At
    <2>2. QED
      BY <1>2, <1>5, <2>1 DEF ModInv, PublishInv, LastApprovalPublishes, Clean, SettleRecords, history
  <1>7. RecordsInv'
    <2>1. \A i \in Images : /\ records'[i] # "PENDING"
                            /\ records[i] # "none" => records'[i] # "none"
      BY DEF SettleRecords
    <2>2. \A b \in Moderators : At(b, "record")' => At(b, "record") /\ doing'[b] = doing[b]
      BY <1>2, <1>3 DEF At
    <2>3. \A b \in Moderators : At(b, "record") => doing[b].image \in Images
      BY DEF At, ModInv, DoingOk
    <2>4. ASSUME NEW b \in Moderators, At(b, "record")'
          PROVE  records'[doing'[b].image] # "none"
      <3>1. At(b, "record") /\ doing'[b] = doing[b]
        BY <2>2, <2>4
      <3>2. records[doing[b].image] # "none" /\ doing[b].image \in Images
        BY <2>3, <3>1 DEF ModInv, RecordsInv
      <3>3. QED
        BY <2>1, <3>1, <3>2
    <2>5. QED
      BY <2>1, <2>4 DEF RecordsInv
  <1>8. ProductInv'
    BY <1>2, <1>5 DEF ModInv, ProductInv, ReviewAndProductAgree, Plain, SettleRecords, history
  <1>9. QED
    BY <1>2, <1>4, <1>6, <1>7, <1>8 DEF ModInv

\* The review is settled as the product was.
LEMMA SaveReviewInv ==
  ASSUME ModInv, NEW a \in Moderators, SaveReview(a)
  PROVE  ModInv'
  <1>1. ~At(a, "idle") /\ Settling(a) /\ doing[a].decision \in ProductDecisions
    BY DEF ModInv, DoingOk, At, SaveReview, Settling
  <1>2. /\ doing' \in [Moderators -> Task]
        /\ \A b \in Moderators : DoingOk(doing[b])'
        /\ doing'[a] = Idle
        /\ \A b \in Moderators \ {a} : doing'[b] = doing[b]
        /\ ~Approves(a) /\ InFlight(Approving) => InFlight(Approving)'
        /\ AgreeInv'
    BY <1>1, DoneStays DEF SaveReview, history
  <1>3. Idle.at = "idle"
    BY DEF Idle
  <1>4. ModTypeOK'
    BY <1>1, <1>2 DEF ModInv, ModTypeOK, SaveReview, history
  <1>5. \A b \in Moderators : Settling(b)' => Settling(b) /\ (Approves(b)' <=> Approves(b))
    BY <1>2, <1>3 DEF Settling, Approves
  <1>6. PublishInv'
    <2>1. Clean /\ Approves(a) => product.status # "REJECTED"
      BY <1>1 DEF ModInv, PublishInv
    <2>2. \A b \in Moderators : At(b, "count")' => At(b, "count") /\ doing'[b] = doing[b]
      BY <1>2, <1>3 DEF At
    <2>3. QED
      BY <1>2, <1>5, <2>1, <2>2
      DEF ModInv, PublishInv, LastApprovalPublishes, Clean, SaveReview, history
  <1>7. RecordsInv'
    <2>1. \A i \in Images : records[i] # "PENDING"
      BY DEF ModInv, RecordsInv, SaveReview
    <2>2. \A b \in Moderators : At(b, "record")' => At(b, "record") /\ doing'[b] = doing[b]
      BY <1>2, <1>3 DEF At
    <2>3. QED
      BY <2>1, <2>2 DEF ModInv, RecordsInv, SaveReview, history
  <1>8. ProductInv'
    <2>1. Plain => product.status # (IF Approves(a) THEN "REJECTED" ELSE "AVAILABLE")
      BY <1>1 DEF ModInv, ProductInv
    <2>2. ReviewAndProductAgree'
      BY <2>1 DEF ReviewAndProductAgree, Plain, Approves, SaveReview, history, Approving
    <2>3. QED
      BY <1>5, <2>2 DEF ModInv, ProductInv, Plain, SaveReview, history
  <1>9. QED
    BY <1>2, <1>4, <1>6, <1>7, <1>8 DEF ModInv

\* The row of a record is saved: it is pending no more.
LEMMA SavedRecord ==
  ASSUME ModInv, NEW a \in Moderators, NEW d \in ImageDecisions, SaveRecord(a, d)
  PROVE  /\ records' \in [Images -> RecordStatus]
         /\ \A i \in Images : records'[i] = "PENDING" => records[i] = "PENDING"
         /\ \A i \in Images : (records'[i] = "none") <=> (records[i] = "none")
  BY DEF ModInv, ModTypeOK, DoingOk, RecordsInv, At, SaveRecord, ImageDecisions, RecordStatus

LEMMA ConfirmRecordInv ==
  ASSUME ModInv, NEW a \in Moderators, ConfirmRecord(a)
  PROVE  ModInv'
  <1>1. ~At(a, "idle") /\ ~Approves(a)
    BY DEF ConfirmRecord, SaveRecord, At, Approves, Approving
  <1>2. /\ doing' \in [Moderators -> Task]
        /\ \A b \in Moderators : DoingOk(doing[b])'
        /\ doing'[a] = Idle
        /\ \A b \in Moderators \ {a} : doing'[b] = doing[b]
        /\ ~Approves(a) /\ InFlight(Approving) => InFlight(Approving)'
        /\ AgreeInv'
    BY <1>1, DoneStays DEF ConfirmRecord, SaveRecord, history
  <1>3. Idle.at = "idle"
    BY DEF Idle
  <1>4. /\ records' \in [Images -> RecordStatus]
        /\ \A i \in Images : records'[i] = "PENDING" => records[i] = "PENDING"
        /\ \A i \in Images : (records'[i] = "none") <=> (records[i] = "none")
    BY SavedRecord DEF ConfirmRecord, ImageDecisions
  <1>5. ModTypeOK'
    BY <1>2, <1>4 DEF ModInv, ModTypeOK, ConfirmRecord, SaveRecord, history
  <1>6. \A b \in Moderators : ~At(b, "idle")' => doing'[b] = doing[b]
    BY <1>2, <1>3 DEF At
  <1>7. PublishInv'
    BY <1>1, <1>2, <1>6 DEF ModInv, PublishInv, LastApprovalPublishes, Clean, Settling, Approves, At,
                            ConfirmRecord, SaveRecord, history
  <1>8. RecordsInv'
    BY <1>4, <1>6 DEF ModInv, RecordsInv, DoingOk, At, ConfirmRecord, SaveRecord, history
  <1>9. ProductInv'
    BY <1>6 DEF ModInv, ProductInv, ReviewAndProductAgree, Plain, Settling, Approves, At,
                ConfirmRecord, SaveRecord, history
  <1>10. QED
    BY <1>2, <1>5, <1>7, <1>8, <1>9 DEF ModInv

\* The two steps that only note how far the approval of an image has got.
LEMMA ApproveRecordInv ==
  ASSUME ModInv, NEW a \in Moderators, ApproveRecord(a)
  PROVE  ModInv'
  <1> DEFINE w == [doing[a] EXCEPT !.at = "image"]
  <1>1. w \in Task /\ DoingOk(w) /\ "image" \in Stages /\ ~At(a, "idle") /\ ~Settling(a)
    BY DEF ModInv, ModTypeOK, DoingOk, Task, At, ApproveRecord, SaveRecord, Stages, Settling
  <1>2. /\ doing' \in [Moderators -> Task]
        /\ \A b \in Moderators : DoingOk(doing[b])'
        /\ doing'[a] = w
        /\ \A b \in Moderators \ {a} : doing'[b] = doing[b]
        /\ InFlight(Approving)' <=> InFlight(Approving)
        /\ AgreeInv'
    BY <1>1, GoesOnStays DEF ApproveRecord, SaveRecord, history
  <1>3. w.at = "image"
    BY DEF ModInv, ModTypeOK, Task
  <1>4. /\ records' \in [Images -> RecordStatus]
        /\ \A i \in Images : records'[i] = "PENDING" => records[i] = "PENDING"
        /\ \A i \in Images : (records'[i] = "none") <=> (records[i] = "none")
    BY SavedRecord DEF ApproveRecord, ImageDecisions
  <1>5. ModTypeOK'
    BY <1>2, <1>4 DEF ModInv, ModTypeOK, ApproveRecord, SaveRecord, history
  <1>6. \A b \in Moderators : doing'[b].at # "image" => doing'[b] = doing[b]
    BY <1>2, <1>3
  <1>7. PublishInv'
    BY <1>2, <1>6 DEF ModInv, PublishInv, LastApprovalPublishes, Clean, Settling, Approves, At,
                      ApproveRecord, SaveRecord, history
  <1>8. RecordsInv'
    BY <1>4, <1>6 DEF ModInv, RecordsInv, DoingOk, At, ApproveRecord, SaveRecord, history
  <1>9. ProductInv'
    BY <1>6 DEF ModInv, ProductInv, ReviewAndProductAgree, Plain, Settling, Approves,
                ApproveRecord, SaveRecord, history
  <1>10. QED
    BY <1>2, <1>5, <1>7, <1>8, <1>9 DEF ModInv

LEMMA ApproveImageInv ==
  ASSUME ModInv, NEW a \in Moderators, ApproveImage(a)
  PROVE  ModInv'
  <1> DEFINE w == [doing[a] EXCEPT !.at = "look"]
  <1>1. /\ w \in Task /\ DoingOk(w) /\ "look" \in Stages /\ ~At(a, "idle")
        /\ Approves(a) /\ doing[a].image \in Images
    BY DEF ModInv, ModTypeOK, DoingOk, Task, At, ApproveImage, Stages, Approves, Approving
  <1>2. /\ doing' \in [Moderators -> Task]
        /\ \A b \in Moderators : DoingOk(doing[b])'
        /\ doing'[a] = w
        /\ \A b \in Moderators \ {a} : doing'[b] = doing[b]
        /\ \A b \in Moderators : Approves(b)' <=> Approves(b)
        /\ AgreeInv'
    BY <1>1, GoesOnStays DEF ApproveImage, history
  <1>3. w.at = "look"
    BY DEF ModInv, ModTypeOK, Task
  <1>4. ModTypeOK'
    <2>1. /\ images' \in [Images -> ModerationStatus]
          /\ \A i \in Images : images[i] # "none" => images'[i] # "none"
      BY <1>1 DEF ModInv, ModTypeOK, ApproveImage, ModerationStatus
    <2>2. QED
      BY <1>2, <2>1 DEF ModInv, ModTypeOK, ApproveImage, history
  <1>5. InFlight(Approving)'
    BY <1>1, <1>2 DEF InFlight, Approves
  <1>6. \A b \in Moderators : doing'[b].at # "look" => doing'[b] = doing[b]
    BY <1>2, <1>3
  <1>7. PublishInv'
    BY <1>5, <1>6 DEF ModInv, PublishInv, LastApprovalPublishes, Clean, Settling, Approves, At,
                      ApproveImage, history
  <1>8. RecordsInv'
    BY <1>6 DEF ModInv, RecordsInv, At, ApproveImage, history
  <1>9. ProductInv'
    BY <1>6 DEF ModInv, ProductInv, ReviewAndProductAgree, Plain, Settling, Approves,
                ApproveImage, history
  <1>10. QED
    BY <1>2, <1>4, <1>7, <1>8, <1>9 DEF ModInv

LEMMA LookInv ==
  ASSUME ModInv, NEW a \in Moderators, Look(a)
  PROVE  ModInv'
  <1> DEFINE w == [doing[a] EXCEPT !.at = "count", !.status = product.status]
  <1>1. doing[a] \in Task /\ product.status \in ProductStatus /\ DoingOk(doing[a])
    BY DEF ModInv, ModTypeOK
  <1>2. doing[a].at = "look" /\ doing[a].decision = "APPROVED"
    BY <1>1 DEF Look, At, DoingOk
  <1>3. /\ w \in Task
        /\ w.at = "count" /\ w.decision = doing[a].decision /\ w.status = product.status
    BY <1>1 DEF Task, Stages
  <1>4. DoingOk(w)
    BY <1>1, <1>2, <1>3 DEF DoingOk
  <1>5. /\ doing' \in [Moderators -> Task]
        /\ \A b \in Moderators : DoingOk(doing[b])'
        /\ doing'[a] = w
        /\ \A b \in Moderators \ {a} : doing'[b] = doing[b]
    BY <1>3, <1>4, OneMoves DEF Look
  <1>6. AgreeInv'
    BY <1>2, <1>3, <1>5, AgreeStays DEF At, Look, history
  <1>7. ModTypeOK'
    BY <1>5 DEF ModInv, ModTypeOK, Look, history
  <1>8. InFlight(Approving)'
    BY <1>2, <1>3, <1>5 DEF InFlight, Approving
  <1>9. \A b \in Moderators : doing'[b].at # "count" => doing'[b] = doing[b]
    BY <1>3, <1>5
  <1>10. PublishInv'
    <2>1. \A b \in Moderators : At(b, "count")' /\ doing'[b].status # "REJECTED" =>
            \/ At(b, "count") /\ doing[b].status # "REJECTED"
            \/ product.status # "REJECTED"
      BY <1>3, <1>5 DEF At
    <2>2. QED
      BY <1>8, <1>9, <2>1 DEF ModInv, PublishInv, LastApprovalPublishes, Clean, Settling, Approves, At,
                              Look, history
  <1>11. RecordsInv'
    BY <1>9 DEF ModInv, RecordsInv, At, Look, history
  <1>12. ProductInv'
    BY <1>9 DEF ModInv, ProductInv, ReviewAndProductAgree, Plain, Settling, Approves, Look, history
  <1>13. QED
    BY <1>5, <1>6, <1>7, <1>10, <1>11, <1>12 DEF ModInv

\* An approval ends without publishing only when an image is still rejected, or
\* the product was published before.
LEMMA CountInv ==
  ASSUME ModInv, NEW a \in Moderators, Count(a)
  PROVE  ModInv'
  <1> DEFINE w == [doing[a] EXCEPT !.at = "publish"]
  <1>1. /\ doing[a].at = "count" /\ doing[a].decision = "APPROVED" /\ doing[a] \in Task
        /\ DoingOk(doing[a]) /\ ~At(a, "idle")
    BY DEF ModInv, ModTypeOK, Count, At, DoingOk
  <1>2. ASSUME GoesOn(a, "publish"), doing[a].status = "REJECTED"
        PROVE  ModInv'
    <2>1. w \in Task /\ w.at = "publish" /\ DoingOk(w) /\ "publish" \in Stages
      BY <1>1, <1>2 DEF DoingOk, Task, Stages
    <2>2. /\ doing' \in [Moderators -> Task]
          /\ \A b \in Moderators : DoingOk(doing[b])'
          /\ doing'[a] = w
          /\ \A b \in Moderators \ {a} : doing'[b] = doing[b]
          /\ InFlight(Approving)' <=> InFlight(Approving)
          /\ AgreeInv'
      BY <1>1, <1>2, <2>1, GoesOnStays DEF Count, history
    <2>3. ModTypeOK'
      BY <2>2 DEF ModInv, ModTypeOK, Count, history
    <2>4. \A b \in Moderators : doing'[b].at # "publish" => doing'[b] = doing[b]
      BY <2>1, <2>2
    <2>5. PublishInv'
      BY <2>2, <2>4 DEF ModInv, PublishInv, LastApprovalPublishes, Clean, Settling, Approves, At,
                        Count, history
    <2>6. RecordsInv'
      BY <2>4 DEF ModInv, RecordsInv, At, Count, history
    <2>7. ProductInv'
      BY <2>4 DEF ModInv, ProductInv, ReviewAndProductAgree, Plain, Settling, Approves, Count, history
    <2>8. QED
      BY <2>2, <2>3, <2>5, <2>6, <2>7 DEF ModInv
  <1>3. ASSUME Done(a), ~AllApproved \/ doing[a].status # "REJECTED"
        PROVE  ModInv'
    <2>1. /\ doing' \in [Moderators -> Task]
          /\ \A b \in Moderators : DoingOk(doing[b])'
          /\ doing'[a] = Idle
          /\ \A b \in Moderators \ {a} : doing'[b] = doing[b]
          /\ AgreeInv'
      BY <1>1, <1>3, DoneStays DEF Count, history
    <2>2. ModTypeOK'
      BY <2>1 DEF ModInv, ModTypeOK, Count, history
    <2>3. Idle.at = "idle"
      BY DEF Idle
    <2>4. \A b \in Moderators : doing'[b].at # "idle" => doing'[b] = doing[b]
      BY <2>1, <2>3
    <2>5. LastApprovalPublishes'
      <3>1. ~AllApproved => \E i \in Images : images[i] = "REJECTED"
        BY DEF AllApproved, ModInv, ModTypeOK, ModerationStatus
      <3>2. Clean /\ doing[a].status # "REJECTED" => product.status # "REJECTED"
        BY <1>1 DEF ModInv, PublishInv, At
      <3>3. QED
        BY <1>3, <3>1, <3>2 DEF LastApprovalPublishes, Clean, Count, history
    <2>6. PublishInv'
      BY <2>4, <2>5 DEF ModInv, PublishInv, Clean, Settling, Approves, At, Count, history
    <2>7. RecordsInv'
      BY <2>4 DEF ModInv, RecordsInv, At, Count, history
    <2>8. ProductInv'
      BY <2>4 DEF ModInv, ProductInv, ReviewAndProductAgree, Plain, Settling, Approves, Count, history
    <2>9. QED
      BY <2>1, <2>2, <2>6, <2>7, <2>8 DEF ModInv
  <1>4. QED
    BY <1>2, <1>3 DEF Count

LEMMA PublishOpInv ==
  ASSUME ModInv, NEW a \in Moderators, Publish(a)
  PROVE  ModInv'
  <1>1. doing[a].at = "publish" /\ doing[a].decision = "APPROVED" /\ ~At(a, "idle") /\ Approves(a)
    BY DEF ModInv, DoingOk, Publish, At, Approves, Approving
  <1>2. /\ doing' \in [Moderators -> Task]
        /\ \A b \in Moderators : DoingOk(doing[b])'
        /\ doing'[a] = Idle
        /\ \A b \in Moderators \ {a} : doing'[b] = doing[b]
        /\ AgreeInv'
    BY <1>1, DoneStays DEF Publish
  <1>3. ModTypeOK'
    BY <1>2 DEF ModInv, ModTypeOK, Publish, UpdateProduct, ProductStatus
  <1>4. Idle.at = "idle"
    BY DEF Idle
  <1>5. \A b \in Moderators : doing'[b].at # "idle" => doing'[b] = doing[b]
    BY <1>2, <1>4
  <1>6. ~missed' => ~missed /\ product'.status = "AVAILABLE"
    BY DEF ModInv, ModTypeOK, Publish, UpdateProduct
  <1>7. PublishInv'
    BY <1>6 DEF PublishInv, LastApprovalPublishes, Clean
  <1>8. RecordsInv'
    BY <1>5 DEF ModInv, RecordsInv, At, Publish
  <1>9. ProductInv'
    <2>1. SUFFICES ASSUME Plain' PROVE ProductInv'
      BY DEF ProductInv, ReviewAndProductAgree, Plain
    <2>2. \A b \in Moderators : ~At(b, "idle") => Approves(b)
      BY <1>1, <2>1 DEF ModInv, AgreeInv, Plain, Publish
    <2>3. review # "PENDING" => review \in Approving
      BY <1>1, <2>1 DEF ModInv, AgreeInv, Plain, Publish
    <2>4. \A b \in Moderators : Settling(b)' => Approves(b)'
      BY <1>5, <2>2 DEF Settling, At, Approves
    <2>5. ReviewAndProductAgree'
      BY <1>6, <2>1, <2>3 DEF ReviewAndProductAgree, Plain, Publish, Approving
    <2>6. QED
      BY <1>6, <2>1, <2>4, <2>5 DEF ProductInv, Plain
  <1>10. QED
    BY <1>2, <1>3, <1>7, <1>8, <1>9 DEF ModInv

LEMMA DieInv ==
  ASSUME ModInv, NEW a \in Moderators, Die(a)
  PROVE  ModInv'
  <1>1. /\ doing' \in [Moderators -> Task]
        /\ \A b \in Moderators : DoingOk(doing[b])'
        /\ doing'[a] = Idle
        /\ \A b \in Moderators \ {a} : doing'[b] = doing[b]
        /\ AgreeInv'
    BY DoneStays DEF Die
  <1>2. Idle.at = "idle"
    BY DEF Idle
  <1>3. \A b \in Moderators : doing'[b].at # "idle" => doing'[b] = doing[b]
    BY <1>1, <1>2
  <1>4. ModTypeOK'
    BY <1>1 DEF ModInv, ModTypeOK, Die
  <1>5. PublishInv'
    BY DEF PublishInv, LastApprovalPublishes, Clean, Die
  <1>6. RecordsInv'
    BY <1>3 DEF ModInv, RecordsInv, At, Die
  <1>7. ProductInv'
    BY <1>3 DEF ModInv, ProductInv, ReviewAndProductAgree, Plain, Settling, Approves, Die
  <1>8. QED
    BY <1>1, <1>4, <1>5, <1>6, <1>7 DEF ModInv

\* A step of the vendor: the status stays, or the vendor asks for a review, or
\* history notes that an older one came back; no image is rejected or accepted.
LEMMA VendorInv ==
  ASSUME ModInv, ModTypeOK', UNCHANGED <<records, review, doing, rejected, opposed, missed, died>>,
         undone' \/ (~undone /\ product'.status \in {product.status, "PENDING"}),
         \A i \in Images : images[i] = "REJECTED" <=> images'[i] = "REJECTED"
  PROVE  ModInv'
  <1>1. \A b \in Moderators : DoingOk(doing[b])'
    BY NoneMoves
  <1>2. PublishInv'
    BY DEF ModInv, PublishInv, LastApprovalPublishes, InFlight, Clean, Settling, Approves, At
  <1>3. RecordsInv' /\ AgreeInv'
    BY DEF ModInv, RecordsInv, AgreeInv, Approves, At
  <1>4. ProductInv'
    BY DEF ModInv, ProductInv, ReviewAndProductAgree, Plain, Settling, Approves
  <1>5. QED
    BY <1>1, <1>2, <1>3, <1>4 DEF ModInv

LEMMA VendorSaveInv ==
  ASSUME ModInv, NEW new \in SUBSET Images, VendorSave(new)
  PROVE  ModInv'
  <1>1. product' = [status |-> draft, deleted |-> FALSE] /\ draft \in ProductStatus
    BY DEF ModInv, ModTypeOK, VendorSave
  <1>2. /\ images' \in [Images -> ModerationStatus]
        /\ \A i \in Images : images[i] # "none" => images'[i] # "none"
        /\ \A i \in Images : images[i] = "REJECTED" <=> images'[i] = "REJECTED"
    BY DEF ModInv, ModTypeOK, VendorSave, ModerationStatus
  <1>3. undone' \in BOOLEAN /\ (undone' \/ (~undone /\ draft \in {product.status, "PENDING"}))
    <2>1. undone' <=> undone \/ draft \notin {product.status, "PENDING"}
      BY Zenon DEF VendorSave
    <2>2. undone' \in BOOLEAN
      BY DEF VendorSave
    <2>3. QED
      BY <2>1, <2>2
  <1>4. ModTypeOK'
    BY <1>1, <1>2, <1>3 DEF ModInv, ModTypeOK, VendorSave
  <1>5. QED
    BY <1>1, <1>2, <1>3, <1>4, VendorInv DEF VendorSave

\* The other steps of the vendor do not write the status.
LEMMA VendorOthersInv ==
  ASSUME ModInv,
         \/ \E resubmit \in BOOLEAN : VendorFetch(resubmit)
         \/ VendorEnds
         \/ ArchiveProduct
         \/ RestoreProduct
         \/ UNCHANGED modVars
  PROVE  ModInv'
  <1>1. /\ UNCHANGED <<images, records, review, doing, history>>
        /\ product'.status = product.status
        /\ product' \in [status: ProductStatus, deleted: BOOLEAN]
    BY DEF ModInv, ModTypeOK, VendorFetch, VendorEnds, ArchiveProduct, RestoreProduct, modVars
  <1>2. draft' \in {"none"} \cup ProductStatus
    BY DEF ModInv, ModTypeOK, VendorFetch, VendorEnds, ArchiveProduct, RestoreProduct, modVars,
           ProductStatus
  <1>3. edits' \in 0..MaxEdits
    BY EditsAssumption
    DEF ModInv, ModTypeOK, VendorFetch, VendorEnds, ArchiveProduct, RestoreProduct, modVars
  <1>4. ModTypeOK'
    BY <1>1, <1>2, <1>3 DEF ModInv, ModTypeOK, history
  <1>5. undone' \/ ~undone
    BY <1>1 DEF ModInv, ModTypeOK, history
  <1>6. QED
    BY <1>1, <1>4, <1>5, VendorInv DEF history

-----------------------------------------------------------------------------
LEMMA ModNextInv == ModInv /\ [ModNext]_modVars => ModInv'
  <1> SUFFICES ASSUME ModInv, [ModNext]_modVars PROVE ModInv'
    OBVIOUS
  <1>1. CASE \E a \in Moderators : \E d \in ProductDecisions : ReviewFetch(a, d)
    BY <1>1, ReviewFetchInv
  <1>2. CASE \E a \in Moderators : \E i \in Images, d \in ImageDecisions : ImageFetch(a, i, d)
    BY <1>2, ImageFetchInv
  <1>3. CASE \E a \in Moderators :
               ApproveImages(a) \/ Decide(a) \/ SettleRecords(a) \/ SaveReview(a)
    BY <1>3, ApproveImagesInv, DecideInv, SettleRecordsInv, SaveReviewInv
  <1>4. CASE \E a \in Moderators : ConfirmRecord(a) \/ ApproveRecord(a) \/ ApproveImage(a)
    BY <1>4, ConfirmRecordInv, ApproveRecordInv, ApproveImageInv
  <1>5. CASE \E a \in Moderators : Look(a) \/ Count(a) \/ Publish(a) \/ Die(a)
    BY <1>5, LookInv, CountInv, PublishOpInv, DieInv
  <1>6. CASE \E new \in SUBSET Images : VendorSave(new)
    BY <1>6, VendorSaveInv
  <1>7. CASE \/ \E resubmit \in BOOLEAN : VendorFetch(resubmit)
             \/ VendorEnds \/ ArchiveProduct \/ RestoreProduct
             \/ UNCHANGED modVars
    BY <1>7, VendorOthersInv
  <1>8. QED
    BY <1>1, <1>2, <1>3, <1>4, <1>5, <1>6, <1>7 DEF ModNext

LEMMA ModInvHolds == ModSpec => []ModInv
  BY InitModInv, ModNextInv, PTL DEF ModSpec

\* The last approval of an image publishes the product, for any number of
\* administrators and images: whoever sees every image approved sees the product
\* as it was after the last approval began to look (products/views.py:457-471).
THEOREM ApprovalsPublish == ModSpec => []LastApprovalPublishes
  <1>1. ModInv => LastApprovalPublishes
    BY DEF ModInv, PublishInv
  <1>2. QED
    BY <1>1, ModInvHolds, PTL

\* Decisions that agree leave a settled review that the product does not
\* contradict, for any number of administrators, at any point of what they do
\* (products/views.py:316-367).
THEOREM ReviewsAndProductsAgree == ModSpec => []ReviewAndProductAgree
  <1>1. ModInv => ReviewAndProductAgree
    BY DEF ModInv, ProductInv
  <1>2. QED
    BY <1>1, ModInvHolds, PTL

\* The state of a moderated product is well typed, and only requests under way
\* have decided.
THEOREM ModerationIsTyped == ModSpec => [](ModTypeOK /\ \A a \in Moderators : DoingOk(doing[a]))
  <1>1. ModInv => ModTypeOK /\ \A a \in Moderators : DoingOk(doing[a])
    BY DEF ModInv
  <1>2. QED
    BY <1>1, ModInvHolds, PTL
=============================================================================
