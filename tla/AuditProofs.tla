----------------------------- MODULE AuditProofs -----------------------------
(***************************************************************************)
(* Theorems about module Audit, for any number of workers, tasks, addresses*)
(* and attempts, checked by TLAPS.                                         *)
(***************************************************************************)
EXTENDS AuditProps, FiniteSetTheorems, SequenceTheorems, TLAPS

Servers == Workers \ Celery

\* Requests whose attempt is not in the log yet, whose penalty is not saved yet,
\* and whose attempt on address a is not in the log and will not ban any more.
Unlogged == {w \in Workers : task[w].at \in {"count", "ban", "penalise", "insert"}}
Unpenalised == {w \in Workers : task[w].at \in {"count", "ban", "penalise"}}
Counted(a) == {w \in Workers : task[w].at \in {"penalise", "insert"} /\ task[w].ip = a}

\* A request works for the address in its thread, a task for none; a score was
\* read when it had lost no more than the penalties saved by now.
TaskInv(w) ==
  /\ task[w].at = "idle" => task[w] = Idle
  /\ w \in Celery => context[w] = "none" /\ task[w].ip = "none" /\ task[w].at \in {"idle", "serve", "entry"}
  /\ w \notin Celery /\ task[w].at # "idle" => task[w].ip \in Addresses /\ context[w] = task[w].ip
  /\ task[w].at = "penalise" => task[w].signed
  /\ task[w].at \in {"count", "ban", "penalise"} /\ task[w].signed => task[w].score + penalties >= FullScore
  /\ task[w].at = "entry" => task[w].change \in 1..version /\ origin[task[w].change] = task[w].ip

Types ==
  /\ logged \in [Addresses -> Nat]
  /\ banned \subseteq Addresses
  /\ score \in 0..FullScore
  /\ version \in 0..MaxVersion
  /\ entries \subseteq Entry
  /\ silent \subseteq 1..version
  /\ origin \in Seq(From) /\ Len(origin) = version
  /\ context \in [Workers -> From]
  /\ task \in [Workers -> Task]
  /\ attempts \in 0..MaxAttempts
  /\ penalties \in Nat

\* What is counted once more than once is counted too late by the workers only.
CountInv ==
  /\ \A a \in Addresses : logged[a] + Cardinality(Unlogged) <= attempts
  /\ penalties + Cardinality(Unpenalised) <= attempts
  /\ \A a \in Addresses : logged[a] >= 2 /\ a \notin banned =>
       logged[a] + Cardinality(Counted(a)) <= 1 + Cardinality(Servers)

ScoreInv == score + penalties >= FullScore /\ (penalties > 0 => score < FullScore \/ FullScore = 0)

EntryInv == \A e \in entries : e.change <= version /\ e.ip = origin[e.change]
ChangeInv == \A v \in 1..version :
  v \in silent \/ (\E e \in entries : e.change = v) \/ \E w \in Workers : At(w, "entry") /\ task[w].change = v

\* The inductive invariant.
IInv == /\ Types /\ CountInv /\ ScoreInv /\ EntryInv /\ ChangeInv
        /\ \A w \in Workers : TaskInv(w)

USE BoundAssumption, WorkersAssumption

LEMMA Finite ==
  /\ IsFiniteSet(Unlogged) /\ Cardinality(Unlogged) \in Nat
  /\ IsFiniteSet(Unpenalised) /\ Cardinality(Unpenalised) \in Nat
  /\ IsFiniteSet(Servers) /\ Cardinality(Servers) \in Nat
  /\ \A a : IsFiniteSet(Counted(a)) /\ Cardinality(Counted(a)) \in Nat
  <1>1. Unlogged \subseteq Workers /\ Unpenalised \subseteq Workers /\ Servers \subseteq Workers
    BY DEF Unlogged, Unpenalised, Servers
  <1>2. \A a : Counted(a) \subseteq Workers
    BY DEF Counted
  <1>3. QED
    BY <1>1, <1>2, FS_Subset, FS_CardinalityType

LEMMA InitIInv == Init => IInv
  <1> SUFFICES ASSUME Init PROVE IInv
    OBVIOUS
  <1>1. Idle \in Task /\ Idle.at = "idle" /\ Idle.ip = "none"
    BY DEF Idle, Task, Stages, From
  <1>2. Types
    BY <1>1, EmptySeq DEF Init, Types, From
  <1>3. Unlogged = {} /\ Unpenalised = {}
    BY <1>1 DEF Init, Unlogged, Unpenalised
  <1>4. CountInv
    BY <1>3, FS_EmptySet DEF Init, CountInv
  <1>5. QED
    BY <1>1, <1>2, <1>4 DEF Init, IInv, ScoreInv, EntryInv, ChangeInv, TaskInv

-----------------------------------------------------------------------------
(* The fields of a task.                                                    *)

LEMMA IdleTask ==
  Idle \in Task /\ Idle.at = "idle" /\ Idle.ip = "none" /\ Idle.change = 0 /\ ~Idle.signed
  BY DEF Task, Stages, Idle, From

LEMMA GoesTask ==
  ASSUME NEW t \in Task, NEW at \in Stages
  PROVE  \E u \in Task : /\ u = [t EXCEPT !.at = at]
                         /\ u.at = at /\ u.ip = t.ip /\ u.signed = t.signed
                         /\ u.score = t.score /\ u.change = t.change
  <1> DEFINE v == [t EXCEPT !.at = at]
  <1>1. /\ v \in Task
        /\ v.at = at /\ v.ip = t.ip /\ v.signed = t.signed
        /\ v.score = t.score /\ v.change = t.change
    BY DEF Task
  <1>2. QED
    BY <1>1, Zenon

LEMMA BeginTaskRecord ==
  ASSUME NEW t \in Task, NEW ip \in From, NEW sg \in BOOLEAN
  PROVE  \E u \in Task : /\ u = [t EXCEPT !.at = "serve", !.ip = ip, !.signed = sg]
                         /\ u.at = "serve" /\ u.ip = ip
  <1> DEFINE v == [t EXCEPT !.at = "serve", !.ip = ip, !.signed = sg]
  <1>1. /\ v \in Task
        /\ v.at = "serve" /\ v.ip = ip
    BY DEF Task, Stages
  <1>2. QED
    BY <1>1, Zenon

LEMMA AttemptTask ==
  ASSUME NEW t \in Task, NEW ip \in From, NEW sc \in 0..FullScore
  PROVE  \E u \in Task : /\ u = [t EXCEPT !.at = "count", !.ip = ip, !.score = sc]
                         /\ u.at = "count" /\ u.ip = ip /\ u.score = sc /\ u.signed = t.signed
  <1> DEFINE v == [t EXCEPT !.at = "count", !.ip = ip, !.score = sc]
  <1>1. /\ v \in Task
        /\ v.at = "count" /\ v.ip = ip /\ v.score = sc /\ v.signed = t.signed
    BY DEF Task, Stages
  <1>2. QED
    BY <1>1, Zenon

LEMMA ChangeTask ==
  ASSUME NEW t \in Task, NEW at \in Stages, NEW ch \in 0..MaxVersion
  PROVE  \E u \in Task : /\ u = [t EXCEPT !.at = at, !.change = ch]
                         /\ u.at = at /\ u.ip = t.ip /\ u.change = ch
  <1> DEFINE v == [t EXCEPT !.at = at, !.change = ch]
  <1>1. /\ v \in Task
        /\ v.at = at /\ v.ip = t.ip /\ v.change = ch
    BY DEF Task
  <1>2. QED
    BY <1>1, Zenon

LEMMA TaskFields ==
  ASSUME NEW t \in Task
  PROVE  /\ t.at \in Stages /\ t.ip \in From /\ t.signed \in BOOLEAN
         /\ t.score \in 0..FullScore /\ t.change \in 0..MaxVersion
  BY DEF Task

\* The other workers keep their tasks and their threads.
Others(w) == \A x \in Workers \ {w} : task'[x] = task[x] /\ context'[x] = context[x]

LEMMA Put ==
  ASSUME Types, NEW w \in Workers, NEW t \in Task, task' = [task EXCEPT ![w] = t], UNCHANGED context
  PROVE  /\ task' \in [Workers -> Task] /\ context' \in [Workers -> From]
         /\ task'[w] = t /\ Others(w)
  BY DEF Types, Others

-----------------------------------------------------------------------------
(* What a step leaves alone.                                                *)

LEMMA OtherTasks ==
  ASSUME Types, NEW w \in Workers, Others(w), \A x \in Workers : TaskInv(x),
         version' \in Nat, version <= version', \A v \in 1..version : origin'[v] = origin[v],
         penalties' \in Nat, penalties <= penalties',
         task' \in [Workers -> Task], TaskInv(w)'
  PROVE  \A x \in Workers : TaskInv(x)'
  <1> SUFFICES ASSUME NEW x \in Workers \ {w} PROVE TaskInv(x)'
    OBVIOUS
  <1>1. /\ task'[x] = task[x] /\ context'[x] = context[x] /\ TaskInv(x) /\ task[x] \in Task
        /\ version \in Nat /\ penalties \in Nat
    BY DEF Others, Types
  <1>2. task[x].score \in 0..FullScore
    BY <1>1, TaskFields
  <1>3. task[x].at = "entry" => task[x].change \in 1..version' /\ origin'[task[x].change] = task[x].ip
    BY <1>1 DEF TaskInv
  <1>4. task[x].at \in {"count", "ban", "penalise"} /\ task[x].signed => task[x].score + penalties' >= FullScore
    BY <1>1, <1>2 DEF TaskInv
  <1>5. QED
    BY <1>1, <1>3, <1>4, Zenon DEF TaskInv

\* A step that changes no row.
LEMMA SameRow ==
  ASSUME EntryInv, ChangeInv, NEW w \in Workers, UNCHANGED row, Others(w), task[w].at # "entry"
  PROVE  EntryInv' /\ ChangeInv'
  <1>1. EntryInv'
    BY DEF EntryInv, row
  <1>2. ASSUME NEW v \in 1..version
        PROVE  \/ v \in silent
               \/ \E e \in entries : e.change = v
               \/ \E x \in Workers : task'[x].at = "entry" /\ task'[x].change = v
    <2>1. CASE \E x \in Workers : At(x, "entry") /\ task[x].change = v
      <3>1. PICK x \in Workers : task[x].at = "entry" /\ task[x].change = v
        BY <2>1 DEF At
      <3>2. x # w
        BY <3>1
      <3>3. QED
        BY <3>1, <3>2 DEF Others
    <2>2. QED
      BY <2>1 DEF ChangeInv
  <1>3. QED
    BY <1>1, <1>2 DEF ChangeInv, row, At

LEMMA SetOnce ==
  ASSUME NEW S, IsFiniteSet(S), NEW T, NEW w, T \ {w} = S \ {w}
  PROVE  /\ IsFiniteSet(T)
         /\ w \in S /\ w \in T => Cardinality(T) = Cardinality(S)
         /\ w \notin S /\ w \notin T => Cardinality(T) = Cardinality(S)
         /\ w \in T /\ w \notin S => Cardinality(T) = Cardinality(S) + 1
         /\ w \in S /\ w \notin T => Cardinality(T) = Cardinality(S) - 1
  <1>1. CASE w \in S /\ w \in T
    <2>1. S = T
      BY <1>1
    <2>2. QED
      BY <2>1, <1>1
  <1>2. CASE w \notin S /\ w \notin T
    <2>1. S = T
      BY <1>2
    <2>2. QED
      BY <2>1, <1>2
  <1>3. CASE w \in T /\ w \notin S
    <2>1. T = S \cup {w}
      BY <1>3
    <2>2. QED
      BY <2>1, <1>3, FS_AddElement
  <1>4. CASE w \in S /\ w \notin T
    <2>1. T = S \ {w}
      BY <1>4
    <2>2. QED
      BY <2>1, <1>4, FS_RemoveElement
  <1>5. QED
    BY <1>1, <1>2, <1>3, <1>4

LEMMA Fewer ==
  ASSUME NEW S, IsFiniteSet(S), NEW T, T \subseteq S
  PROVE  Cardinality(T) \in Nat /\ Cardinality(T) <= Cardinality(S)
  BY FS_Subset, FS_CardinalityType

\* How the sets that the log lags behind change when only worker w moves.
LEMMA Lag ==
  ASSUME NEW w \in Workers, Others(w)
  PROVE  /\ Unlogged' \ {w} = Unlogged \ {w}
         /\ Unpenalised' \ {w} = Unpenalised \ {w}
         /\ \A a : Counted(a)' \ {w} = Counted(a) \ {w}
  BY DEF Others, Unlogged, Unpenalised, Counted

Outside == {"idle", "serve", "entry"}

\* A step of a worker that handles no suspicious attempt.
LEMMA SameSecurity ==
  ASSUME CountInv, ScoreInv, NEW w \in Workers, UNCHANGED security, Others(w),
         task[w].at \in Outside, task'[w].at \in Outside
  PROVE  CountInv' /\ ScoreInv'
  <1>1. /\ w \notin Unlogged /\ w \notin Unlogged' /\ w \notin Unpenalised /\ w \notin Unpenalised'
        /\ \A a : w \notin Counted(a) /\ w \notin Counted(a)'
    BY DEF Outside, Unlogged, Unpenalised, Counted
  <1>2. /\ Unlogged' = Unlogged /\ Unpenalised' = Unpenalised /\ \A a : Counted(a)' = Counted(a)
    BY <1>1, Lag
  <1>3. ScoreInv'
    BY DEF ScoreInv, security
  <1>4. QED
    BY <1>2, <1>3 DEF CountInv, security, Servers

\* A step that moves worker w only, and what is left to show of it.
LEMMA Moves ==
  ASSUME IInv, NEW w \in Workers, Others(w), Types', version <= version', penalties <= penalties',
         \A v \in 1..version : origin'[v] = origin[v],
         TaskInv(w)', CountInv', ScoreInv', EntryInv', ChangeInv'
  PROVE  IInv'
  <1>1. version' \in Nat /\ penalties' \in Nat /\ task' \in [Workers -> Task]
    BY DEF Types
  <1>2. \A x \in Workers : TaskInv(x)'
    BY <1>1, OtherTasks DEF IInv
  <1>3. QED
    BY <1>2 DEF IInv

\* The types after a step that changes neither the row nor the security part.
LEMMA SameTypes ==
  ASSUME Types, UNCHANGED <<security, row>>,
         task' \in [Workers -> Task], context' \in [Workers -> From]
  PROVE  Types' /\ version <= version' /\ penalties <= penalties'
  BY DEF Types, security, row

\* A step that moves worker w between the stages outside of an attempt, and
\* changes no row.
LEMMA Idling ==
  ASSUME IInv, NEW w \in Workers, Others(w), UNCHANGED <<security, row>>,
         task' \in [Workers -> Task], context' \in [Workers -> From],
         task[w].at \in {"idle", "serve"}, task'[w].at \in Outside, TaskInv(w)'
  PROVE  IInv'
  <1>1. Types /\ CountInv /\ ScoreInv /\ EntryInv /\ ChangeInv
    BY DEF IInv
  <1>2. CountInv' /\ ScoreInv'
    BY <1>1, SameSecurity DEF Outside
  <1>3. EntryInv' /\ ChangeInv'
    BY <1>1, SameRow
  <1>4. Types' /\ version <= version' /\ penalties <= penalties'
    BY <1>1, SameTypes
  <1>5. \A v \in 1..version : origin'[v] = origin[v]
    BY DEF row
  <1>6. QED
    BY <1>2, <1>3, <1>4, <1>5, Moves

-----------------------------------------------------------------------------
(* Requests and tasks begin and end.                                        *)

LEMMA BeginRequestInv ==
  ASSUME IInv, NEW w \in Workers, NEW ip \in Addresses, NEW sg \in BOOLEAN, BeginRequest(w, ip, sg)
  PROVE  IInv'
  <1>1. PICK t \in Task : t.at = "serve" /\ t.ip = ip /\ t = [Idle EXCEPT !.at = "serve", !.ip = ip, !.signed = sg]
    <2>1. ip \in From /\ Idle \in Task
      BY IdleTask DEF From
    <2>2. \E u \in Task : /\ u = [Idle EXCEPT !.at = "serve", !.ip = ip, !.signed = sg]
                          /\ u.at = "serve" /\ u.ip = ip
      BY <2>1, BeginTaskRecord, Zenon
    <2>3. QED
      BY <2>2, Zenon
  <1>2. task' = [task EXCEPT ![w] = t] /\ context' = [context EXCEPT ![w] = ip]
    BY <1>1 DEF BeginRequest, SetContext
  <1>3. /\ task' \in [Workers -> Task] /\ context' \in [Workers -> From] /\ Others(w)
        /\ task'[w] = t /\ context'[w] = ip
    BY <1>2 DEF IInv, Types, Others, From
  <1>4. UNCHANGED <<security, row>> /\ task[w].at = "idle" /\ w \notin Celery
    BY DEF BeginRequest, At
  <1>5. TaskInv(w)'
    BY <1>1, <1>3, <1>4 DEF TaskInv
  <1>6. QED
    BY <1>1, <1>3, <1>4, <1>5, Idling DEF Outside

LEMMA BeginTaskInv ==
  ASSUME IInv, NEW w \in Workers, BeginTask(w)
  PROVE  IInv'
  <1>1. task[w] \in Task /\ TaskInv(w) /\ Types
    BY DEF IInv, Types
  <1>2. PICK t \in Task : t = [task[w] EXCEPT !.at = "serve"] /\ t.at = "serve" /\ t.ip = task[w].ip
    <2>1. "serve" \in Stages
      BY DEF Stages
    <2>2. QED
      BY <1>1, <2>1, GoesTask, Zenon
  <1>3. task' = [task EXCEPT ![w] = t] /\ UNCHANGED <<security, row, context>> /\ task[w].at = "idle" /\ w \in Celery
    BY <1>2 DEF BeginTask, Goes, At
  <1>4. task' \in [Workers -> Task] /\ context' \in [Workers -> From] /\ task'[w] = t /\ Others(w)
    BY <1>1, <1>3, Put
  <1>5. TaskInv(w)'
    BY <1>1, <1>2, <1>3, <1>4 DEF TaskInv
  <1>6. QED
    BY <1>2, <1>3, <1>4, <1>5, Idling DEF Outside

LEMMA EndInv ==
  ASSUME IInv, NEW w \in Workers, End(w)
  PROVE  IInv'
  <1>1. TaskInv(w) /\ Types
    BY DEF IInv
  <1>2. task' = [task EXCEPT ![w] = Idle] /\ UNCHANGED <<security, row, context>> /\ task[w].at = "serve"
    BY DEF End, Done, At
  <1>3. task' \in [Workers -> Task] /\ context' \in [Workers -> From] /\ task'[w] = Idle /\ Others(w)
    BY <1>1, <1>2, Put, IdleTask
  <1>4. TaskInv(w)'
    BY <1>1, <1>2, <1>3, IdleTask DEF TaskInv
  <1>5. QED
    BY <1>2, <1>3, <1>4, Idling, IdleTask DEF Outside

-----------------------------------------------------------------------------
(* A suspicious attempt.                                                    *)

\* The invariants that a step of an attempt leaves as they are, and what is left.
LEMMA AttemptStep ==
  ASSUME IInv, NEW w \in Workers, NEW t \in Task, task' = [task EXCEPT ![w] = t],
         UNCHANGED <<row, context>>, task[w].at # "entry",
         logged' \in [Addresses -> Nat], banned' \subseteq Addresses, score' \in 0..FullScore,
         attempts' \in 0..MaxAttempts, penalties' \in Nat, penalties <= penalties',
         TaskInv(w)', CountInv', ScoreInv'
  PROVE  IInv'
  <1>1. Types /\ EntryInv /\ ChangeInv
    BY DEF IInv
  <1>2. task' \in [Workers -> Task] /\ context' \in [Workers -> From] /\ Others(w)
    BY <1>1, Put
  <1>3. EntryInv' /\ ChangeInv'
    BY <1>1, <1>2, SameRow
  <1>4. Types' /\ version <= version' /\ \A v \in 1..version : origin'[v] = origin[v]
    BY <1>1, <1>2 DEF Types, row
  <1>5. QED
    BY <1>2, <1>3, <1>4, Moves

LEMMA AttemptInv ==
  ASSUME IInv, NEW w \in Workers, NEW ip \in Addresses, context[w] = ip, Attempt(w, ip)
  PROVE  IInv'
  <1>1. Types /\ TaskInv(w) /\ CountInv /\ ScoreInv /\ task[w] \in Task
    BY DEF IInv, Types
  <1>2. PICK sc \in 0..FullScore : sc = IF task[w].signed THEN score ELSE 0
    BY <1>1 DEF Types
  <1>3. PICK t \in Task : /\ t = [task[w] EXCEPT !.at = "count", !.ip = ip, !.score = sc]
                          /\ t.at = "count" /\ t.ip = ip /\ t.score = sc /\ t.signed = task[w].signed
    <2>1. ip \in From
      BY DEF From
    <2>2. \A i \in From, s \in 0..FullScore :
            \E u \in Task : /\ u = [task[w] EXCEPT !.at = "count", !.ip = i, !.score = s]
                            /\ u.at = "count" /\ u.ip = i /\ u.score = s /\ u.signed = task[w].signed
      BY <1>1, AttemptTask, Zenon
    <2>3. QED
      BY <2>1, <2>2, Zenon
  <1>4. task' = [task EXCEPT ![w] = t]
    BY <1>2, <1>3 DEF Attempt
  <1>5. /\ UNCHANGED <<logged, banned, score, penalties, row, context>> /\ task[w].at = "serve"
        /\ w \notin Celery /\ attempts < MaxAttempts /\ attempts' = attempts + 1
    BY DEF Attempt, At
  <1>6. task'[w] = t /\ Others(w) /\ task' \in [Workers -> Task]
    BY <1>1, <1>4, <1>5, Put
  <1>7. /\ w \in Unlogged' /\ w \notin Unlogged /\ w \in Unpenalised' /\ w \notin Unpenalised
        /\ \A a : w \notin Counted(a) /\ w \notin Counted(a)'
    BY <1>3, <1>5, <1>6 DEF Unlogged, Unpenalised, Counted
  <1>8. /\ Cardinality(Unlogged') = Cardinality(Unlogged) + 1
        /\ Cardinality(Unpenalised') = Cardinality(Unpenalised) + 1
    BY <1>6, <1>7, Lag, SetOnce, Finite
  <1>9. \A a : Counted(a)' = Counted(a)
    BY <1>6, <1>7, Lag
  <1>10. CountInv'
    <2>1. /\ attempts \in Nat /\ penalties \in Nat /\ \A a \in Addresses : logged[a] \in Nat
      BY <1>1 DEF Types
    <2>2. /\ Cardinality(Unlogged) \in Nat /\ Cardinality(Unpenalised) \in Nat
      BY Finite
    <2>3. \A a \in Addresses : logged'[a] + Cardinality(Unlogged') <= attempts'
      BY <1>1, <1>5, <1>8, <2>1, <2>2 DEF CountInv
    <2>4. penalties' + Cardinality(Unpenalised') <= attempts'
      BY <1>1, <1>5, <1>8, <2>1, <2>2 DEF CountInv
    <2>5. \A a \in Addresses : logged'[a] >= 2 /\ a \notin banned' =>
            logged'[a] + Cardinality(Counted(a)') <= 1 + Cardinality(Servers)
      BY <1>1, <1>5, <1>9 DEF CountInv
    <2>6. QED
      BY <2>3, <2>4, <2>5 DEF CountInv, Servers
  <1>11. ScoreInv'
    BY <1>1, <1>5 DEF ScoreInv
  <1>12. TaskInv(w)'
    <2>1. t.signed => t.score + penalties' >= FullScore
      BY <1>1, <1>2, <1>3, <1>5 DEF ScoreInv
    <2>2. QED
      BY <1>3, <1>5, <1>6, <2>1 DEF TaskInv
  <1>13. /\ logged' \in [Addresses -> Nat] /\ banned' \subseteq Addresses /\ score' \in 0..FullScore
         /\ attempts' \in 0..MaxAttempts /\ penalties' \in Nat /\ penalties <= penalties'
    BY <1>1, <1>5 DEF Types
  <1>14. QED
    BY <1>4, <1>5, <1>10, <1>11, <1>12, <1>13, AttemptStep

LEMMA CountAttemptsInv ==
  ASSUME IInv, NEW w \in Workers, CountAttempts(w)
  PROVE  IInv'
  <1>1. Types /\ TaskInv(w) /\ CountInv /\ ScoreInv /\ task[w] \in Task
    BY DEF IInv, Types
  <1>2. /\ UNCHANGED <<security, row, context>> /\ task[w].at = "count"
        /\ w \notin Celery /\ task[w].ip \in Addresses /\ context[w] = task[w].ip
    BY <1>1 DEF CountAttempts, At, TaskInv
  <1>3. PICK at \in Stages : /\ at = IF ReachesLimit(logged[task[w].ip]) THEN "ban" ELSE AfterBan(w)
    BY DEF Stages, AfterBan
  <1>4. PICK t \in Task : /\ t = [task[w] EXCEPT !.at = at]
                          /\ t.at = at /\ t.ip = task[w].ip /\ t.signed = task[w].signed
                          /\ t.score = task[w].score /\ t.change = task[w].change
    BY <1>1, GoesTask, Zenon
  <1>5. task' = [task EXCEPT ![w] = t]
    BY <1>3, <1>4 DEF CountAttempts, Goes
  <1>6. task'[w] = t /\ Others(w) /\ task' \in [Workers -> Task]
    BY <1>1, <1>2, <1>5, Put
  <1>7. /\ at \in {"ban", "penalise", "insert"} /\ (at = "penalise" => task[w].signed)
        /\ at # "ban" => logged[task[w].ip] < 2
    BY <1>1, <1>2, <1>3 DEF AfterBan, ReachesLimit, Types
  <1>8. TaskInv(w)'
    BY <1>1, <1>2, <1>4, <1>6, <1>7 DEF TaskInv, security
  <1>9. w \in Unlogged /\ w \in Unlogged' /\ w \in Unpenalised
    BY <1>2, <1>4, <1>6, <1>7 DEF Unlogged, Unpenalised
  <1>10. CountInv'
    <2>1. /\ attempts \in Nat /\ penalties \in Nat /\ \A a \in Addresses : logged[a] \in Nat
      BY <1>1 DEF Types
    <2>2. Cardinality(Unlogged') = Cardinality(Unlogged)
      BY <1>6, <1>9, Lag, SetOnce, Finite
    <2>3. Cardinality(Unpenalised') \in Nat /\ Cardinality(Unpenalised') <= Cardinality(Unpenalised)
      <3>1. Unpenalised' \subseteq Unpenalised
        BY <1>6, <1>9, Lag
      <3>2. QED
        BY <3>1, Fewer, Finite
    <2>4. penalties + Cardinality(Unpenalised') <= attempts
      BY <1>1, <2>1, <2>3, Finite DEF CountInv
    <2>5. ASSUME NEW a \in Addresses, logged[a] >= 2, a \notin banned
          PROVE  logged[a] + Cardinality(Counted(a)') <= 1 + Cardinality(Servers)
      <3>1. w \notin Counted(a) /\ w \notin Counted(a)'
        <4>1. a # task[w].ip \/ at = "ban"
          BY <1>2, <1>7, <2>1, <2>5
        <4>2. w \notin Counted(a)
          BY <1>2 DEF Counted
        <4>3. task'[w].ip # a \/ task'[w].at \notin {"penalise", "insert"}
          BY <1>4, <1>6, <4>1
        <4>4. QED
          BY <4>2, <4>3 DEF Counted
      <3>2. Counted(a)' = Counted(a)
        BY <1>6, <3>1, Lag
      <3>3. QED
        BY <1>1, <2>5, <3>2 DEF CountInv
    <2>6. QED
      BY <1>1, <1>2, <2>2, <2>4, <2>5 DEF CountInv, Servers, security
  <1>11. ScoreInv'
    BY <1>1, <1>2 DEF ScoreInv, security
  <1>12. /\ logged' \in [Addresses -> Nat] /\ banned' \subseteq Addresses /\ score' \in 0..FullScore
         /\ attempts' \in 0..MaxAttempts /\ penalties' \in Nat /\ penalties <= penalties'
    BY <1>1, <1>2 DEF Types, security
  <1>13. QED
    BY <1>2, <1>5, <1>8, <1>10, <1>11, <1>12, AttemptStep

LEMMA BanInv ==
  ASSUME IInv, NEW w \in Workers, Ban(w)
  PROVE  IInv'
  <1>1. Types /\ TaskInv(w) /\ CountInv /\ ScoreInv /\ task[w] \in Task
    BY DEF IInv, Types
  <1>2. /\ UNCHANGED <<logged, score, attempts, penalties, row, context>> /\ task[w].at = "ban"
        /\ banned' = banned \cup {task[w].ip}
        /\ w \notin Celery /\ task[w].ip \in Addresses /\ context[w] = task[w].ip
    BY <1>1 DEF Ban, At, TaskInv
  <1>3. PICK at \in Stages : at = AfterBan(w)
    BY DEF Stages, AfterBan
  <1>4. PICK t \in Task : /\ t = [task[w] EXCEPT !.at = at]
                          /\ t.at = at /\ t.ip = task[w].ip /\ t.signed = task[w].signed
                          /\ t.score = task[w].score /\ t.change = task[w].change
    BY <1>1, GoesTask, Zenon
  <1>5. task' = [task EXCEPT ![w] = t]
    BY <1>3, <1>4 DEF Ban, Goes
  <1>6. task'[w] = t /\ Others(w) /\ task' \in [Workers -> Task]
    BY <1>1, <1>2, <1>5, Put
  <1>7. at \in {"penalise", "insert"} /\ (at = "penalise" => task[w].signed)
    BY <1>3 DEF AfterBan
  <1>8. TaskInv(w)'
    BY <1>1, <1>2, <1>4, <1>6, <1>7 DEF TaskInv
  <1>9. w \in Unlogged /\ w \in Unlogged' /\ w \in Unpenalised
    BY <1>2, <1>4, <1>6, <1>7 DEF Unlogged, Unpenalised
  <1>10. CountInv'
    <2>1. /\ attempts \in Nat /\ penalties \in Nat /\ \A a \in Addresses : logged[a] \in Nat
      BY <1>1 DEF Types
    <2>2. Cardinality(Unlogged') = Cardinality(Unlogged)
      BY <1>6, <1>9, Lag, SetOnce, Finite
    <2>3. Cardinality(Unpenalised') \in Nat /\ Cardinality(Unpenalised') <= Cardinality(Unpenalised)
      <3>1. Unpenalised' \subseteq Unpenalised
        BY <1>6, <1>9, Lag
      <3>2. QED
        BY <3>1, Fewer, Finite
    <2>4. penalties + Cardinality(Unpenalised') <= attempts
      BY <1>1, <2>1, <2>3, Finite DEF CountInv
    <2>5. ASSUME NEW a \in Addresses, logged[a] >= 2, a \notin banned'
          PROVE  logged[a] + Cardinality(Counted(a)') <= 1 + Cardinality(Servers)
      <3>1. a # task[w].ip /\ a \notin banned
        BY <1>2, <2>5
      <3>2. w \notin Counted(a) /\ w \notin Counted(a)'
        BY <1>4, <1>6, <3>1 DEF Counted
      <3>3. Counted(a)' = Counted(a)
        BY <1>6, <3>2, Lag
      <3>4. QED
        BY <1>1, <2>5, <3>1, <3>3 DEF CountInv
    <2>6. QED
      BY <1>1, <1>2, <2>2, <2>4, <2>5 DEF CountInv, Servers
  <1>11. ScoreInv'
    BY <1>1, <1>2 DEF ScoreInv
  <1>12. /\ logged' \in [Addresses -> Nat] /\ banned' \subseteq Addresses /\ score' \in 0..FullScore
         /\ attempts' \in 0..MaxAttempts /\ penalties' \in Nat /\ penalties <= penalties'
    BY <1>1, <1>2 DEF Types
  <1>13. QED
    BY <1>2, <1>5, <1>8, <1>10, <1>11, <1>12, AttemptStep

LEMMA PenaliseInv ==
  ASSUME IInv, NEW w \in Workers, Penalise(w)
  PROVE  IInv'
  <1>1. Types /\ TaskInv(w) /\ CountInv /\ ScoreInv /\ task[w] \in Task
    BY DEF IInv, Types
  <1>2. /\ UNCHANGED <<logged, banned, attempts, row, context>> /\ task[w].at = "penalise"
        /\ penalties' = penalties + 1 /\ task[w].signed
        /\ w \notin Celery /\ task[w].ip \in Addresses /\ context[w] = task[w].ip
    BY <1>1 DEF Penalise, At, TaskInv
  <1>3. PICK sc \in 0..FullScore : sc = task[w].score /\ sc + penalties >= FullScore
    BY <1>1, <1>2, TaskFields DEF TaskInv
  <1>4. PICK t \in Task : /\ t = [task[w] EXCEPT !.at = "insert"]
                          /\ t.at = "insert" /\ t.ip = task[w].ip /\ t.signed = task[w].signed
                          /\ t.score = task[w].score /\ t.change = task[w].change
    <2>1. "insert" \in Stages
      BY DEF Stages
    <2>2. QED
      BY <1>1, <2>1, GoesTask, Zenon
  <1>5. task' = [task EXCEPT ![w] = t]
    BY <1>4 DEF Penalise, Goes
  <1>6. task'[w] = t /\ Others(w) /\ task' \in [Workers -> Task]
    BY <1>1, <1>2, <1>5, Put
  <1>7. TaskInv(w)'
    BY <1>1, <1>2, <1>4, <1>6 DEF TaskInv
  <1>8. /\ w \in Unlogged /\ w \in Unlogged' /\ w \in Unpenalised /\ w \notin Unpenalised'
        /\ \A a : w \in Counted(a) <=> w \in Counted(a)'
    BY <1>2, <1>4, <1>6 DEF Unlogged, Unpenalised, Counted
  <1>9. CountInv'
    <2>1. /\ attempts \in Nat /\ penalties \in Nat /\ \A a \in Addresses : logged[a] \in Nat
      BY <1>1 DEF Types
    <2>2. /\ Cardinality(Unlogged') = Cardinality(Unlogged)
          /\ Cardinality(Unpenalised') = Cardinality(Unpenalised) - 1
      BY <1>6, <1>8, Lag, SetOnce, Finite
    <2>3. penalties' + Cardinality(Unpenalised') <= attempts
      BY <1>1, <1>2, <2>1, <2>2, Finite DEF CountInv
    <2>4. \A a : Counted(a)' = Counted(a)
      BY <1>6, <1>8, Lag
    <2>5. QED
      BY <1>1, <1>2, <2>2, <2>3, <2>4 DEF CountInv, Servers
  <1>10. score' = Penalised(sc) /\ score' \in 0..FullScore
    BY <1>3 DEF Penalise, Penalised
  <1>11. ScoreInv'
    BY <1>1, <1>2, <1>3, <1>10 DEF ScoreInv, Penalised, Types
  <1>12. /\ logged' \in [Addresses -> Nat] /\ banned' \subseteq Addresses
         /\ attempts' \in 0..MaxAttempts /\ penalties' \in Nat /\ penalties <= penalties'
    BY <1>1, <1>2 DEF Types
  <1>13. QED
    BY <1>2, <1>5, <1>7, <1>9, <1>10, <1>11, <1>12, AttemptStep

LEMMA InsertAttemptInv ==
  ASSUME IInv, NEW w \in Workers, InsertAttempt(w)
  PROVE  IInv'
  <1>1. Types /\ TaskInv(w) /\ CountInv /\ ScoreInv /\ task[w] \in Task
    BY DEF IInv, Types
  <1>2. /\ UNCHANGED <<banned, score, attempts, penalties, row, context>> /\ task[w].at = "insert"
        /\ logged' = [logged EXCEPT ![task[w].ip] = @ + 1]
        /\ task' = [task EXCEPT ![w] = Idle]
        /\ w \notin Celery /\ task[w].ip \in Addresses
    BY <1>1 DEF InsertAttempt, Done, At, TaskInv
  <1>3. task'[w] = Idle /\ Others(w) /\ task' \in [Workers -> Task]
    BY <1>1, <1>2, Put, IdleTask
  <1>4. TaskInv(w)'
    BY <1>1, <1>2, <1>3, IdleTask DEF TaskInv
  <1>5. /\ w \in Unlogged /\ w \notin Unlogged' /\ w \notin Unpenalised /\ w \notin Unpenalised'
        /\ w \in Counted(task[w].ip) /\ \A a : w \notin Counted(a)'
        /\ \A a : a # task[w].ip => w \notin Counted(a)
    BY <1>2, <1>3, IdleTask DEF Unlogged, Unpenalised, Counted
  <1>6. PICK ip \in Addresses : ip = task[w].ip
    BY <1>2
  <1>7. /\ logged' \in [Addresses -> Nat] /\ logged'[ip] = logged[ip] + 1
        /\ \A a \in Addresses \ {ip} : logged'[a] = logged[a]
    BY <1>1, <1>2, <1>6 DEF Types
  <1>8. CountInv'
    <2>1. /\ attempts \in Nat /\ penalties \in Nat /\ \A a \in Addresses : logged[a] \in Nat
      BY <1>1 DEF Types
    <2>2. /\ Cardinality(Unlogged') = Cardinality(Unlogged) - 1
          /\ Cardinality(Unpenalised') = Cardinality(Unpenalised)
      BY <1>3, <1>5, Lag, SetOnce, Finite
    <2>3. \A a \in Addresses : logged'[a] + Cardinality(Unlogged') <= attempts'
      <3>1. \A a \in Addresses : logged[a] + Cardinality(Unlogged) <= attempts
        BY <1>1 DEF CountInv
      <3>2. \A a \in Addresses : logged'[a] \in Nat /\ logged'[a] <= logged[a] + 1
        BY <1>7, <2>1
      <3>3. QED
        BY <1>2, <2>1, <2>2, <3>1, <3>2, Finite
    <2>4. ASSUME NEW a \in Addresses, logged'[a] >= 2, a \notin banned'
          PROVE  logged'[a] + Cardinality(Counted(a)') <= 1 + Cardinality(Servers)
      <3>1. CASE a # ip
        <4>1. Counted(a)' = Counted(a)
          BY <1>3, <1>5, <1>6, <3>1, Lag
        <4>2. QED
          BY <1>1, <1>2, <1>7, <2>4, <3>1, <4>1 DEF CountInv
      <3>2. CASE a = ip
        <4>1. Cardinality(Counted(ip)') = Cardinality(Counted(ip)) - 1
          BY <1>3, <1>5, <1>6, Lag, SetOnce, Finite
        <4>2. CASE logged[ip] >= 2
          <5>1. logged[ip] + Cardinality(Counted(ip)) <= 1 + Cardinality(Servers)
            BY <1>1, <1>2, <2>4, <3>2, <4>2 DEF CountInv
          <5>2. QED
            BY <1>7, <2>1, <3>2, <4>1, <5>1, Finite
        <4>3. CASE logged[ip] = 1
          <5>1. Counted(ip) \subseteq Servers
            <6>1. \A x \in Workers : task[x].at \in {"penalise", "insert"} => x \notin Celery
              BY DEF IInv, TaskInv
            <6>2. QED
              BY <6>1 DEF Counted, Servers
          <5>2. Cardinality(Counted(ip)) <= Cardinality(Servers)
            BY <5>1, Fewer, Finite
          <5>3. QED
            BY <1>7, <3>2, <4>1, <4>3, <5>2, Finite
        <4>4. QED
          BY <1>7, <2>1, <2>4, <3>2, <4>2, <4>3
      <3>3. QED
        BY <3>1, <3>2
    <2>5. QED
      BY <1>1, <1>2, <2>2, <2>3, <2>4 DEF CountInv, Servers
  <1>9. ScoreInv'
    BY <1>1, <1>2 DEF ScoreInv
  <1>10. /\ banned' \subseteq Addresses /\ score' \in 0..FullScore
         /\ attempts' \in 0..MaxAttempts /\ penalties' \in Nat /\ penalties <= penalties'
    BY <1>1, <1>2 DEF Types
  <1>11. QED
    BY <1>2, <1>4, <1>7, <1>8, <1>9, <1>10, AttemptStep, IdleTask

-----------------------------------------------------------------------------
(* Changes of the row.                                                      *)

LEMMA ChangesRow ==
  ASSUME Types, EntryInv, NEW ip \in From, Changes(ip)
  PROVE  /\ version' = version + 1 /\ version' \in 1..MaxVersion /\ version <= version'
         /\ origin' \in Seq(From) /\ Len(origin') = version'
         /\ origin'[version'] = ip /\ \A v \in 1..version : origin'[v] = origin[v]
         /\ \A e \in entries : e.change <= version' /\ e.ip = origin'[e.change]
  <1>1. /\ version \in Nat /\ version < MaxVersion /\ version' = version + 1
        /\ origin \in Seq(From) /\ Len(origin) = version /\ origin' = Append(origin, ip)
    BY DEF Types, Changes
  <1>2. /\ origin' \in Seq(From) /\ Len(origin') = version'
        /\ origin'[version'] = ip /\ \A v \in 1..version : origin'[v] = origin[v]
    BY <1>1, AppendProperties
  <1>3. ASSUME NEW e \in entries
        PROVE  e.change <= version' /\ e.ip = origin'[e.change]
    <2>1. e.change \in 1..version /\ e.ip = origin[e.change]
      BY <1>1 DEF Types, Entry, EntryInv
    <2>2. QED
      BY <1>1, <1>2, <2>1
  <1>4. version' \in 1..MaxVersion /\ version <= version'
    BY <1>1
  <1>5. \A e \in entries : e.change <= version' /\ e.ip = origin'[e.change]
    BY <1>3
  <1>6. QED
    BY <1>1, <1>2, <1>4, <1>5, Zenon

\* The address of a worker that serves is the one in its thread.
LEMMA ServingAddress ==
  ASSUME Types, NEW w \in Workers, TaskInv(w), task[w].at \in {"serve", "entry"}
  PROVE  task[w].ip \in From /\ context[w] = task[w].ip
  BY DEF Types, TaskInv, From

\* The changes that were accounted for stay so, if w keeps its change.
LEMMA ChangesKept ==
  ASSUME ChangeInv, NEW w \in Workers, Others(w),
         silent \subseteq silent', entries \subseteq entries',
         task[w].at = "entry" => \/ task[w].change \in silent'
                                 \/ \E e \in entries' : e.change = task[w].change,
         NEW v \in 1..version
  PROVE  \/ v \in silent'
         \/ \E e \in entries' : e.change = v
         \/ \E x \in Workers : task'[x].at = "entry" /\ task'[x].change = v
  <1>1. CASE \E x \in Workers : At(x, "entry") /\ task[x].change = v
    <2>1. PICK x \in Workers : task[x].at = "entry" /\ task[x].change = v
      BY <1>1 DEF At
    <2>2. CASE x = w
      BY <2>1, <2>2
    <2>3. CASE x # w
      BY <2>1, <2>3 DEF Others
    <2>4. QED
      BY <2>2, <2>3
  <1>2. CASE v \in silent
    BY <1>2
  <1>3. CASE \E e \in entries : e.change = v
    BY <1>3
  <1>4. QED
    BY <1>1, <1>2, <1>3 DEF ChangeInv

LEMMA SaveInv ==
  ASSUME IInv, NEW w \in Workers, Save(w)
  PROVE  IInv'
  <1>1. Types /\ TaskInv(w) /\ CountInv /\ ScoreInv /\ EntryInv /\ ChangeInv /\ task[w] \in Task
    BY DEF IInv, Types
  <1>2. /\ UNCHANGED <<security, entries, silent, context>> /\ task[w].at = "serve"
        /\ Changes(task[w].ip)
        /\ task' = [task EXCEPT ![w] = [task[w] EXCEPT !.at = "entry", !.change = version + 1]]
    BY DEF Save, At
  <1>3. PICK ip \in From : ip = task[w].ip /\ ip = context[w]
    BY <1>1, <1>2, ServingAddress
  <1>4. /\ version' = version + 1 /\ version' \in 1..MaxVersion /\ version <= version'
        /\ origin' \in Seq(From) /\ Len(origin') = version'
        /\ origin'[version'] = ip /\ \A v \in 1..version : origin'[v] = origin[v]
        /\ \A e \in entries : e.change <= version' /\ e.ip = origin'[e.change]
    BY <1>1, <1>2, <1>3, ChangesRow
  <1>5. PICK ch \in 0..MaxVersion : ch = version + 1 /\ ch \in 1..version' /\ ch = version'
    BY <1>4
  <1>6. PICK t \in Task : /\ t = [task[w] EXCEPT !.at = "entry", !.change = ch]
                          /\ t.at = "entry" /\ t.ip = task[w].ip /\ t.change = ch
    <2>1. "entry" \in Stages
      BY DEF Stages
    <2>2. \A at \in Stages, c \in 0..MaxVersion :
            \E u \in Task : /\ u = [task[w] EXCEPT !.at = at, !.change = c]
                            /\ u.at = at /\ u.ip = task[w].ip /\ u.change = c
      BY <1>1, ChangeTask, Zenon
    <2>3. QED
      BY <2>1, <2>2, Zenon
  <1>7. task' = [task EXCEPT ![w] = t]
    BY <1>2, <1>5, <1>6
  <1>8. task' \in [Workers -> Task] /\ context' \in [Workers -> From] /\ task'[w] = t /\ Others(w)
    BY <1>1, <1>2, <1>7, Put
  <1>9. CountInv' /\ ScoreInv'
    BY <1>1, <1>2, <1>6, <1>8, SameSecurity DEF Outside
  <1>10. TaskInv(w)'
    BY <1>1, <1>2, <1>3, <1>4, <1>5, <1>6, <1>8 DEF TaskInv
  <1>11. EntryInv'
    BY <1>2, <1>4 DEF EntryInv
  <1>12. ChangeInv'
    <2>1. ASSUME NEW v \in 1..version'
          PROVE  \/ v \in silent'
                 \/ \E e \in entries' : e.change = v
                 \/ \E x \in Workers : task'[x].at = "entry" /\ task'[x].change = v
      <3>1. CASE v = version'
        BY <1>5, <1>6, <1>8, <3>1
      <3>2. CASE v # version'
        <4>1. v \in 1..version
          BY <1>1, <1>4, <3>2 DEF Types
        <4>2. QED
          BY <1>1, <1>2, <1>8, <4>1, ChangesKept
      <3>3. QED
        BY <3>1, <3>2
    <2>2. QED
      BY <2>1 DEF ChangeInv, At
  <1>13. Types' /\ penalties <= penalties'
    BY <1>1, <1>2, <1>4, <1>8 DEF Types, security
  <1>14. QED
    BY <1>4, <1>8, <1>9, <1>10, <1>11, <1>12, <1>13, Moves

LEMMA LogEntryInv ==
  ASSUME IInv, NEW w \in Workers, LogEntry(w)
  PROVE  IInv'
  <1>1. Types /\ TaskInv(w) /\ CountInv /\ ScoreInv /\ EntryInv /\ ChangeInv /\ task[w] \in Task
    BY DEF IInv, Types
  <1>2. /\ UNCHANGED <<security, version, origin, silent, context>> /\ task[w].at = "entry"
        /\ entries' = entries \cup {Says(w, task[w].change)}
        /\ task' = [task EXCEPT ![w] = [task[w] EXCEPT !.at = "serve", !.change = 0]]
    BY DEF LogEntry, At
  <1>3. PICK ip \in From : ip = task[w].ip /\ ip = context[w]
    BY <1>1, <1>2, ServingAddress
  <1>4. PICK ch \in 1..version : ch = task[w].change /\ origin[ch] = ip
    BY <1>1, <1>2, <1>3 DEF TaskInv
  <1>5. PICK t \in Task : /\ t = [task[w] EXCEPT !.at = "serve", !.change = 0]
                          /\ t.at = "serve" /\ t.ip = task[w].ip /\ t.change = 0
    <2>1. "serve" \in Stages /\ 0 \in 0..MaxVersion
      BY DEF Stages
    <2>2. \A at \in Stages, c \in 0..MaxVersion :
            \E u \in Task : /\ u = [task[w] EXCEPT !.at = at, !.change = c]
                            /\ u.at = at /\ u.ip = task[w].ip /\ u.change = c
      BY <1>1, ChangeTask, Zenon
    <2>3. QED
      BY <2>1, <2>2, Zenon
  <1>6. task' = [task EXCEPT ![w] = t]
    BY <1>2, <1>5
  <1>7. task' \in [Workers -> Task] /\ context' \in [Workers -> From] /\ task'[w] = t /\ Others(w)
    BY <1>1, <1>2, <1>6, Put
  <1>8. CountInv' /\ ScoreInv'
    BY <1>1, <1>2, <1>5, <1>7, SameSecurity DEF Outside
  <1>9. TaskInv(w)'
    BY <1>1, <1>2, <1>3, <1>5, <1>7 DEF TaskInv
  <1>10. PICK e \in Entry : e = Says(w, task[w].change) /\ e.change = ch /\ e.ip = ip
    <2>1. ch \in 1..MaxVersion
      BY <1>1 DEF Types
    <2>2. [change |-> ch, ip |-> ip] \in Entry
      BY <2>1 DEF Entry
    <2>3. QED
      BY <1>3, <1>4, <2>2 DEF Says
  <1>11. entries' = entries \cup {e}
    BY <1>2, <1>10
  <1>12. EntryInv'
    BY <1>1, <1>2, <1>4, <1>10, <1>11 DEF EntryInv, Types
  <1>13. ChangeInv'
    BY <1>1, <1>2, <1>4, <1>7, <1>10, <1>11, ChangesKept DEF ChangeInv, At
  <1>14. Types' /\ version <= version' /\ penalties <= penalties'
    BY <1>1, <1>2, <1>7, <1>11 DEF Types, security
  <1>15. QED
    BY <1>2, <1>7, <1>8, <1>9, <1>12, <1>13, <1>14, Moves

LEMMA SaveAtomicInv ==
  ASSUME IInv, NEW w \in Workers, SaveAtomic(w)
  PROVE  IInv'
  <1>1. Types /\ TaskInv(w) /\ CountInv /\ ScoreInv /\ EntryInv /\ ChangeInv
    BY DEF IInv
  <1>2. /\ UNCHANGED <<security, silent, task, context>> /\ task[w].at = "serve"
        /\ Changes(task[w].ip)
        /\ entries' = entries \cup {Says(w, version + 1)}
    BY DEF SaveAtomic, At
  <1>3. PICK ip \in From : ip = task[w].ip /\ ip = context[w]
    BY <1>1, <1>2, ServingAddress
  <1>4. /\ version' = version + 1 /\ version' \in 1..MaxVersion /\ version <= version'
        /\ origin' \in Seq(From) /\ Len(origin') = version'
        /\ origin'[version'] = ip /\ \A v \in 1..version : origin'[v] = origin[v]
        /\ \A e \in entries : e.change <= version' /\ e.ip = origin'[e.change]
    BY <1>1, <1>2, <1>3, ChangesRow
  <1>5. task' \in [Workers -> Task] /\ context' \in [Workers -> From] /\ Others(w) /\ TaskInv(w)'
    BY <1>1, <1>2 DEF Types, Others, TaskInv
  <1>6. CountInv' /\ ScoreInv'
    BY <1>1, <1>2, <1>5, SameSecurity DEF Outside
  <1>7. PICK e \in Entry : e = Says(w, version + 1) /\ e.change = version' /\ e.ip = ip
    <2>1. [change |-> version', ip |-> ip] \in Entry
      BY <1>4 DEF Entry
    <2>2. QED
      BY <1>3, <1>4, <2>1 DEF Says
  <1>8. entries' = entries \cup {e}
    BY <1>2, <1>7
  <1>9. EntryInv'
    BY <1>4, <1>7, <1>8 DEF EntryInv
  <1>10. ChangeInv'
    <2>1. ASSUME NEW v \in 1..version'
          PROVE  \/ v \in silent'
                 \/ \E f \in entries' : f.change = v
                 \/ \E x \in Workers : task'[x].at = "entry" /\ task'[x].change = v
      <3>1. CASE v = version'
        BY <1>7, <1>8, <3>1
      <3>2. CASE v # version'
        <4>1. v \in 1..version
          BY <1>1, <1>4, <3>2 DEF Types
        <4>2. QED
          BY <1>1, <1>2, <1>5, <1>8, <4>1, ChangesKept
      <3>3. QED
        BY <3>1, <3>2
    <2>2. QED
      BY <2>1 DEF ChangeInv, At
  <1>11. Types' /\ penalties <= penalties'
    BY <1>1, <1>2, <1>4, <1>5, <1>8 DEF Types, security
  <1>12. QED
    BY <1>4, <1>5, <1>6, <1>9, <1>10, <1>11, Moves

LEMMA BulkUpdateInv ==
  ASSUME IInv, NEW w \in Workers, BulkUpdate(w)
  PROVE  IInv'
  <1>1. Types /\ TaskInv(w) /\ CountInv /\ ScoreInv /\ EntryInv /\ ChangeInv
    BY DEF IInv
  <1>2. /\ UNCHANGED <<security, entries, task, context>> /\ task[w].at = "serve"
        /\ Changes(task[w].ip)
        /\ silent' = silent \cup {version + 1}
    BY DEF BulkUpdate, At
  <1>3. PICK ip \in From : ip = task[w].ip /\ ip = context[w]
    BY <1>1, <1>2, ServingAddress
  <1>4. /\ version' = version + 1 /\ version' \in 1..MaxVersion /\ version <= version'
        /\ origin' \in Seq(From) /\ Len(origin') = version'
        /\ origin'[version'] = ip /\ \A v \in 1..version : origin'[v] = origin[v]
        /\ \A e \in entries : e.change <= version' /\ e.ip = origin'[e.change]
    BY <1>1, <1>2, <1>3, ChangesRow
  <1>5. task' \in [Workers -> Task] /\ context' \in [Workers -> From] /\ Others(w) /\ TaskInv(w)'
    BY <1>1, <1>2 DEF Types, Others, TaskInv
  <1>6. CountInv' /\ ScoreInv'
    BY <1>1, <1>2, <1>5, SameSecurity DEF Outside
  <1>7. EntryInv'
    BY <1>2, <1>4 DEF EntryInv
  <1>8. ChangeInv'
    <2>1. ASSUME NEW v \in 1..version'
          PROVE  \/ v \in silent'
                 \/ \E f \in entries' : f.change = v
                 \/ \E x \in Workers : task'[x].at = "entry" /\ task'[x].change = v
      <3>1. CASE v = version'
        BY <1>2, <1>4, <3>1
      <3>2. CASE v # version'
        <4>1. v \in 1..version
          BY <1>1, <1>4, <3>2 DEF Types
        <4>2. QED
          BY <1>1, <1>2, <1>5, <4>1, ChangesKept
      <3>3. QED
        BY <3>1, <3>2
    <2>2. QED
      BY <2>1 DEF ChangeInv, At
  <1>9. silent' \subseteq 1..version'
    <2>1. 1..version \subseteq 1..version' /\ version + 1 \in 1..version'
      BY <1>1, <1>4 DEF Types
    <2>2. silent \subseteq 1..version
      BY <1>1 DEF Types
    <2>3. QED
      BY <1>2, <2>1, <2>2
  <1>10. Types' /\ penalties <= penalties'
    BY <1>1, <1>2, <1>4, <1>5, <1>9 DEF Types, security
  <1>11. QED
    BY <1>4, <1>5, <1>6, <1>7, <1>8, <1>10, Moves

LEMMA DieInv ==
  ASSUME IInv, NEW w \in Workers, Die(w)
  PROVE  IInv'
  <1>1. Types /\ TaskInv(w) /\ CountInv /\ ScoreInv /\ EntryInv /\ ChangeInv /\ task[w] \in Task
    BY DEF IInv, Types
  <1>2. /\ UNCHANGED <<security, version, entries, origin, context>> /\ task[w].at # "idle"
        /\ silent' = IF task[w].at = "entry" THEN silent \cup {task[w].change} ELSE silent
        /\ task' = [task EXCEPT ![w] = Idle]
    BY DEF Die, Done, At
  <1>3. task' \in [Workers -> Task] /\ context' \in [Workers -> From] /\ task'[w] = Idle /\ Others(w)
    BY <1>1, <1>2, Put, IdleTask
  <1>4. TaskInv(w)'
    BY <1>1, <1>2, <1>3, IdleTask DEF TaskInv
  <1>5. /\ w \notin Unlogged' /\ w \notin Unpenalised' /\ \A a : w \notin Counted(a)'
    BY <1>3, IdleTask DEF Unlogged, Unpenalised, Counted
  <1>6. /\ Unlogged' \subseteq Unlogged /\ Unpenalised' \subseteq Unpenalised
        /\ \A a : Counted(a)' \subseteq Counted(a)
    BY <1>3, <1>5, Lag
  <1>7. /\ Cardinality(Unlogged') \in Nat /\ Cardinality(Unlogged') <= Cardinality(Unlogged)
        /\ Cardinality(Unpenalised') \in Nat /\ Cardinality(Unpenalised') <= Cardinality(Unpenalised)
        /\ \A a : Cardinality(Counted(a)') \in Nat /\ Cardinality(Counted(a)') <= Cardinality(Counted(a))
    BY <1>6, Fewer, Finite
  <1>8. CountInv'
    <2>1. /\ attempts \in Nat /\ penalties \in Nat /\ \A a \in Addresses : logged[a] \in Nat
          /\ UNCHANGED <<logged, banned, attempts, penalties>>
      BY <1>1, <1>2 DEF Types, security
    <2>2. \A a \in Addresses : logged'[a] + Cardinality(Unlogged') <= attempts'
      BY <1>1, <1>7, <2>1, Finite DEF CountInv
    <2>3. penalties' + Cardinality(Unpenalised') <= attempts'
      BY <1>1, <1>7, <2>1, Finite DEF CountInv
    <2>4. \A a \in Addresses : logged'[a] >= 2 /\ a \notin banned' =>
            logged'[a] + Cardinality(Counted(a)') <= 1 + Cardinality(Servers)
      BY <1>1, <1>7, <2>1, Finite DEF CountInv
    <2>5. QED
      BY <2>2, <2>3, <2>4 DEF CountInv, Servers
  <1>9. ScoreInv'
    BY <1>1, <1>2 DEF ScoreInv, security
  <1>10. EntryInv'
    BY <1>1, <1>2 DEF EntryInv
  <1>11. ChangeInv'
    BY <1>1, <1>2, <1>3, ChangesKept DEF ChangeInv, At
  <1>12. silent' \subseteq 1..version
    BY <1>1, <1>2 DEF Types, TaskInv
  <1>13. Types' /\ version <= version' /\ penalties <= penalties'
    BY <1>1, <1>2, <1>3, <1>12 DEF Types, security
  <1>14. QED
    BY <1>2, <1>3, <1>4, <1>8, <1>9, <1>10, <1>11, <1>13, Moves

-----------------------------------------------------------------------------
LEMMA StepIInv == IInv /\ [Next]_vars => IInv'
  <1> SUFFICES ASSUME IInv, [Next]_vars PROVE IInv'
    OBVIOUS
  <1>1. CASE UNCHANGED vars
    BY <1>1 DEF vars, IInv, Types, CountInv, ScoreInv, EntryInv, ChangeInv, TaskInv, Unlogged,
                Unpenalised, Counted, Servers, At
  <1>2. ASSUME NEW w \in Workers, WorkerStep(w) PROVE IInv'
    <2>1. CASE \E ip \in Addresses, signed \in BOOLEAN : BeginRequest(w, ip, signed)
      BY <2>1, BeginRequestInv
    <2>2. CASE BeginTask(w)
      BY <2>2, BeginTaskInv
    <2>3. CASE End(w)
      BY <2>3, EndInv
    <2>4. CASE LogFailedLogin(w) \/ Honeypot(w)
      <3>1. PICK ip \in Addresses : ip = task[w].ip /\ ip = context[w]
        BY <2>4 DEF LogFailedLogin, Honeypot, Attempt, At, IInv, TaskInv
      <3>2. Attempt(w, ip)
        BY <2>4, <3>1, Zenon DEF LogFailedLogin, Honeypot
      <3>3. QED
        BY <3>1, <3>2, AttemptInv
    <2>5. CASE CountAttempts(w)
      BY <2>5, CountAttemptsInv
    <2>6. CASE Ban(w)
      BY <2>6, BanInv
    <2>7. CASE Penalise(w)
      BY <2>7, PenaliseInv
    <2>8. CASE InsertAttempt(w)
      BY <2>8, InsertAttemptInv
    <2>9. CASE Save(w)
      BY <2>9, SaveInv
    <2>10. CASE LogEntry(w)
      BY <2>10, LogEntryInv
    <2>11. CASE SaveAtomic(w)
      BY <2>11, SaveAtomicInv
    <2>12. CASE BulkUpdate(w)
      BY <2>12, BulkUpdateInv
    <2>13. CASE Die(w)
      BY <2>13, DieInv
    <2>14. QED
      BY <1>2, <2>1, <2>2, <2>3, <2>4, <2>5, <2>6, <2>7, <2>8, <2>9, <2>10, <2>11, <2>12, <2>13
         DEF WorkerStep
  <1>3. QED
    BY <1>1, <1>2 DEF Next

LEMMA Invariance == Spec => []IInv
  BY InitIInv, StepIInv, PTL DEF Spec

(* Theorems.                                                                *)

\* An address is banned by its third suspicious attempt, or as many attempts later
\* as there are other workers (audit services.py:88-98).
THEOREM BannedByTheLimit == Spec => []BannedInTime
  <1>1. IInv => BannedInTime
    <2> SUFFICES ASSUME IInv, NEW a \in Addresses, logged[a] >= 2 + Cardinality(Servers), a \notin banned
                 PROVE  FALSE
      BY DEF BannedInTime, Servers
    <2>1. logged[a] \in Nat /\ Cardinality(Servers) \in Nat /\ Cardinality(Counted(a)) \in Nat
      BY Finite DEF IInv, Types
    <2>2. logged[a] >= 2
      BY <2>1
    <2>3. logged[a] + Cardinality(Counted(a)) <= 1 + Cardinality(Servers)
      BY <2>2 DEF IInv, CountInv
    <2>4. QED
      BY <2>1, <2>3
  <1>2. QED
    BY <1>1, Invariance, PTL

\* The state is well typed, and concurrent penalties overwrite each other but
\* neither cost more than half a point each nor vanish altogether
\* (audit services.py:101-104).
THEOREM PenaltiesNeverVanish == Spec => []PenaltiesCount
  <1>1. IInv => TypeOK
    <2> SUFFICES ASSUME IInv PROVE TypeOK
      OBVIOUS
    <2>1. Types /\ CountInv
      BY DEF IInv
    <2>2. \A a \in Addresses : logged[a] \in 0..MaxAttempts
      BY <2>1, Finite DEF Types, CountInv
    <2>3. logged \in [Addresses -> 0..MaxAttempts]
      BY <2>1, <2>2 DEF Types
    <2>4. penalties \in 0..attempts
      BY <2>1, Finite DEF Types, CountInv
    <2>5. origin \in [1..version -> From]
      BY <2>1, LenProperties DEF Types
    <2>6. QED
      BY <2>1, <2>3, <2>4, <2>5 DEF Types, TypeOK
  <1>2. IInv => PenaltiesCount
    BY <1>1 DEF IInv, ScoreInv, PenaltiesCount
  <1>3. QED
    BY <1>2, Invariance, PTL

\* Every committed change of an audited row has an entry, or one about to be
\* written, unless it was a bulk update or its worker died; and the entry has the
\* address of the request that made the change (audit/signals.py:9-30,
\* middleware.py:112-119).
THEOREM ChangesHaveEntries == Spec => []ChangesAreLogged
  <1>1. IInv => ChangesAreLogged
    BY DEF IInv, EntryInv, ChangeInv, ChangesAreLogged
  <1>2. QED
    BY <1>1, Invariance, PTL
=============================================================================
