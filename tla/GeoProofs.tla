------------------------------ MODULE GeoProofs ------------------------------
(***************************************************************************)
(* Theorems about module Geo, for any number of workers, users, coordinates,*)
(* keys and pictures, checked by TLAPS.                                    *)
(***************************************************************************)
EXTENDS GeoProps, FiniteSetTheorems, TLAPS

\* A request under way knows its location, and its row until it is saved, which it
\* saw on the map or as its user's own; one that adds pictures knows which.
Ready(t) ==
  /\ t \in Task /\ Cardinality(Mains(t.list)) <= 1
  /\ t.at # "idle" => t.id \in Ids
  /\ t.at \in {"save", "toggle", "destroy"} =>
       t.copy \in Row /\ (t.copy.active \/ t.copy.user = t.by)
  /\ t.at = "clear" => t.next = 1
  /\ t.at = "insert" => t.next <= Length(t.list)

AtMostOne(S) == \A i, j \in S : i = j

\* Worker w adds pictures to a location that is there.
Adds(w) == Inserting(w) /\ Here(task[w].id)

\* The pictures of its location are the first ones of w's request.
SoFar(w) ==
  LET t == task[w] IN
  /\ album[t.id].by = w /\ album[t.id].size = Length(t.list)
  /\ Cardinality(PicturesOf(t.id)) = t.next - 1
  /\ \A i \in PicturesOf(t.id) : i.number < t.next /\ i.main = t.list[i.number]

\* Unless some request began on the pictures while another added some, they are
\* of one request, and nobody else adds any.
AlbumInv(id) ==
  album[id].state # "mixed" =>
    /\ \A i \in PicturesOf(id) : i.by = album[id].by
    /\ AtMostOne(Main(id))
    /\ album[id].state = "whole" => Cardinality(PicturesOf(id)) = album[id].size
    /\ \A w \in Workers : Adds(w) /\ task[w].id = id => album[id].state = "open" /\ SoFar(w)

Typed ==
  /\ rows \in [Ids -> Row \cup {None}]
  /\ images \subseteq Picture /\ IsFiniteSet(images)
  /\ album \in [Ids -> Owed]

\* Every picture belongs to a location that is there.
Placed == \A i \in images : Here(i.location)

\* The inductive invariant.
IInv ==
  /\ Typed /\ Placed
  /\ task \in [Workers -> Task] /\ \A w \in Workers : Ready(task[w])
  /\ \A id \in Ids : AlbumInv(id)

USE NoneAssumption, UserAssumption, ImagesAssumption, UploadsAssumption

(* Lists of pictures.                                                       *)

LEMMA ListFacts ==
  ASSUME NEW list \in Lists
  PROVE  /\ Length(list) \in 0..MaxImages
         /\ list \in [1..Length(list) -> BOOLEAN]
  <1>1. PICK n \in 0..MaxImages : list \in [1..n -> BOOLEAN]
    BY DEF Lists
  <1>2. DOMAIN list = 1..n /\ n \in Nat
    BY <1>1
  <1>3. Cardinality(1..n) = n
    BY <1>2, FS_Interval
  <1>4. QED
    BY <1>1, <1>2, <1>3 DEF Length

LEMMA AtMostOneCounts ==
  ASSUME NEW S, IsFiniteSet(S)
  PROVE  AtMostOne(S) <=> Cardinality(S) <= 1
  <1>1. ASSUME AtMostOne(S) PROVE Cardinality(S) <= 1
    <2>1. S = {} \/ \E x : S = {x}
      BY <1>1 DEF AtMostOne
    <2>2. QED
      BY <2>1, FS_EmptySet, FS_Singleton
  <1>2. ASSUME Cardinality(S) <= 1, NEW i \in S, NEW j \in S PROVE i = j
    <2> SUFFICES ASSUME i # j PROVE FALSE
      OBVIOUS
    <2>1. IsFiniteSet(S \ {i}) /\ Cardinality(S \ {i}) = Cardinality(S) - 1
      BY FS_RemoveElement
    <2>2. Cardinality(S) \in Nat /\ Cardinality(S \ {i}) \in Nat
      BY <2>1, FS_CardinalityType
    <2>3. Cardinality(S \ {i}) = 0
      BY <1>2, <2>1, <2>2
    <2>4. S \ {i} = {}
      BY <2>1, <2>3, FS_EmptySet
    <2>5. QED
      BY <2>4
  <1>3. QED
    BY <1>1, <1>2 DEF AtMostOne

LEMMA MainsOfList ==
  ASSUME NEW list \in Lists, Cardinality(Mains(list)) <= 1
  PROVE  AtMostOne(Mains(list))
  <1>1. IsFiniteSet(1..Length(list))
    BY ListFacts, FS_Interval
  <1>2. Mains(list) \subseteq 1..Length(list)
    BY ListFacts DEF Mains
  <1>3. IsFiniteSet(Mains(list))
    BY <1>1, <1>2, FS_Subset
  <1>4. QED
    BY <1>3, AtMostOneCounts

LEMMA IdleFacts == Idle.at = "idle" /\ Ready(Idle)
  <1>1. [i \in 1..0 |-> TRUE] \in NewList
    BY DEF NewList
  <1>2. Idle.list \in NewList
    BY <1>1 DEF Idle
  <1>3. Idle.list \in Lists
    BY <1>2 DEF NewList, Lists
  <1>4. Mains(Idle.list) = {}
    BY <1>2 DEF NewList, Mains
  <1>5. Cardinality(Mains(Idle.list)) = 0
    BY <1>4, FS_EmptySet
  <1>6. Idle \in Task
    BY <1>3 DEF Idle, Task, Stages
  <1>7. QED
    BY <1>5, <1>6 DEF Ready, Idle

-----------------------------------------------------------------------------
(* What a step leaves of the invariant.                                     *)

LEMMA InvFacts ==
  ASSUME IInv
  PROVE  /\ rows \in [Ids -> Row \cup {None}] /\ images \subseteq Picture /\ IsFiniteSet(images)
         /\ album \in [Ids -> Owed] /\ task \in [Workers -> Task]
  BY DEF IInv, Typed

\* A location that is not there has no pictures.
LEMMA BarePlace ==
  ASSUME IInv, NEW id, ~Here(id)
  PROVE  PicturesOf(id) = {}
  BY DEF IInv, Placed, PicturesOf

\* Worker w goes on with t, and the others stay where they are.
LEMMA TaskMoves ==
  ASSUME IInv, NEW w \in Workers, NEW t, Ready(t), task' = [task EXCEPT ![w] = t]
  PROVE  /\ task' \in [Workers -> Task] /\ \A v \in Workers : Ready(task'[v])
         /\ task'[w] = t /\ \A v \in Workers : v # w => task'[v] = task[v]
  <1>1. t \in Task
    BY DEF Ready
  <1>2. QED
    BY <1>1 DEF IInv

\* The pictures are as they were, and nobody began to add some.
LEMMA AlbumStays ==
  ASSUME IInv, NEW id \in Ids, PicturesOf(id)' = PicturesOf(id), album'[id] = album[id],
         \A v \in Workers : Adds(v)' /\ task'[v].id = id => Adds(v) /\ task'[v] = task[v]
  PROVE  AlbumInv(id)'
  BY DEF IInv, AlbumInv, SoFar, Main, AtMostOne

\* A location that is there was there, or has a new key.
NoneReturns == \A id \in Ids : Here(id)' => Here(id) \/ Unused(id)

LEMMA NobodyAdds ==
  ASSUME IInv, NoneReturns, UNCHANGED <<images, album>>,
         NEW w \in Workers, NEW t, Ready(t), t.at # "insert", task' = [task EXCEPT ![w] = t],
         NEW id \in Ids
  PROVE  AlbumInv(id)'
  <1>1. PicturesOf(id)' = PicturesOf(id)
    BY DEF PicturesOf
  <1>2. ASSUME NEW v \in Workers, Adds(v)', task'[v].id = id
        PROVE  Adds(v) /\ task'[v] = task[v]
    <2>1. v # w /\ task'[v] = task[v]
      BY <1>2, TaskMoves DEF Adds, Inserting, At
    <2>2. Inserting(v) /\ task[v].id = id /\ Here(id)'
      BY <1>2, <2>1 DEF Adds, Inserting, At
    <2>3. Here(id)
      BY <2>2 DEF NoneReturns, Unused
    <2>4. QED
      BY <2>1, <2>2, <2>3 DEF Adds
  <1>3. QED
    BY <1>1, <1>2, AlbumStays

LEMMA AlbumOfType ==
  ASSUME NEW w \in Workers, NEW id, NEW size \in 0..MaxImages
  PROVE  AlbumOf(w, id, size) \in Owed
  BY DEF AlbumOf, Owed, Mixed, NoPictures

\* A step that touches pictures of location id only, for worker w.
Elsewhere(id) ==
  \A other \in Ids \ {id} :
    /\ PicturesOf(other)' = PicturesOf(other) /\ album'[other] = album[other]
    /\ Here(other)' => Here(other)

LEMMA OthersKeep ==
  ASSUME IInv, NEW w \in Workers, NEW id \in Ids, Elsewhere(id),
         NEW t, Ready(t), task' = [task EXCEPT ![w] = t], t.at = "insert" => t.id = id,
         NEW other \in Ids, other # id
  PROVE  AlbumInv(other)'
  <1>1. ASSUME NEW v \in Workers, Adds(v)', task'[v].id = other
        PROVE  Adds(v) /\ task'[v] = task[v]
    <2>1. v # w /\ task'[v] = task[v]
      BY <1>1, TaskMoves DEF Adds, Inserting, At
    <2>2. QED
      BY <1>1, <2>1 DEF Adds, Inserting, At, Elsewhere
  <1>2. QED
    BY <1>1, AlbumStays DEF Elsewhere

\* The pictures of location id are gone, and worker w may add others.
LEMMA AlbumEmptied ==
  ASSUME IInv, NEW w \in Workers, NEW id \in Ids, NEW size \in 0..MaxImages,
         PicturesOf(id)' = {}, album'[id] = AlbumOf(w, id, size),
         NEW t, Ready(t), task' = [task EXCEPT ![w] = t],
         t.at = "insert" => t.next = 1 /\ Length(t.list) = size /\ size # 0
  PROVE  AlbumInv(id)'
  <1>1. CASE OthersInsert(w, id)
    BY <1>1 DEF AlbumOf, Mixed, AlbumInv
  <1>2. CASE ~OthersInsert(w, id)
    <2>1. /\ album'[id].state = (IF size = 0 THEN "whole" ELSE "open")
          /\ album'[id].size = size /\ (size # 0 => album'[id].by = w)
      BY <1>2 DEF AlbumOf, NoPictures
    <2>2. Main(id)' = {} /\ Cardinality(PicturesOf(id)') = 0
      BY FS_EmptySet DEF Main
    <2>3. ASSUME NEW v \in Workers, Adds(v)', task'[v].id = id PROVE v = w
      BY <1>2, <2>3, TaskMoves DEF Adds, Inserting, At, OthersInsert
    <2>4. ASSUME Adds(w)', task'[w].id = id PROVE album'[id].state = "open" /\ SoFar(w)'
      <3>1. task'[w] = t /\ t.at = "insert"
        BY <2>4, TaskMoves DEF Adds, Inserting, At
      <3>2. size # 0 /\ t.next = 1 /\ Length(t.list) = size /\ t.id = id /\ 1 - 1 = 0
        BY <2>4, <3>1
      <3>3. album'[id].by = w /\ album'[id].size = size /\ album'[id].state = "open"
        BY <2>1, <3>2
      <3>4. QED
        BY <2>2, <3>1, <3>2, <3>3 DEF SoFar
    <2>5. QED
      BY <2>1, <2>2, <2>3, <2>4 DEF AlbumInv, AtMostOne
  <1>3. QED
    BY <1>1, <1>2

\* The pictures of one location go, with the row, before it comes back or by
\* themselves.
LEMMA Empties ==
  ASSUME IInv, NEW w \in Workers, NEW id \in Ids, NEW size \in 0..MaxImages, Owe(w, id, size),
         images' = images \ PicturesOf(id),
         rows' \in [Ids -> Row \cup {None}], \A other \in Ids \ {id} : rows'[other] = rows[other],
         NEW t, Ready(t), task' = [task EXCEPT ![w] = t],
         t.at = "insert" => t.id = id /\ t.next = 1 /\ Length(t.list) = size /\ size # 0
  PROVE  IInv'
  <1>1. album \in [Ids -> Owed] /\ images \subseteq Picture /\ IsFiniteSet(images)
    BY InvFacts
  <1>2. album'[id] = AlbumOf(w, id, size) /\ album' \in [Ids -> Owed]
    BY <1>1, AlbumOfType DEF Owe
  <1>3. PicturesOf(id)' = {}
    BY DEF PicturesOf
  <1>4. Elsewhere(id)
    BY <1>1 DEF Elsewhere, PicturesOf, Owe, Here
  <1>5. AlbumInv(id)'
    BY <1>2, <1>3, AlbumEmptied
  <1>6. \A other \in Ids : other # id => AlbumInv(other)'
    BY <1>4, OthersKeep
  <1>7. Typed'
    BY <1>1, <1>2, FS_Subset DEF Typed
  <1>8. Placed'
    BY <1>1 DEF Placed, IInv, PicturesOf, Here, Picture
  <1>9. QED
    BY <1>5, <1>6, <1>7, <1>8, TaskMoves DEF IInv

-----------------------------------------------------------------------------
(* One lemma per operation.                                                 *)

\* What ThenPictures makes of a request.
LEMMA PicturesNext ==
  ASSUME IInv, NEW w \in Workers, NEW id \in Ids, NEW list \in Uploads, NEW replaces,
         ThenPictures(w, id, list, replaces)
  PROVE  \E t : Ready(t) /\ t.at # "insert" /\ task' = [task EXCEPT ![w] = t]
  <1> DEFINE t == [Idle EXCEPT !.at = "clear", !.id = id, !.list = list]
  <1>1. list \in Lists /\ Cardinality(Mains(list)) <= 1
    BY DEF Album
  <1>2. CASE replaces
    <2>1. Idle \in Task
      BY IdleFacts DEF Ready
    <2>2. t \in Task /\ t.at = "clear" /\ t.id = id /\ t.list = list /\ t.next = 1
      BY <1>1, <2>1 DEF Task, Stages, Idle
    <2>3. Ready(t) /\ t.at # "insert"
      BY <1>1, <2>2 DEF Ready
    <2>4. task' = [task EXCEPT ![w] = t]
      BY <1>2 DEF ThenPictures
    <2>5. QED
      BY <2>3, <2>4
  <1>3. CASE ~replaces
    BY <1>3, IdleFacts DEF ThenPictures
  <1>4. QED
    BY <1>2, <1>3

\* A request that leaves the pictures alone, and brings no location back.
LEMMA RowWrite ==
  ASSUME IInv, NEW w \in Workers, NEW t, Ready(t), t.at # "insert", task' = [task EXCEPT ![w] = t],
         NoneReturns, rows' \in [Ids -> Row \cup {None}], \A id \in Ids : Here(id) => Here(id)',
         UNCHANGED <<images, album>>
  PROVE  IInv'
  <1>1. \A id \in Ids : AlbumInv(id)'
    BY NobodyAdds
  <1>2. Placed'
    BY InvFacts DEF IInv, Placed, Picture
  <1>3. Typed'
    BY InvFacts DEF Typed
  <1>4. QED
    BY <1>1, <1>2, <1>3, TaskMoves DEF IInv

LEMMA SaidType ==
  ASSUME NEW asked \in Asked, NEW old \in BOOLEAN
  PROVE  Said(asked, old) \in BOOLEAN
  BY DEF Said, Asked

LEMMA UpdateOrCreateInv ==
  ASSUME IInv, NEW w \in Workers, NEW u \in Vendors, NEW id \in Ids, NEW place \in Places,
         NEW asked \in Asked, NEW list \in Uploads, UpdateOrCreate(w, u, id, place, asked, list)
  PROVE  IInv'
  <1> DEFINE new == [rows[id] EXCEPT !.place = place, !.active = Said(asked, rows[id].active)]
  <1>1. rows \in [Ids -> Row \cup {None}] /\ rows[id] \in Row /\ rows[id].active \in BOOLEAN
    BY InvFacts DEF UpdateOrCreate, Owns, Here, Row
  <1>2. Said(asked, rows[id].active) \in BOOLEAN
    BY <1>1, SaidType
  <1>3. new \in Row
    BY <1>1, <1>2 DEF Row
  <1>4. rows' = [rows EXCEPT ![id] = new]
    BY <1>1 DEF UpdateOrCreate
  <1> HIDE DEF new
  <1>5. rows' \in [Ids -> Row \cup {None}] /\ \A x \in Ids : Here(x)' <=> Here(x)
    BY <1>1, <1>3, <1>4 DEF Here
  <1>6. PICK t : Ready(t) /\ t.at # "insert" /\ task' = [task EXCEPT ![w] = t]
    BY PicturesNext DEF UpdateOrCreate
  <1>7. NoneReturns /\ UNCHANGED <<images, album>>
    BY <1>5 DEF NoneReturns, UpdateOrCreate
  <1>8. QED
    BY <1>5, <1>6, <1>7, RowWrite

LEMMA CreateInv ==
  ASSUME IInv, NEW w \in Workers, NEW u \in Vendors, NEW id \in Ids, NEW place \in Places,
         NEW asked \in Asked, NEW list \in Uploads, Create(w, u, id, place, asked, list)
  PROVE  IInv'
  <1> DEFINE new == [user |-> u, place |-> place, active |-> Said(asked, TRUE)]
  <1>1. rows \in [Ids -> Row \cup {None}] /\ new \in Row
    BY InvFacts, SaidType DEF Row
  <1>2. rows' = [rows EXCEPT ![id] = new] /\ Unused(id) /\ UNCHANGED <<images, album>>
    BY DEF Create
  <1> HIDE DEF new
  <1>3. /\ rows' \in [Ids -> Row \cup {None}]
        /\ \A x \in Ids : Here(x) => Here(x)'
        /\ NoneReturns
    BY <1>1, <1>2 DEF Here, NoneReturns
  <1>4. PICK t : Ready(t) /\ t.at # "insert" /\ task' = [task EXCEPT ![w] = t]
    BY PicturesNext DEF Create
  <1>5. QED
    BY <1>2, <1>3, <1>4, RowWrite

\* Nothing happens to the tables.
LEMMA TablesStay ==
  ASSUME IInv, NEW w \in Workers, NEW t, Ready(t), t.at # "insert", task' = [task EXCEPT ![w] = t],
         UNCHANGED <<rows, images, album>>
  PROVE  IInv'
  <1>1. NoneReturns /\ \A id \in Ids : Here(id) => Here(id)'
    BY DEF NoneReturns, Here
  <1>2. rows' \in [Ids -> Row \cup {None}]
    BY InvFacts
  <1>3. QED
    BY <1>1, <1>2, RowWrite

LEMMA FetchInv ==
  ASSUME IInv, NEW w \in Workers, NEW u \in Users, NEW id \in Ids,
         NEW stage \in {"save", "toggle", "destroy"}, Fetch(w, u, id, stage)
  PROVE  IInv'
  <1> DEFINE t == [Idle EXCEPT !.at = stage, !.by = u, !.id = id, !.copy = rows[id]]
  <1>1. rows[id] \in Row /\ (rows[id].active \/ rows[id].user = u)
    BY InvFacts DEF Fetch, Owns, Listed, Here
  <1>2. Idle \in Task /\ Cardinality(Mains(Idle.list)) <= 1
    BY IdleFacts DEF Ready
  <1>3. /\ t \in Task /\ t.list = Idle.list /\ t.at = stage /\ t.copy = rows[id]
        /\ t.by = u /\ t.id = id
    BY <1>1, <1>2 DEF Task, Stages, Idle
  <1>4. Ready(t) /\ t.at # "insert"
    BY <1>1, <1>2, <1>3 DEF Ready
  <1>5. task' = [task EXCEPT ![w] = t] /\ UNCHANGED <<rows, images, album>>
    BY DEF Fetch
  <1>6. QED
    BY <1>4, <1>5, TablesStay

\* A save() that is not refused: either it changes the location that is there, or
\* it inserts one again, which has no pictures.
LEMMA SavesInv ==
  ASSUME IInv, NEW w \in Workers, task[w].at \in {"save", "toggle"},
         NEW new \in Row, Saves(w, new), images' = images,
         NEW t, Ready(t), t.at # "insert", task' = [task EXCEPT ![w] = t]
  PROVE  IInv'
  <1> DEFINE id == task[w].id
  <1>1. id \in Ids /\ rows \in [Ids -> Row \cup {None}]
    BY InvFacts DEF IInv, Ready
  <1>2. rows' = [rows EXCEPT ![id] = new]
    BY DEF Saves
  <1>3. /\ rows' \in [Ids -> Row \cup {None}]
        /\ \A other \in Ids \ {id} : rows'[other] = rows[other]
        /\ \A x \in Ids : Here(x) => Here(x)'
    BY <1>1, <1>2 DEF Here
  <1>4. CASE ~Here(id)
    <2>1. Owe(w, id, 0) /\ images' = images \ PicturesOf(id) /\ 0 \in 0..MaxImages
      BY <1>4, BarePlace DEF Saves
    <2>2. QED
      BY <1>1, <1>3, <2>1, Empties
  <1>5. CASE Here(id)
    <2>1. NoneReturns /\ album' = album
      BY <1>3, <1>5 DEF NoneReturns, Saves, Here
    <2>2. QED
      BY <1>3, <2>1, RowWrite
  <1>6. QED
    BY <1>4, <1>5

LEMMA UpdateInv ==
  ASSUME IInv, NEW w \in Workers, NEW user \in Users \cup {None}, NEW place \in Places \cup {None},
         NEW asked \in Asked, NEW list \in Uploads, NEW replaces \in BOOLEAN,
         Update(w, user, place, asked, list, replaces)
  PROVE  IInv'
  <1> DEFINE copy == task[w].copy
             new == [user |-> Given(user, copy.user), place |-> Given(place, copy.place),
                     active |-> Said(asked, copy.active)]
  <1>1. task[w].at = "save" /\ copy \in Row /\ task[w].id \in Ids
    BY DEF Update, At, IInv, Ready
  <1>2. Said(asked, copy.active) \in BOOLEAN
    BY <1>1, SaidType DEF Row
  <1>3. new \in Row
    BY <1>1, <1>2 DEF Row, Given
  <1>4. Saves(w, new) /\ images' = images /\ ThenPictures(w, task[w].id, list, replaces)
    BY DEF Update
  <1>5. PICK t : Ready(t) /\ t.at # "insert" /\ task' = [task EXCEPT ![w] = t]
    BY <1>1, <1>4, PicturesNext
  <1> HIDE DEF new
  <1>6. QED
    BY <1>1, <1>3, <1>4, <1>5, SavesInv

LEMMA ToggleInv ==
  ASSUME IInv, NEW w \in Workers, ToggleVisibility(w)
  PROVE  IInv'
  <1> DEFINE copy == task[w].copy
             new == [copy EXCEPT !.active = ~copy.active]
  <1>1. task[w].at = "toggle" /\ copy \in Row
    BY DEF ToggleVisibility, At, IInv, Ready
  <1>2. new \in Row
    BY <1>1 DEF Row
  <1>3. Saves(w, new) /\ images' = images
    BY DEF ToggleVisibility
  <1>4. Ready(Idle) /\ Idle.at # "insert" /\ task' = [task EXCEPT ![w] = Idle]
    BY IdleFacts DEF ToggleVisibility, Done
  <1> HIDE DEF new
  <1>5. QED
    BY <1>1, <1>2, <1>3, <1>4, SavesInv

\* A request ends, and the tables stay as they are.
LEMMA EndsInv ==
  ASSUME IInv, NEW w \in Workers,
         (\E user \in Users \cup {None} : SaveRefused(w, user)) \/ InsertRefused(w) \/ Die(w)
  PROVE  IInv'
  BY IdleFacts, TablesStay DEF SaveRefused, InsertRefused, Die, Done

LEMMA DestroyInv ==
  ASSUME IInv, NEW w \in Workers, Destroy(w)
  PROVE  IInv'
  <1> DEFINE id == task[w].id
  <1>1. Ready(Idle) /\ Idle.at # "insert" /\ task' = [task EXCEPT ![w] = Idle]
    BY IdleFacts DEF Destroy, Done
  <1>2. id \in Ids /\ rows \in [Ids -> Row \cup {None}]
    BY InvFacts DEF Destroy, At, IInv, Ready
  <1>3. rows' = [rows EXCEPT ![id] = None] /\ images' = images \ PicturesOf(id)
    BY DEF Destroy, Cascade, PicturesOf
  <1>4. CASE Here(id)
    <2>1. Owe(w, id, 0) /\ 0 \in 0..MaxImages
      BY <1>4 DEF Destroy
    <2>2. QED
      BY <1>1, <1>2, <1>3, <2>1, Empties
  <1>5. CASE ~Here(id)
    <2>1. UNCHANGED <<rows, images, album>>
      BY <1>2, <1>3, <1>5, BarePlace DEF Destroy, Here
    <2>2. QED
      BY <1>1, <2>1, TablesStay
  <1>6. QED
    BY <1>4, <1>5

LEMMA ClearInv ==
  ASSUME IInv, NEW w \in Workers, Clear(w)
  PROVE  IInv'
  <1> DEFINE id == task[w].id
             size == Length(task[w].list)
             t == IF size = 0 THEN Idle ELSE [task[w] EXCEPT !.at = "insert"]
  <1>1. /\ task[w] \in Task /\ task[w].next = 1 /\ task[w].list \in Lists
        /\ Cardinality(Mains(task[w].list)) <= 1 /\ id \in Ids
    BY DEF Clear, At, IInv, Ready, Task
  <1>2. size \in 0..MaxImages
    BY <1>1, ListFacts
  <1>3. task' = [task EXCEPT ![w] = t]
    BY InvFacts DEF Clear, Done
  <1>4. size # 0 => /\ t \in Task /\ t.at = "insert" /\ t.next = 1
                    /\ t.list = task[w].list /\ t.id = id
    BY <1>1 DEF Task, Stages
  <1>5. Ready(t) /\ (t.at = "insert" => size # 0 /\ t.next = 1 /\ t.id = id /\ Length(t.list) = size)
    <2>1. CASE size = 0
      BY <2>1, IdleFacts
    <2>2. CASE size # 0
      BY <1>1, <1>2, <1>4, <2>2 DEF Ready
    <2>3. QED
      BY <2>1, <2>2
  <1>6. rows' = rows /\ images' = images \ PicturesOf(id)
    BY DEF Clear
  <1> HIDE DEF t
  <1>7. CASE Here(id)
    <2>1. Owe(w, id, size)
      BY <1>7 DEF Clear
    <2>2. QED
      BY <1>1, <1>2, <1>3, <1>5, <1>6, <2>1, InvFacts, Empties
  <1>8. CASE ~Here(id)
    <2>1. images' = images /\ album' = album
      BY <1>6, <1>8, BarePlace DEF Clear
    <2>2. ASSUME NEW x \in Ids PROVE AlbumInv(x)'
      <3>1. PicturesOf(x)' = PicturesOf(x)
        BY <2>1 DEF PicturesOf
      <3>2. ASSUME NEW v \in Workers, Adds(v)', task'[v].id = x
            PROVE  Adds(v) /\ task'[v] = task[v]
        <4>1. v # w
          BY <1>3, <1>5, <1>6, <1>8, <3>2, TaskMoves DEF Adds, Inserting, At, Here
        <4>2. QED
          BY <1>3, <1>5, <1>6, <3>2, <4>1, TaskMoves DEF Adds, Inserting, At, Here
      <3>3. QED
        BY <2>1, <3>1, <3>2, AlbumStays
    <2>3. Typed' /\ Placed'
      BY <1>6, <2>1 DEF IInv, Typed, Placed, Here
    <2>4. QED
      BY <1>3, <1>5, <2>2, <2>3, TaskMoves DEF IInv
  <1>9. QED
    BY <1>7, <1>8

\* One more picture, and where the request is afterwards.
LEMMA InsertInv ==
  ASSUME IInv, NEW w \in Workers, Insert(w)
  PROVE  IInv'
  <1>0. PICK old, id : old = task[w] /\ id = old.id
    OBVIOUS
  <1> DEFINE new == [location |-> id, by |-> w, number |-> old.next, main |-> old.list[old.next]]
             last == old.next = Length(old.list)
             t == IF last THEN Idle ELSE [old EXCEPT !.next = old.next + 1]
  <1>1. /\ old \in Task /\ old.at = "insert" /\ old.list \in Lists /\ id \in Ids
        /\ Cardinality(Mains(old.list)) <= 1 /\ old.next <= Length(old.list) /\ old.next \in 1..(MaxImages + 1)
    BY <1>0 DEF Insert, Inserting, At, IInv, Ready, Task
  <1>2. /\ Length(old.list) \in 0..MaxImages /\ old.list \in [1..Length(old.list) -> BOOLEAN]
        /\ old.next \in 1..Length(old.list)
    BY <1>1, ListFacts
  <1>3. new \in Picture
    BY <1>1, <1>2 DEF Picture
  <1>4. /\ task' = [task EXCEPT ![w] = t] /\ images' = images \cup {new}
        /\ Here(id) /\ UNCHANGED rows
    <2>1. images' = images \cup {new} /\ Here(id) /\ UNCHANGED rows
      BY <1>0 DEF Insert
    <2>2. task' = [task EXCEPT ![w] = t]
      <3>1. CASE last
        BY <1>0, <3>1 DEF Insert, Done
      <3>2. CASE ~last
        <4>1. task' = [task EXCEPT ![w].next = @ + 1]
          BY <1>0, <3>2 DEF Insert
        <4>2. QED
          BY <1>0, <3>2, <4>1
      <3>3. QED
        BY <3>1, <3>2
    <2>3. QED
      BY <2>1, <2>2
  <1>5. ~last => /\ t \in Task /\ t.at = "insert" /\ t.next = old.next + 1
                 /\ t.list = old.list /\ t.id = id
    <2>1. ~last => old.next + 1 \in 1..(MaxImages + 1)
      BY <1>2
    <2>2. old \in Task /\ old.at = "insert" /\ old.id = id
      BY <1>0, <1>1
    <2>3. QED
      BY <2>1, <2>2 DEF Task
  <1>6. Ready(t) /\ (t.at = "insert" => t.id = id)
    <2>1. CASE last
      BY <2>1, IdleFacts
    <2>2. CASE ~last
      BY <1>1, <1>2, <1>5, <2>2 DEF Ready
    <2>3. QED
      BY <2>1, <2>2
  <1>7. album' = IF last /\ album[id].state = "open" /\ album[id].by = w
                   THEN [album EXCEPT ![id].state = "whole"] ELSE album
    BY <1>0 DEF Insert
  <1>8. album' \in [Ids -> Owed] /\ \A x \in Ids \ {id} : album'[x] = album[x]
    BY <1>1, <1>7, InvFacts DEF Owed
  <1>9. Typed' /\ Placed'
    <2>1. IsFiniteSet(images')
      BY <1>4, InvFacts, FS_AddElement
    <2>2. Typed'
      BY <1>3, <1>4, <1>8, <2>1, InvFacts DEF Typed
    <2>3. Placed'
      BY <1>4 DEF IInv, Placed, Here
    <2>4. QED
      BY <2>2, <2>3
  <1>10. PicturesOf(id)' = PicturesOf(id) \cup {new}
    BY <1>4 DEF PicturesOf
  <1>11. Elsewhere(id)
    <2>1. \A x \in Ids \ {id} : PicturesOf(x)' = PicturesOf(x)
      BY <1>4 DEF PicturesOf
    <2>2. QED
      BY <1>4, <1>8, <2>1 DEF Elsewhere, Here
  <1> HIDE DEF new, last, t
  <1>12. ASSUME album'[id].state # "mixed" PROVE AlbumInv(id)'
    <2> DEFINE pics == PicturesOf(id)
    <2>1. album[id].state # "mixed" /\ album[id] \in Owed
      BY <1>1, <1>7, <1>12, InvFacts
    <2>2. Adds(w)
      BY <1>0, <1>1, <1>4 DEF Adds, Inserting, At
    <2>3. /\ album[id].state = "open" /\ SoFar(w) /\ AtMostOne(Main(id))
          /\ \A i \in pics : i.by = album[id].by
      BY <1>0, <1>1, <2>1, <2>2 DEF IInv, AlbumInv
    <2>4. /\ album[id].by = w /\ album[id].size = Length(old.list)
          /\ Cardinality(pics) = old.next - 1
          /\ \A i \in pics : i.number < old.next /\ i.main = old.list[i.number]
      BY <1>0, <2>3 DEF SoFar
    <2>5. /\ album'[id].by = w /\ album'[id].size = Length(old.list)
          /\ album'[id].state = IF last THEN "whole" ELSE "open"
      <3>1. album \in [Ids -> Owed]
        BY InvFacts
      <3>2. QED
        BY <1>1, <1>7, <2>3, <2>4, <3>1 DEF Owed
    <2>6. new \notin pics /\ new.by = w /\ new.number = old.next /\ new.main = old.list[old.next]
      BY <1>1, <2>4 DEF new
    <2>7. IsFiniteSet(pics) /\ pics \subseteq Picture
      BY InvFacts, FS_Subset DEF PicturesOf
    <2>8. Cardinality(PicturesOf(id)') = old.next
      <3>1. Cardinality(pics \cup {new}) = Cardinality(pics) + 1
        BY <2>6, <2>7, FS_AddElement
      <3>2. QED
        BY <1>1, <1>10, <2>4, <3>1
    <2>9. \A i \in PicturesOf(id)' : i.by = album'[id].by
      BY <1>10, <2>3, <2>4, <2>5, <2>6
    <2>10. AtMostOne(Main(id)')
      <3>1. ASSUME NEW i \in Main(id), new.main PROVE FALSE
        <4>1. i \in pics /\ i.main /\ i.number \in 1..MaxImages
          BY <2>7, <3>1 DEF Main, Picture
        <4>2. i.number < old.next /\ old.list[i.number]
          BY <2>4, <4>1
        <4>3. i.number \in DOMAIN old.list /\ old.next \in DOMAIN old.list
          BY <1>2, <4>1, <4>2
        <4>4. i.number \in Mains(old.list) /\ old.next \in Mains(old.list)
          BY <2>6, <3>1, <4>2, <4>3 DEF Mains
        <4>5. i.number = old.next
          BY <1>1, <4>4, MainsOfList DEF AtMostOne
        <4>6. QED
          BY <1>1, <4>1, <4>2, <4>5
      <3>2. Main(id)' = Main(id) \cup {i \in {new} : i.main}
        BY <1>10 DEF Main
      <3>3. QED
        BY <2>3, <3>1, <3>2 DEF AtMostOne
    <2>11. album'[id].state = "whole" => Cardinality(PicturesOf(id)') = album'[id].size
      BY <2>5, <2>8 DEF last
    <2>12. ASSUME NEW v \in Workers, Adds(v)', task'[v].id = id PROVE v = w
      <3>1. SUFFICES ASSUME v # w PROVE FALSE
        OBVIOUS
      <3>2. Adds(v) /\ task[v].id = id
        BY <1>4, <1>6, <2>12, <3>1, TaskMoves DEF Adds, Inserting, At, Here
      <3>3. SoFar(v)
        BY <1>1, <2>1, <3>2 DEF IInv, AlbumInv
      <3>4. QED
        BY <2>4, <3>1, <3>2, <3>3 DEF SoFar
    <2>13. ASSUME Adds(w)', task'[w].id = id PROVE album'[id].state = "open" /\ SoFar(w)'
      <3>1. task'[w] = t
        BY <1>4, <1>6, TaskMoves
      <3>2. ~last
        BY <2>13, <3>1, IdleFacts DEF Adds, Inserting, At, t
      <3>3. \A i \in PicturesOf(id)' : i.number < old.next + 1 /\ i.main = old.list[i.number]
        <4>1. \A i \in pics : i.number < old.next /\ i.main = old.list[i.number] /\ i.number \in 1..MaxImages
          BY <2>4, <2>7 DEF Picture
        <4>2. QED
          BY <1>1, <1>10, <2>6, <4>1
      <3>4. t.next = old.next + 1 /\ t.list = old.list /\ t.id = id /\ old.next = (old.next + 1) - 1
        BY <1>1, <1>5, <3>2
      <3>5. QED
        BY <2>5, <2>8, <3>1, <3>2, <3>3, <3>4 DEF SoFar
    <2>14. QED
      BY <2>9, <2>10, <2>11, <2>12, <2>13 DEF AlbumInv
  <1>13. AlbumInv(id)'
    BY <1>12 DEF AlbumInv
  <1>14. \A x \in Ids : x # id => AlbumInv(x)'
    BY <1>1, <1>4, <1>6, <1>11, OthersKeep
  <1>15. QED
    BY <1>4, <1>6, <1>9, <1>13, <1>14, TaskMoves DEF IInv

-----------------------------------------------------------------------------
(* The theorems.                                                            *)

LEMMA InitInv == Init => IInv
  <1> SUFFICES ASSUME Init PROVE IInv
    OBVIOUS
  <1>1. NoPictures \in Owed
    BY DEF NoPictures, Owed
  <1>2. Typed /\ Placed
    BY <1>1, FS_EmptySet DEF Init, Typed, Placed
  <1>3. task \in [Workers -> Task] /\ \A w \in Workers : Ready(task[w]) /\ ~Inserting(w)
    BY IdleFacts DEF Init, Ready, Inserting, At
  <1>4. \A id \in Ids : PicturesOf(id) = {} /\ Main(id) = {}
    BY DEF Init, PicturesOf, Main
  <1>5. \A id \in Ids : AlbumInv(id)
    BY <1>3, <1>4, FS_EmptySet DEF Init, AlbumInv, AtMostOne, Adds, NoPictures
  <1>6. QED
    BY <1>2, <1>3, <1>5 DEF IInv

LEMMA StepInv == IInv /\ [Next]_geoVars => IInv'
  <1> SUFFICES ASSUME IInv, [Next]_geoVars PROVE IInv'
    OBVIOUS
  <1>1. CASE UNCHANGED geoVars
    <2>1. UNCHANGED <<rows, images, task, album>>
      BY <1>1 DEF geoVars
    <2>2. Typed' /\ Placed'
      BY <2>1 DEF IInv, Typed, Placed, Here
    <2>3. ASSUME NEW id \in Ids PROVE AlbumInv(id)'
      BY <2>1, AlbumStays DEF PicturesOf, Adds, Inserting, At, Here
    <2>4. QED
      BY <2>1, <2>2, <2>3 DEF IInv
  <1>2. ASSUME NEW w \in Workers, NEW u \in Vendors, NEW id \in Ids, NEW place \in Places,
               NEW asked \in Asked, NEW list \in Uploads,
               UpdateOrCreate(w, u, id, place, asked, list) \/ Create(w, u, id, place, asked, list)
        PROVE  IInv'
    BY <1>2, UpdateOrCreateInv, CreateInv
  <1>3. ASSUME NEW w \in Workers, NEW u \in Users, NEW id \in Ids,
               NEW stage \in {"save", "toggle", "destroy"}, Fetch(w, u, id, stage)
        PROVE  IInv'
    BY <1>3, FetchInv
  <1>4. ASSUME NEW w \in Workers, NEW user \in Users \cup {None}, NEW place \in Places \cup {None},
               NEW asked \in Asked, NEW list \in Uploads, NEW replaces \in BOOLEAN,
               Update(w, user, place, asked, list, replaces)
        PROVE  IInv'
    BY <1>4, UpdateInv
  <1>5. ASSUME NEW w \in Workers,
               \/ ToggleVisibility(w) \/ Destroy(w) \/ Clear(w) \/ Insert(w)
               \/ \E user \in Users \cup {None} : SaveRefused(w, user)
               \/ InsertRefused(w) \/ Die(w)
        PROVE  IInv'
    BY <1>5, ToggleInv, DestroyInv, ClearInv, InsertInv, EndsInv
  <1>6. QED
    BY <1>1, <1>2, <1>3, <1>4, <1>5 DEF Next

LEMMA Invariant == Spec => []IInv
  BY InitInv, StepInv, PTL DEF Spec

\* The state is well typed, and a picture belongs to a location that is there,
\* whatever locations were deleted and created since the request began
\* (geo/models.py:30-34).
THEOREM PicturesStayPlaced == Spec => []PicturesHaveLocation
  <1>1. IInv => PicturesHaveLocation
    BY DEF IInv, Typed, Placed, Ready, PicturesHaveLocation, TypeOK
  <1>2. QED
    BY <1>1, Invariant, PTL

\* A request of another vendor changes a location that is switched off only if it
\* read the row before that, or when it was its user's own (geo/views.py:18-33,
\* 67-143, geo/serializers.py:105-115).
THEOREM HiddenFromOthers == Spec => HiddenIsTheOwners
  <1> DEFINE Excused ==
        \A w \in Workers :
          LET t == task[w] IN
            /\ t.at \in {"save", "toggle", "destroy"} /\ task'[w] # t
            /\ Here(t.id) /\ ~OnMap(t.id) /\ rows'[t.id] # rows[t.id]
            => t.by = t.copy.user \/ t.copy.active
  <1>1. IInv => Excused
    BY DEF IInv, Ready
  <1>2. QED
    BY <1>1, Invariant, PTL DEF HiddenIsTheOwners

\* A request that replaced the pictures while no other added some leaves its own,
\* all of them once it is through, and its main one is shown
\* (geo/serializers.py:84-120, 151-154).
THEOREM AlbumsStayWhole == Spec => []AlbumOfOneRequest
  <1>1. ASSUME IInv, NEW id \in Ids, album[id].state # "mixed"
        PROVE  /\ \A i \in PicturesOf(id) : i.by = album[id].by
               /\ Cardinality(Main(id)) <= 1
               /\ album[id].state = "whole" => Cardinality(PicturesOf(id)) = album[id].size
               /\ PicturesOf(id) # {} =>
                    /\ Cover(id) # {}
                    /\ \A i \in Cover(id) : i.by = album[id].by /\ (Main(id) = {} \/ Main(id) = {i})
    <2>1. /\ \A i \in PicturesOf(id) : i.by = album[id].by
          /\ AtMostOne(Main(id))
          /\ album[id].state = "whole" => Cardinality(PicturesOf(id)) = album[id].size
      BY <1>1 DEF IInv, AlbumInv
    <2>2. IsFiniteSet(Main(id))
      BY <1>1, InvFacts, FS_Subset DEF Main, PicturesOf
    <2>3. Cardinality(Main(id)) <= 1
      BY <2>1, <2>2, AtMostOneCounts
    <2>4. Cover(id) = (IF Main(id) # {} THEN Main(id) ELSE PicturesOf(id))
      BY DEF Cover, Main
    <2>5. Main(id) \subseteq PicturesOf(id)
      BY DEF Main
    <2>6. QED
      BY <2>1, <2>3, <2>4, <2>5 DEF AtMostOne
  <1>2. IInv => AlbumOfOneRequest
    BY <1>1 DEF AlbumOfOneRequest
  <1>3. QED
    BY <1>2, Invariant, PTL
=============================================================================
