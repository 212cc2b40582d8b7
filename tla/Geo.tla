-------------------------------- MODULE Geo --------------------------------
(***************************************************************************)
(* The locations of vendors on the map, one for each user at most, and the *)
(* album of pictures that goes with each: PUT, PATCH and DELETE, which are *)
(* open to every vendor who sees the location, POST (which finds or        *)
(* creates the vendor's own) and toggle_visibility.                        *)
(*                                                                         *)
(* Only update_or_create opens a transaction.  A request reads the row,    *)
(* saves every column of what it read, the owner's included, removes the   *)
(* old pictures and adds the new ones in statements that commit one by one.*)
(***************************************************************************)
EXTENDS Naturals, FiniteSets

CONSTANTS
  Workers,    \* web workers
  Users,      \* accounts, to whom a location may be handed over
  Vendors,    \* users with role VENDEDOR
  Places,     \* coordinates that requests may send
  Ids,        \* primary keys of locations
  MaxImages,  \* validate_images: pictures in a request (10 in the code)
  Uploads,    \* lists of pictures that requests carry
  None

Row == [user: Users, place: Places, active: BOOLEAN]

ASSUME UserAssumption == Vendors \subseteq Users
ASSUME NoneAssumption == None \notin Row /\ None \notin Users /\ None \notin Places
ASSUME ImagesAssumption == MaxImages \in Nat

\* The list of pictures in a request: which of them is the main one.
Lists == UNION {[1..n -> BOOLEAN] : n \in 0..MaxImages}
Length(list) == Cardinality(DOMAIN list)
Mains(list) == {i \in DOMAIN list : list[i]}

\* validate_images: one main picture at most.
Album == {list \in Lists : Cardinality(Mains(list)) <= 1}

ASSUME UploadsAssumption == Uploads \subseteq Album

\* What a request may say of is_active; it may leave it out.
Asked == {"on", "off", "unsaid"}

VARIABLES
  rows,     \* Ids -> row of geo_location, or None
  images,   \* rows of locations_images that are not deleted
  task,     \* Workers -> what the request does next
  album     \* history: Ids -> whose pictures the location should have

geoVars == <<rows, images, task, album>>

NewList == [1..0 -> BOOLEAN]
Stages == {"idle", "save", "toggle", "destroy", "clear", "insert"}
Task == [at: Stages, by: Users \cup {None}, id: Ids \cup {None}, copy: Row \cup {None},
         list: Lists, next: 1..(MaxImages + 1)]
Idle == [at |-> "idle", by |-> None, id |-> None, copy |-> None,
         list |-> CHOOSE l \in NewList : TRUE, next |-> 1]
Picture == [location: Ids, by: Workers, number: 1..MaxImages, main: BOOLEAN]
Owed == [state: {"mixed", "open", "whole"}, by: Workers \cup {None}, size: 0..MaxImages]
NoPictures == [state |-> "whole", by |-> None, size |-> 0]
Mixed == [state |-> "mixed", by |-> None, size |-> 0]

TypeOK ==
  /\ rows \in [Ids -> Row \cup {None}]
  /\ images \subseteq Picture
  /\ task \in [Workers -> Task]
  /\ \A w \in Workers : Cardinality(Mains(task[w].list)) <= 1
  /\ album \in [Ids -> Owed]

Init ==
  /\ rows = [id \in Ids |-> None] /\ images = {}
  /\ task = [w \in Workers |-> Idle]
  /\ album = [id \in Ids |-> NoPictures]

-----------------------------------------------------------------------------
At(w, stage) == task[w].at = stage
Done(w) == task' = [task EXCEPT ![w] = Idle]

\* The location with this key is there.
Here(id) == rows[id] # None
Owns(u, id) == Here(id) /\ rows[id].user = u

\* mutant: the queryset of the class, for whoever is signed in
ListedAny(viewer, id) == Here(id) /\ (rows[id].active \/ viewer # None)

\* LocationViewSet.get_queryset, for a user, or for None, who is not signed in.
Listed(viewer, id) == Here(id) /\ (rows[id].active \/ rows[id].user = viewer)

\* A request that gives no is_active leaves the column alone.
Said(asked, old) == IF asked = "unsaid" THEN old ELSE asked = "on"

\* A column the request may leave out.
Given(value, old) == IF value = None THEN old ELSE value

\* After the row: replace the pictures of this location, or leave them.
ThenPictures(w, id, list, replaces) ==
  task' = [task EXCEPT ![w] =
    IF replaces THEN [Idle EXCEPT !.at = "clear", !.id = id, !.list = list]
    ELSE Idle]

Inserting(w) == At(w, "insert")
OthersInsert(w, id) == \E v \in Workers \ {w} : Inserting(v) /\ task[v].id = id

\* History of a request that removed the pictures, to add so many.
AlbumOf(w, id, size) ==
  IF OthersInsert(w, id) THEN Mixed
  ELSE IF size = 0 THEN NoPictures
  ELSE [state |-> "open", by |-> w, size |-> size]

Owe(w, id, size) == album' = [album EXCEPT ![id] = AlbumOf(w, id, size)]

(* LocationViewSet.create: Location.objects.update_or_create(user=user)     *)

\* The vendor's row is locked and the columns in the request are saved; pictures
\* are replaced only by some pictures.
UpdateOrCreate(w, u, id, place, asked, list) ==
  /\ At(w, "idle") /\ Owns(u, id)
  /\ rows' = [rows EXCEPT ![id].place = place, ![id].active = Said(asked, @)]
  /\ ThenPictures(w, id, list, Length(list) > 0)
  /\ UNCHANGED <<images, album>>

\* A new uuid: no row has it and no request remembers it.
Unused(id) ==
  /\ ~Here(id)
  /\ \A v \in Workers : task[v].id # id
  /\ \A i \in images : i.location # id

\* The vendor has no location.  Of two requests that find none, the second to
\* insert is refused by the unique user and finds the row of the first.
Create(w, u, id, place, asked, list) ==
  /\ At(w, "idle") /\ \A other \in Ids : ~Owns(u, other)
  /\ Unused(id)
  /\ rows' = [rows EXCEPT ![id] = [user |-> u, place |-> place, active |-> Said(asked, TRUE)]]
  /\ ThenPictures(w, id, list, Length(list) > 0)
  /\ UNCHANGED <<images, album>>

(* LocationViewSet.update, toggle_visibility, destroy                       *)

\* get_object(), of any location the vendor sees, or .first() of the user's own.
Fetch(w, u, id, stage) ==
  /\ At(w, "idle")
  /\ IF stage = "toggle" THEN Owns(u, id) ELSE u \in Vendors /\ Listed(u, id)
  /\ task' = [task EXCEPT ![w] =
                [Idle EXCEPT !.at = stage, !.by = u, !.id = id, !.copy = rows[id]]]
  /\ UNCHANGED <<rows, images, album>>

\* The user is unique: the row of another location may be in the way.
Fits(id, user) == \A other \in Ids \ {id} : ~Owns(user, other)

\* save() of an instance: every column, and INSERT where the row is gone.
Saves(w, new) ==
  LET id == task[w].id IN
    /\ Fits(id, new.user)
    /\ rows' = [rows EXCEPT ![id] = new]
    /\ IF Here(id) THEN UNCHANGED album ELSE Owe(w, id, 0)

\* The columns in the request, the owner among them, replace those of the
\* instance.  Pictures are replaced whenever there is a list, the empty one too.
Update(w, user, place, asked, list, replaces) ==
  /\ At(w, "save")
  /\ LET t == task[w] IN
       /\ Saves(w, [user |-> Given(user, t.copy.user), place |-> Given(place, t.copy.place),
                    active |-> Said(asked, t.copy.active)])
       /\ ThenPictures(w, t.id, list, replaces)
  /\ UNCHANGED images

ToggleVisibility(w) ==
  /\ At(w, "toggle")
  /\ Saves(w, [task[w].copy EXCEPT !.active = ~task[w].copy.active])
  /\ Done(w)
  /\ UNCHANGED images

\* The new owner, or the one the instance remembers, has another location.
SaveRefused(w, user) ==
  /\ \/ At(w, "save")
     \/ At(w, "toggle") /\ user = None
  /\ ~Fits(task[w].id, Given(user, task[w].copy.user))
  /\ Done(w)
  /\ UNCHANGED <<rows, images, album>>

\* mutant: on_delete=DO_NOTHING
CascadeNothing(id) == images

\* on_delete=CASCADE removes the pictures, deleted or not.
Cascade(id) == {i \in images : i.location # id}

\* The row and its pictures go in one transaction.
Destroy(w) ==
  /\ At(w, "destroy")
  /\ LET id == task[w].id IN
       /\ rows' = [rows EXCEPT ![id] = None]
       /\ images' = Cascade(id)
       /\ IF Here(id) THEN Owe(w, id, 0) ELSE UNCHANGED album
  /\ Done(w)

(* The pictures                                                             *)

\* mutant: the main picture stays
OthersOf(id) == {i \in images : i.location = id /\ ~i.main}

\* location.images.all()
PicturesOf(id) == {i \in images : i.location = id}

\* images.all().delete(), which marks them deleted.
Clear(w) ==
  /\ At(w, "clear")
  /\ LET t == task[w] IN
       /\ images' = images \ PicturesOf(t.id)
       /\ IF Here(t.id) THEN Owe(w, t.id, Length(t.list)) ELSE UNCHANGED album
       /\ IF Length(t.list) = 0 THEN Done(w) ELSE task' = [task EXCEPT ![w].at = "insert"]
  /\ UNCHANGED rows

\* LImages.objects.create(); the last one ends the request.
Insert(w) ==
  /\ Inserting(w)
  /\ LET t == task[w]
         last == t.next = Length(t.list)
     IN /\ Here(t.id)
        /\ images' = images \cup
             {[location |-> t.id, by |-> w, number |-> t.next, main |-> t.list[t.next]]}
        /\ IF last
             THEN /\ Done(w)
                  /\ album' = IF album[t.id].state = "open" /\ album[t.id].by = w
                                THEN [album EXCEPT ![t.id].state = "whole"] ELSE album
             ELSE /\ task' = [task EXCEPT ![w].next = @ + 1]
                  /\ UNCHANGED album
  /\ UNCHANGED rows

\* The location of the picture is gone.
InsertRefused(w) ==
  /\ Inserting(w)
  /\ ~Here(task[w].id)
  /\ Done(w)
  /\ UNCHANGED <<rows, images, album>>

\* A worker dies between two statements.
Die(w) ==
  /\ ~At(w, "idle")
  /\ Done(w)
  /\ UNCHANGED <<rows, images, album>>

Next == \E w \in Workers :
  \/ \E u \in Vendors, id \in Ids, place \in Places, asked \in Asked, list \in Uploads :
       UpdateOrCreate(w, u, id, place, asked, list) \/ Create(w, u, id, place, asked, list)
  \/ \E u \in Users, id \in Ids, stage \in {"save", "toggle", "destroy"} : Fetch(w, u, id, stage)
  \/ \E user \in Users \cup {None}, place \in Places \cup {None}, asked \in Asked,
        list \in Uploads, replaces \in BOOLEAN : Update(w, user, place, asked, list, replaces)
  \/ \E user \in Users \cup {None} : SaveRefused(w, user)
  \/ ToggleVisibility(w) \/ Destroy(w)
  \/ Clear(w) \/ Insert(w) \/ InsertRefused(w)
  \/ Die(w)

Spec == Init /\ [][Next]_geoVars

-----------------------------------------------------------------------------
(* What the rest of the world reads.                                        *)

\* all_locations, for administrators, which leaves out what is switched off.
AllLocations(id) == Here(id) /\ rows[id].active

\* nearby_vendors: active vendors with something in stock, in the radius.
Nearby(id, active, stocked, near) == Here(id) /\ rows[id].active /\ active /\ stocked /\ near

\* A map on which anyone but its user may find the location.
OnMap(id) ==
  \/ Listed(None, id) \/ AllLocations(id)
  \/ \E active, stocked, near \in BOOLEAN : Nearby(id, active, stocked, near)

\* NearbyVendorSerializer: the main picture if there is one, or else any.
Cover(id) ==
  LET mains == {i \in PicturesOf(id) : i.main}
  IN IF mains # {} THEN mains ELSE PicturesOf(id)
=============================================================================
