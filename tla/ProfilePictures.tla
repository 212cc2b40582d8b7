--------------------------- MODULE ProfilePictures ---------------------------
(***************************************************************************)
(* The picture of a user's profile: one row per user, whose file is sent   *)
(* to the file store before the row is written, and which is turned off,   *)
(* never deleted.                                                          *)
(***************************************************************************)
EXTENDS Publishing

CONSTANT Elsewhere  \* an address, or a picture in base64: no file of ours

ASSUME ElsewhereAssumption == Elsewhere \notin Files

VARIABLES
  pictures,  \* Vendors -> the row in users_profile_picture, or NoRow
  latest     \* history: the picture that each user posted last

gallery == <<pictures, latest>>

Address == Files \cup {Elsewhere}
ProfilePicture == [image_url: Address, is_active: BOOLEAN]

PictureRequest ==
  [at: {"store", "turnOff", "done", "broken"}, kind: {"post", "delete"}, user: Vendors,
   row: ProfilePicture, mine: SUBSET Files]

PictureKinds == {"post", "delete"}

\* Users who posted a picture before.
PicturesInit ==
  \E u \in Vendors, url \in Address :
    /\ latest = [v \in Vendors |-> IF v = u THEN url ELSE Elsewhere]
    /\ pictures = [v \in Vendors |-> [image_url |-> latest[v], is_active |-> TRUE]]
    /\ hosted = Files \cap {url} /\ lost = {}

\* POST with an address, or with a picture: it is uploaded, or kept in base64
\* when the upload fails.
Post(w, v) ==
  /\ \E url \in Address \ hosted :
       LET mine == {url} \cap Files IN
         /\ hosted' = hosted \cup mine
         /\ Begin(w, [at |-> "store", kind |-> "post", user |-> v, mine |-> mine,
                      row |-> [image_url |-> url, is_active |-> TRUE]])
  /\ UNCHANGED <<lost, gallery>>

\* The row replaces another one, whose file stays in Cloudinary.
Replace(v, row) ==
  /\ pictures' = [pictures EXCEPT ![v] = row]
  /\ lost' = (lost \cup (Files \cap {pictures[v].image_url})) \ {row.image_url}

\* ProfilePicture.objects.update_or_create, in a transaction.
Store(w) ==
  /\ At(w, {"post"}, "store")
  /\ Replace(request[w].user, request[w].row)
  /\ latest' = [latest EXCEPT ![request[w].user] = request[w].row.image_url]
  /\ request' = [request EXCEPT ![w].at = "done"]
  /\ UNCHANGED <<rest, hosted>>

\* DELETE fetches the row ...
Look(w, v) ==
  /\ Begin(w, [at |-> "turnOff", kind |-> "delete", user |-> v, mine |-> {}, row |-> pictures[v]])
  /\ UNCHANGED <<files, gallery>>

\* mutant: pic.save() comes before pic.is_active = False
TurnedOffLate(row) == row

TurnedOff(row) == [row EXCEPT !.is_active = FALSE]

\* ... and saves every column of it.
TurnOff(w) ==
  /\ At(w, {"delete"}, "turnOff")
  /\ Replace(request[w].user, TurnedOff(request[w].row))
  /\ request' = [request EXCEPT ![w].at = "done"]
  /\ UNCHANGED <<rest, hosted, latest>>

\* The picture that a profile shows: its own view, or the profile's.
ShownPicture(v) == IF pictures[v].is_active THEN pictures[v].image_url ELSE NoRow

\* UserViewForUsers, to anybody: the picture of a user in use.
PublicPicture(v) == IF vendors[v].active THEN ShownPicture(v) ELSE NoRow

Portray(w) ==
  \/ \E v \in Vendors : Post(w, v) \/ Look(w, v)
  \/ Store(w) \/ TurnOff(w)
  \/ request[w].kind \in PictureKinds /\ ~Free(w) /\ Fail(w) /\ UNCHANGED gallery
=============================================================================
