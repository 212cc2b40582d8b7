------------------------------ MODULE GeoProps ------------------------------
(* What is claimed of module Geo.                                           *)
EXTENDS Geo

Main(id) == {i \in PicturesOf(id) : i.main}

\* However requests interleave and die, a request that replaced the pictures of a
\* location while no other was adding some leaves its own pictures, with one main
\* picture at most, and all of them once it is through, so that the picture shown
\* for a vendor nearby is one of that request, and its main one if it has one
\* (geo/serializers.py:84-120, 151-154).
AlbumOfOneRequest ==
  \A id \in Ids : album[id].state # "mixed" =>
    /\ \A i \in PicturesOf(id) : i.by = album[id].by
    /\ Cardinality(Main(id)) <= 1
    /\ album[id].state = "whole" => Cardinality(PicturesOf(id)) = album[id].size
    /\ PicturesOf(id) # {} =>
         /\ Cover(id) # {}
         /\ \A i \in Cover(id) : i.by = album[id].by /\ (Main(id) = {} \/ Main(id) = {i})

\* The state is well typed, and a picture always belongs to a location that is
\* there, although requests add pictures to a location that another request may
\* have deleted, or replaced by a new one, since (geo/models.py:30-34).
PicturesHaveLocation ==
  TypeOK /\ \A i \in images : Here(i.location)

\* A location that is switched off is kept from the other vendors.  A request of
\* theirs still changes it, moves it, switches it on, gives it away or deletes it,
\* but only if it read the row while it was on the map, or while it was its
\* user's own (geo/views.py:18-33, 67-143, geo/serializers.py:105-115).
HiddenIsTheOwners ==
  [][\A w \in Workers :
       LET t == task[w] IN
         /\ t.at \in {"save", "toggle", "destroy"} /\ task'[w] # t
         /\ Here(t.id) /\ ~OnMap(t.id) /\ rows'[t.id] # rows[t.id]
         => t.by = t.copy.user \/ t.copy.active]_geoVars
=============================================================================
