---------------------------- MODULE MCLibraryWalk ----------------------------
EXTENDS LibraryWalk

(* Four photos, one undated, two whose order on the timeline is not that of
   their dates; half a day is a unit. *)
TheKeys == 1..4
TheDates == [k \in TheKeys |-> <<9, 5, 6, 0>>[k]]
ThePlaces == [k \in TheKeys |-> <<8, 6, 5, 7>>[k]]
=============================================================================
