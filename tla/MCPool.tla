------------------------------- MODULE MCPool -------------------------------
(* Two keys of one photograph: the same bytes under both. *)
EXTENDS Pool, TLC

CONSTANTS k1, k2, p1, p2

MCSha == [k \in Keys |-> "same"]
MCName == [k \in Keys |-> k]
MCSize == [k \in Keys |-> 2]
MCPhoto == [k \in Keys |-> "photo"]
=============================================================================
