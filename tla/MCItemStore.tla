----------------------------- MODULE MCItemStore -----------------------------
(* Two albums and keys of one photograph: k1 and k2 are the same bytes, k3 the same name
   and second as k2 but larger. *)
EXTENDS ItemStore

CONSTANTS k1, k2, k3

MCSha == [k \in Keys |-> IF k = k3 THEN "other" ELSE "same"]
MCName == [k \in Keys |-> IF k = k1 THEN "plain" ELSE "edited"]
MCSize == [k \in Keys |-> IF k = k3 THEN 2 ELSE 1]
MCPhoto == [k \in Keys |-> "photo"]

(* No property of the store by itself reads mode or synced: one album whose
   mode moves is enough, and none need be marked. *)
FewPageVisits == mode["b"] = "none" /\ synced = {}
=============================================================================
