------------------------------ MODULE HashMap ------------------------------
(***************************************************************************)
(* The maps that the services and clients keep (std::collections::HashMap):*)
(* a map is a function whose domain is the set of its keys.                *)
(***************************************************************************)
EmptyMap == [key \in {} |-> key]

(* HashMap::insert                                                         *)
MapInsert(map, key, value) ==
  [k \in DOMAIN map \cup {key} |-> IF k = key THEN value ELSE map[k]]
=============================================================================
