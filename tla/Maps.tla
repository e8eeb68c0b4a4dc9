-------------------------------- MODULE Maps --------------------------------
(* The maps of the code (DashMap, HashMap and im::HashMap behind a lock),  *)
(* one operation at a time: a function on the keys that are there.         *)

NoMap == [k \in {} |-> 0]
Has(map, k) == k \in DOMAIN map
Put(map, k, v) == [x \in DOMAIN map \cup {k} |-> IF x = k THEN v ELSE map[x]]
Without(map, k) == [x \in DOMAIN map \ {k} |-> map[x]]
=============================================================================
