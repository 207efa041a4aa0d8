------------------------------- MODULE GoMaps -------------------------------
(***************************************************************************)
(* Go maps as functions whose domain is the set of keys in the map.        *)
(***************************************************************************)

EmptyMap == [x \in {} |-> x]

\* m is a map with keys in K and values in V.
IsMap(m, K, V) == DOMAIN m \subseteq K /\ m \in [DOMAIN m -> V]

\* m[k] = v
Put(m, k, v) == [x \in DOMAIN m \cup {k} |-> IF x = k THEN v ELSE m[x]]

\* delete(m, k)
Delete(m, k) == [x \in DOMAIN m \ {k} |-> m[x]]

\* The value of m[k], which is the zero value of its type if k is not a key.
Get(m, k, zero) == IF k \in DOMAIN m THEN m[k] ELSE zero
=============================================================================
