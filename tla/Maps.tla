-------------------------------- MODULE Maps --------------------------------
(***************************************************************************)
(* JavaScript Maps as functions whose domain is the set of present keys.   *)
(***************************************************************************)

EmptyMap == [key \in {} |-> {}]

\* Map.set
Put(map, key, value) ==
  [k \in DOMAIN map \cup {key} |-> IF k = key THEN value ELSE map[k]]

\* Map.delete, for every key in `keys`
Without(map, keys) == [k \in DOMAIN map \ keys |-> map[k]]
=============================================================================
