-------------------------------- MODULE Maps --------------------------------
(***************************************************************************)
(* Maps, as functions on the keys that they have.                          *)
(***************************************************************************)

\* The map with a value put under a key, in the place of what was there.
Put(map, key, value) == [x \in DOMAIN map \cup {key} |-> IF x = key THEN value ELSE map[x]]
=============================================================================
