-------------------------------- MODULE Maps --------------------------------
(***************************************************************************)
(* What the program does with a std::map: a function from its keys.        *)
(***************************************************************************)

(* map[key] = value *)
With(map, key, value) ==
  [k \in DOMAIN map \cup {key} |-> IF k = key THEN value ELSE map[k]]

(* insert, which leaves a key that is there as it is *)
WithNew(map, key, value) ==
  [k \in DOMAIN map \cup {key} |-> IF k \in DOMAIN map THEN map[k] ELSE value]

(* the entries of another map, written over those that are there *)
WithAll(map, more) ==
  [k \in DOMAIN map \cup DOMAIN more |-> IF k \in DOMAIN more THEN more[k] ELSE map[k]]

(* erase *)
Without(map, key) == [k \in DOMAIN map \ {key} |-> map[k]]
=============================================================================
