----------------------------- MODULE KeyValueMap -----------------------------
(***************************************************************************)
(* What a dblock TABLE promises its users: a map from keys to values in    *)
(* which storing NULL removes the key.                                     *)
(***************************************************************************)
CONSTANTS Key, Value, Null

VARIABLE map

Init == map = [k \in Key |-> Null]

Put(k, v) == map' = [map EXCEPT ![k] = v]

Clear == map' = [k \in Key |-> Null]

Next == Clear \/ \E k \in Key, v \in Value \cup {Null} : Put(k, v)

Spec == Init /\ [][Next]_map
=============================================================================
