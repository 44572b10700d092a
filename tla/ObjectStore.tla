---------------------------- MODULE ObjectStore ----------------------------
(***************************************************************************)
(* What a container over slots promises for its contents, without slots:   *)
(* an object stays at its address, under its key, from its insertion to    *)
(* its removal.  Where nothing but the order of insertion numbers the      *)
(* contents, packing renumbers them in the order of their addresses.       *)
(***************************************************************************)
EXTENDS Integers, FiniteSets

CONSTANTS
    Addresses,          \* where an object may be
    Keys,               \* the keys of objects
    Unique,             \* no two objects have the same key
    Renumbers           \* packing moves the objects to the first addresses

VARIABLE objects        \* the key of the object at each occupied address

Init == objects = <<>>

Insert(a, k) ==
    /\ a \in Addresses \ DOMAIN objects
    /\ Unique => \A b \in DOMAIN objects : objects[b] # k
    /\ objects' = [b \in DOMAIN objects \cup {a} |-> IF b = a THEN k ELSE objects[b]]

Remove(a) ==
    /\ a \in DOMAIN objects
    /\ objects' = [b \in DOMAIN objects \ {a} |-> objects[b]]

Pack ==
    /\ Renumbers
    /\ objects' = [n \in 0 .. Cardinality(DOMAIN objects) - 1 |->
                     objects[CHOOSE a \in DOMAIN objects :
                               Cardinality({b \in DOMAIN objects : b < a}) = n]]

Clear == objects' = <<>>

Next ==
    \/ \E a \in Addresses, k \in Keys : Insert(a, k)
    \/ \E a \in DOMAIN objects : Remove(a)
    \/ Pack \/ Clear

Spec == Init /\ [][Next]_objects
=============================================================================
