------------------------------ MODULE MCDispatcher ------------------------------
(* Instances of DomainEventDispatcher for TLC. *)
EXTENDS DomainEventDispatcher, TLC

CONSTANTS e1, e2, d1, d2, w1, w2, h1, h2

TwoEvents   == [d \in Deliveries |-> IF d = d1 THEN e1 ELSE e2]
OneEvent    == [d \in Deliveries |-> e1]
Keys        == [d \in Deliveries |-> IF d = d1 THEN h1 ELSE h2]
FullReplica == [w \in Workers |-> {h1, h2}]
OldReplica  == [w \in Workers |-> IF w = w2 THEN {h2} ELSE {h1, h2}]

ReplicaSymmetry == Permutations(Workers)
=================================================================================
