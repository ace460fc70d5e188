------------------------------ MODULE MapOrder -------------------------------
(***************************************************************************)
(* The order of the keys of a JavaScript Map, which is that of their       *)
(* insertion: a sequence without repetitions. What is deleted leaves the   *)
(* rest in order. SelectSeq would say the same, by a recursion that no     *)
(* proof can unfold; here the places of what stays are counted.            *)
(***************************************************************************)
EXTENDS Integers, Sequences, FiniteSets

PlacesOf(order, K) == {i \in DOMAIN order : order[i] \in K}

\* The place of the n-th of them.
Nth(places, n) == CHOOSE i \in places : Cardinality({j \in places : j <= i}) = n

\* The keys of order that are in K.
Within(order, K) ==
    LET places == PlacesOf(order, K)
    IN  [n \in 1..Cardinality(places) |-> order[Nth(places, n)]]
==============================================================================
