------------------------------- MODULE Places -------------------------------
(* Places in a list, and what stands at some of them. *)
EXTENDS Integers, FiniteSets

\* The k-th of the places, and what a list has at the places, in its order.
Nth(places, k) == CHOOSE i \in places : Cardinality({j \in places : j <= i}) = k
Picked(list, places) == [k \in 1 .. Cardinality(places) |-> list[Nth(places, k)]]
=============================================================================
