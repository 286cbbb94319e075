------------------------------- MODULE Places -------------------------------
(***************************************************************************)
(* Some entries of a sequence, in their order, by the places they have in  *)
(* it: what a loop that skips entries collects.                            *)
(***************************************************************************)
EXTENDS Integers, FiniteSets

\* The k-th of a set of places.
Place(places, k) == CHOOSE i \in {j \in places : Cardinality(places \cap 1..j) = k} : TRUE

EntriesAt(seq, places) == [k \in 1..Cardinality(places) |-> seq[Place(places, k)]]
=============================================================================
