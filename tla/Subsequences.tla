----------------------------- MODULE Subsequences -----------------------------
(* A list comprehension, [x for x in s if ...], as the elements of s at some  *)
(* of its places: SelectSeq without recursion, so that it can be reasoned     *)
(* about.                                                                     *)

EXTENDS Naturals, Sequences, FiniteSets

\* The n-th of the places, by size.
Nth(places, n) == CHOOSE k \in places : Cardinality({m \in places : m <= k}) = n

\* What s has at the places, in the order it has it.
AtPlaces(s, places) == [n \in 1..Cardinality(places) |-> s[Nth(places, n)]]

==============================================================================
