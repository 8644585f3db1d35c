-------------------------------- MODULE Places --------------------------------
(***************************************************************************)
(* Parts and rearrangements of a sequence, by the places of its elements.  *)
(***************************************************************************)
EXTENDS Naturals, Sequences, FiniteSets

\* The elements of a set of numbers in ascending order.
Ranked(S) ==
  [n \in 1..Cardinality(S) |->
     CHOOSE x \in S : Cardinality({y \in S : y < x}) = n - 1]

\* The elements of a sequence at some of its places, in their order.
ElementsAt(s, places) == [n \in 1..Cardinality(places) |-> s[Ranked(places)[n]]]

\* A sequence in the order of a relation on its places.
Arranged(s, before) ==
  [n \in DOMAIN s |->
     s[CHOOSE i \in DOMAIN s : Cardinality({j \in DOMAIN s : <<j, i>> \in before}) = n - 1]]
===============================================================================
