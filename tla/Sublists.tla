------------------------------ MODULE Sublists -------------------------------
(* A list without some of its entries, the rest in their order: what is left   *)
(* of s at the places I.                                                       *)
EXTENDS Integers, Sequences, FiniteSets

\* How many of the places I come up to place i.
Rank(I, i) == Cardinality({j \in I : j <= i})

\* The numbers in I, ascending.
InOrder(I) == [k \in 1 .. Cardinality(I) |-> CHOOSE i \in I : Rank(I, i) = k]

\* Vec::retain.
Retained(s, I) == [k \in 1 .. Cardinality(I) |-> s[InOrder(I)[k]]]
=============================================================================
