------------------------------ MODULE Sublists -------------------------------
(***************************************************************************)
(* Leaving some of a sequence out, as Array.prototype.filter does: what    *)
(* stays keeps its order.                                                  *)
(***************************************************************************)
EXTENDS Integers, Sequences, FiniteSets

\* How far a place of S is from its first one, and the k-th place of it.
Rank(S, i) == Cardinality({j \in S : j <= i})
PlaceOf(S, k) == CHOOSE i \in S : Rank(S, i) = k

\* What s has at the places of S.
AtPlaces(s, S) == [k \in 1..Cardinality(S) |-> s[PlaceOf(S, k)]]

=============================================================================
