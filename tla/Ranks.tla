--------------------------------- MODULE Ranks ---------------------------------
(* Things that are numbered anew in the order of their old numbers. *)
EXTENDS Integers, FiniteSets

\* The k-th smallest of some numbers.
Nth(S, k) == CHOOSE i \in S : Cardinality({j \in S : j <= i}) = k

\* reset_index: the entries of a sequence at these places, numbered from one.
Renumbered(s, places) == [k \in 1 .. Cardinality(places) |-> s[Nth(places, k)]]
=============================================================================
