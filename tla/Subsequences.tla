---------------------------- MODULE Subsequences ----------------------------
(* What a loop that passes over some of a list's entries leaves of it, by  *)
(* the rank of the positions it keeps: a definition without recursion, so  *)
(* that facts about it can be proved for every length.                     *)
EXTENDS Naturals, Sequences, FiniteSets

\* The p-th of some positions.
Nth(ps, p) == CHOOSE i \in ps : Cardinality({j \in ps : j <= i}) = p

\* The entries at the positions ps, in order.
Picked(s, ps) == [k \in 1 .. Cardinality(ps) |-> s[Nth(ps, k)]]

\* The entries that are in a set, in order.
Filtered(s, S) == Picked(s, {i \in DOMAIN s : s[i] \in S})

=============================================================================
