------------------------------- MODULE Totals -------------------------------
(* Sums of token amounts: total stakes, vote weights, slashed cuts.  A sum is
   counted coin by coin, as the size of a set, so that it needs no recursion
   and the proofs can reason about it as a cardinality. *)
EXTENDS Integers, FiniteSets

Coins(S, f) == UNION {{k} \X (1..f[k]) : k \in S}
TotalOf(S, f) == Cardinality(Coins(S, f))
=============================================================================
