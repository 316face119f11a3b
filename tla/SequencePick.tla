---------------------------- MODULE SequencePick ----------------------------
(* What is left of a queue when some of its entries are taken out.           *)
EXTENDS Integers, Sequences, FiniteSets

\* How many members of K come up to k.
Rank(K, k) == Cardinality({ j \in K : j <= k })

\* The entries of q at the positions in K, in the order of q.
Pick(q, K) == [i \in 1 .. Cardinality(K) |-> q[CHOOSE k \in K : Rank(K, k) = i]]
=============================================================================
