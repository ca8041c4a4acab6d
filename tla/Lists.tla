------------------------------- MODULE Lists -------------------------------
(***************************************************************************)
(* Lists and sums, of which something can be proved: the place of a member  *)
(* in a list is defined by the number of members before it, and a sum by    *)
(* the size of a set, where SortSeq and SelectSeq mean nothing to the       *)
(* provers and a fold needs an induction.                                   *)
(***************************************************************************)
EXTENDS Naturals, FiniteSets, Sequences

\* The members of S, each after those that precede it.
Ordered(S, Precedes(_, _)) ==
    [n \in 1..Cardinality(S) |->
        CHOOSE x \in S : Cardinality({y \in S : Precedes(y, x)}) = n - 1]

Ascending(K) == Ordered(K, LAMBDA j, k : j < k)

\* The members of list s at positions K.
Kept(s, K) ==
    LET at == Ascending(K)
    IN  [n \in DOMAIN at |-> s[at[n]]]

\* The members of list s that pass the test.
Selected(s, Test(_)) == Kept(s, {k \in DOMAIN s : Test(s[k])})

\* The sum of the numbers that Count gives for the members of S.
Total(S, Count(_)) == Cardinality(UNION {{x} \X (1..Count(x)) : x \in S})

=============================================================================
