------------------------------ MODULE Sequencing ------------------------------
(***************************************************************************)
(* Loops, sort and list comprehensions, as the models that follow an        *)
(* algorithm step by step need them.  The prover knows nothing of SortSeq   *)
(* and SelectSeq, which these stand in for.                                 *)
(***************************************************************************)
EXTENDS Integers, Sequences, FiniteSets

\* A sequence folded from the left.
Folded(Op(_, _), base, s) ==
    LET fold[i \in 0 .. Len(s)] == IF i = 0 THEN base ELSE Op(fold[i - 1], s[i]) IN fold[Len(s)]

\* The elements of a set in a strict total order: the k-th has k - 1 before it.
Sorted(S, Before(_, _)) ==
    [k \in 1 .. Cardinality(S) |->
        CHOOSE x \in S : Cardinality({y \in S : Before(y, x)}) = k - 1]

Ascending(S) == Sorted(S, <)

\* The elements of a sequence that pass a test, in its order.
Passing(s, Test(_)) ==
    LET at == Ascending({i \in DOMAIN s : Test(s[i])}) IN [k \in DOMAIN at |-> s[at[k]]]
=============================================================================
