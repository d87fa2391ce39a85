------------------------------ MODULE Ascending ------------------------------
(***************************************************************************)
(* The arrays the daemons sort by id, as sequences.                        *)
(***************************************************************************)
EXTENDS Integers, FiniteSets

\* The numbers of a finite set in ascending order.
InOrder(S) ==
    CHOOSE s \in [1..Cardinality(S) -> S] :
        \A i, j \in 1..Cardinality(S) : i < j => s[i] < s[j]
=============================================================================
