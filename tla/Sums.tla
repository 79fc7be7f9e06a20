-------------------------------- MODULE Sums --------------------------------
(***************************************************************************)
(* Sums of natural numbers over finite sets: how many units the members of *)
(* a set have together.  (Counting needs no recursion, so facts about sums *)
(* follow from facts about finite sets.)                                   *)
(***************************************************************************)
EXTENDS Integers, FiniteSets

\* The units of x are <<x, 1>> to <<x, f[x]>>.
UnitsOf(f, S) == UNION {{x} \X (1 .. f[x]) : x \in S}

\* sum(f[x] for x in S)
SumOf(f, S) == Cardinality(UnitsOf(f, S))
=============================================================================
