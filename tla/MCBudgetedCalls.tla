---------------------------- MODULE MCBudgetedCalls ----------------------------
(* Instances of BudgetedCalls for TLC.                                      *)
EXTENDS BudgetedCalls, TLC

CONSTANTS brief, coverage, w1, w2, q1, q2

\* The longer the evidence, the more a request can cost.
MCReserve ==
    [q \in Requests |-> IF q.node = brief THEN 2 ELSE q.context]
WorkerSymmetry == Permutations(Workers)
QuerySymmetry == Permutations(Queries)
Symmetry == WorkerSymmetry \cup QuerySymmetry
=============================================================================
