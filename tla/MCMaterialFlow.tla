---------------------------- MODULE MCMaterialFlow ----------------------------
(* Instances of MaterialFlow for TLC.                                       *)
EXTENDS MaterialFlow

\* The scheduler's ticks, and one of dispersion beside them.
MCTicks == {<<"focus", 1>>, <<"dispersion", 1>>, <<"dispersion", 2>>,
            <<"diffraction", 1>>}

MCKind == <<"collect", "analyse", "analyse", "produce", "merge", "collect">>

\* Two analyses of one collection; one analysis and an output of it, with room
\* for the task of a gap report; two analyses of what people add or a gap report
\* collects, an output and a merged one.
MCBoards == {{1, 2, 3}, {1, 2, 4}, {2, 3, 4, 5}}

Symmetric == Permutations(Addresses)
=============================================================================
