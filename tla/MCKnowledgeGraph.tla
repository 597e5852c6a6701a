--------------------------- MODULE MCKnowledgeGraph ---------------------------
(* Instances of KnowledgeGraph for TLC.                                     *)
EXTENDS KnowledgeGraph

\* A card with a path that is cut and then its first part alone; two cards
\* with a link.
MCAnswers ==
    { << [card |-> 1, path |-> <<"x", "y", "x">>],
         [card |-> 1, path |-> <<"x">>] >>,
      << [card |-> 2, to |-> 1, relation |-> "related"] >> }

Symmetric == Permutations(Agents)

MCKnowledge == { <<{"x"}>>, <<{"x", "y"}, {}>> }
=============================================================================
