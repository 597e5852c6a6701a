---------------------------- MODULE MCAgentBoard ----------------------------
(* Instances of AgentBoard for TLC.                                         *)
EXTENDS AgentBoard

MCAgents == {"prism", "focus", "dispersion", "diffraction"}

\* No chain; one task; a task with two dependencies, one of them ignored
\* because it is the task itself; a task for prism.
MCPlans ==
    { <<>>,
      << [agent |-> "diffraction", needs |-> {}] >>,
      << [agent |-> "focus", needs |-> {}],
         [agent |-> "prism", needs |-> {2}],
         [agent |-> "diffraction", needs |-> {1, 2}] >> }
=============================================================================
