---------------------------- MODULE MCEvidenceRounds ----------------------------
(* Instances of EvidenceRounds for TLC.                                      *)
EXTENDS EvidenceRounds, TLC

CONSTANTS q1, q2, q3, u1, u2, u3

\* Short plans, long enough for one query a round to be a choice.
ShortPlans == {<<q1>>, <<q2>>, <<q1, q3>>}

\* No result, one, several, and results that other searches find as well.
ManyAnswers == {<<>>, <<u1>>, <<u2, u3>>, <<u1, u2>>}
=============================================================================
