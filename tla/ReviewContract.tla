----------------------------- MODULE ReviewContract -----------------------------
(***************************************************************************)
(* What the review gates promise the human reviewer, with no queue, no      *)
(* worker and no failure in sight: the stages are decided one after the     *)
(* other, each once; a rejection ends the run's chances of publication; and *)
(* an output is created at most once, after the last approval.              *)
(***************************************************************************)
EXTENDS Naturals

CONSTANTS
    Runs,
    Stages   \* a set of naturals, in the order of the gates

VARIABLES
    verdicts,   \* the verdicts given on each stage of each run
    outputs     \* the number of outputs created for each run

vars == <<verdicts, outputs>>

Approved(r, s) == verdicts[r][s] = {"approve"}

Open(r, s) ==
    /\ verdicts[r][s] = {}
    /\ \A earlier \in Stages : earlier < s => Approved(r, earlier)

\* Each run waits for some stage, the stages before it approved (for a new
\* run: the first stage), and nothing is published.
Init ==
    /\ \A r \in Runs :
        \E s \in Stages :
            /\ Open(r, s)
            /\ \A later \in Stages : later > s => verdicts[r][later] = {}
    /\ outputs = [r \in Runs |-> 0]

Decide(r, s, verdict) ==
    /\ outputs[r] = 0
    /\ Open(r, s)
    /\ verdicts' = [verdicts EXCEPT ![r][s] = {verdict}]
    /\ UNCHANGED outputs

CreateOutput(r) ==
    /\ outputs[r] = 0
    /\ \A s \in Stages : Approved(r, s)
    /\ outputs' = [outputs EXCEPT ![r] = 1]
    /\ UNCHANGED verdicts

Next ==
    \E r \in Runs :
        \/ CreateOutput(r)
        \/ \E s \in Stages, verdict \in {"approve", "reject"} :
                Decide(r, s, verdict)

Spec == Init /\ [][Next]_vars
=============================================================================
