---------------------------- MODULE MCRunLifecycle ----------------------------
(* Instances of RunLifecycle for TLC.                                       *)
EXTENDS RunLifecycle, TLC

CONSTANTS p1, r1, r2, w1, w2

MCOneProject == [r \in Runs |-> p1]
WorkerSymmetry == Permutations(Workers)

(* The state in which r1 waits for the review of a later gate, the earlier  *)
(* ones approved and their events done.  Instances that start here spend    *)
(* their events on what comes after.                                        *)
WaitingAt(gate, reviews) ==
    /\ project = [p \in Projects |-> "to_review"]
    /\ run = [r \in Runs |->
                IF r = r1
                THEN [status |-> "waiting_review", started |-> FALSE,
                      revision |-> reviews, pending |-> gate]
                ELSE [status |-> "none", started |-> FALSE,
                      revision |-> 0, pending |-> NoStage]]
    /\ decisions = [r \in Runs |->
                IF r = r1
                THEN {[revision |-> (g + 1) \div 2, stage |-> g,
                       verdict |-> "approve"] : g \in {h \in Gates : h < gate}}
                ELSE {}]
    /\ outbox = [e \in Events |->
                IF e <= reviews THEN [status |-> "done", run |-> r1]
                                ELSE [status |-> "none", run |-> NoRun]]
    /\ broker = {}
    /\ worker = [w \in Workers |-> Idle]
    /\ checkpoint = [r \in Runs |->
                IF r = r1 THEN [pos |-> gate, interrupted |-> TRUE]
                          ELSE [pos |-> Brief, interrupted |-> FALSE]]
    /\ published = [r \in Runs |-> {}]
    /\ outputs = [r \in Runs |-> 0]
    /\ faults = 0
    /\ lockLosses = 0

OutlineSpec == WaitingAt(OutlineGate, 2) /\ [][Next]_vars /\ Fairness
DraftSpec == WaitingAt(DraftGate, 3) /\ [][Next]_vars
=============================================================================
