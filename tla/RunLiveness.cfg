\* From the review of the outline to the publication under fairness, with two
\* workers and two crashes, losses or aborted dispatches at any step.
CONSTANTS
    p1 = p1
    r1 = r1
    r2 = r2
    w1 = w1
    w2 = w2
    Projects = {p1}
    Runs = {r1}
    ProjectOf <- MCOneProject
    Workers = {w1, w2}
    Events = {1, 2, 3, 4}
    NoRun = NoRun
    MaxFaults = 2
    MaxLockLosses = 0
SPECIFICATION OutlineSpec
INVARIANTS
    ReviewIsOfOpenGate
PROPERTIES
    KeepsReviewContract
    EventSettles
    RunSettles
\* Every event used and every run settled: nothing more happens.
CHECK_DEADLOCK FALSE
