\* From the last review on: publication, cancellation and a second run of the
\* project, with one crash, loss or aborted dispatch, and the connection of one
\* advisory lock lost, so that two workers execute a run at once.
CONSTANTS
    p1 = p1
    r1 = r1
    r2 = r2
    w1 = w1
    w2 = w2
    Projects = {p1}
    Runs = {r1, r2}
    ProjectOf <- MCOneProject
    Workers = {w1, w2}
    Events = {1, 2, 3, 4, 5}
    NoRun = NoRun
    MaxFaults = 1
    MaxLockLosses = 1
SPECIFICATION DraftSpec
SYMMETRY WorkerSymmetry
INVARIANTS
    OneActiveRun
    LiveRunHasEvent
    OneOutput
    PublishedOnlyIfApproved
    CompletedHasOutput
    DoneProjectIsSettled
PROPERTIES
    CancelledIsFinal
\* Every event used and every run settled: nothing more happens.
CHECK_DEADLOCK FALSE
