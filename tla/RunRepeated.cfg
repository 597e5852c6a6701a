\* The README's claim that an execution is not repeated, without any fault.
CONSTANTS
    p1 = p1
    r1 = r1
    r2 = r2
    w1 = w1
    w2 = w2
    Projects = {p1}
    Runs = {r1}
    ProjectOf <- MCOneProject
    Workers = {w1, w2}
    Events = {1}
    NoRun = NoRun
    MaxFaults = 0
    MaxLockLosses = 0
SPECIFICATION Spec
SYMMETRY WorkerSymmetry
PROPERTIES
    NoRepeatedExecution
\* Every event used and every run settled: nothing more happens.
CHECK_DEADLOCK FALSE
