\* One project through decomposition, supplement, synthesis and review.
CONSTANTS
    Agents <- MCAgents
    Plans <- MCPlans
    MaxRetries = 1
    MaxTasks = 5
    MaxFailures = 2
    MaxFaults = 1
SPECIFICATION Spec
INVARIANTS
    DependenciesFirst
    EndedIsSettled
    SupplementedOnce
    NoTaskLeftBehind
PROPERTIES
    DoneIsFinal
\* A tick that has no row left for a task stops.
CHECK_DEADLOCK FALSE
