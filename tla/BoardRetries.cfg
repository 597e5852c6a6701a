\* Tasks that fail more often than they may be retried.
CONSTANTS
    Agents <- MCAgents
    Plans <- MCPlans
    MaxRetries = 1
    MaxTasks = 4
    MaxFailures = 2
    MaxFaults = 0
SPECIFICATION Spec
INVARIANT RetriesEnd
CHECK_DEADLOCK FALSE
