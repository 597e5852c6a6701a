\* A budget that allows more rounds than queries: two rounds, one query.
SPECIFICATION Spec
CONSTANTS
    q1 = q1  q2 = q2  q3 = q3
    u1 = u1  u2 = u2  u3 = u3
    Queries = {q1, q2, q3}
    Urls = {u1, u2, u3}
    Plans <- ShortPlans
    Answers <- ManyAnswers
    MaxQueries = 1
    MaxRounds = 2
    MaxSources = 2
    MaxExecutions = 1
INVARIANT
    BudgetAllowsRound
\* A run that reached its outline, was cancelled or has used up its executions
\* stops.
CHECK_DEADLOCK FALSE
