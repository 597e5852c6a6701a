\* One worker that asks for evidence twice, the first answer lost.
CONSTANTS
    brief = brief
    coverage = coverage
    w1 = w1
    w2 = w2
    q1 = q1
    q2 = q2
    Workers = {w1}
    Nodes = {brief, coverage}
    EvidenceNodes = {coverage}
    Contexts = {1, 2}
    Reserve <- MCReserve
    Queries = {q1}
    MaxCalls = 2
    MaxCost = 6
    MaxQueries = 1
SPECIFICATION Spec
INVARIANTS
    NodeNotAskedAgain
\* A run whose budget is spent may never be asked for anything again.
CHECK_DEADLOCK FALSE
