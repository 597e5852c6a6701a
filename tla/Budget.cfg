\* Three requests and one search within the limits, a cost budget smaller than
\* all requests together, two workers.
CONSTANTS
    brief = brief
    coverage = coverage
    w1 = w1
    w2 = w2
    q1 = q1
    q2 = q2
    Workers = {w1, w2}
    Nodes = {brief, coverage}
    EvidenceNodes = {coverage}
    Contexts = {1, 2, 3}
    Reserve <- MCReserve
    Queries = {q1, q2}
    MaxCalls = 3
    MaxCost = 5
    MaxQueries = 1
SPECIFICATION Spec
SYMMETRY Symmetry
INVARIANTS
    TypeOK
    SentOnce
    WithinLimits
    WithinCost
    BillsAreCovered
\* A run whose budget is spent may never be asked for anything again.
CHECK_DEADLOCK FALSE
