\* One project: two analyses of a collection, or one, an output and a merged one.
CONSTANTS
    Ticks <- MCTicks
    Kind <- MCKind
    Boards <- MCBoards
    Addresses = {a, b}
    MaxSearchRounds = 2
    MaxSearchQueries = 2
    MaxMaterials = 2
    MaxKeywords = 2
    MaxRecords = 1
    MaxSources = 3
    MaxCards = 3
    MaxOutputs = 2
    MaxIncidents = 1
SPECIFICATION Spec
SYMMETRY Symmetric
INVARIANTS
    WithinQueries
    MergeKeepsRecords
    ProcessedWasAnalysed
    DuplicatesHaveCause
    NoEmptyDone
PROPERTIES
    DoneUnlessReopened
\* A tick that has no row left for what it stores stops.
CHECK_DEADLOCK FALSE
