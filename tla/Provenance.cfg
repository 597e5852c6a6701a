\* Three calls of three executions, two faults; two addresses, two texts and one
\* too short.
CONSTANTS
    Workers = {w1, w2, w3}
    Projects = {p1}
    Addresses = {u1, u2}
    Texts <- MCTexts
    MinLength = 2
    Window = 4
    Step = 3
    NoWorker = NoWorker
    MaxIngests = 3
    MaxFaults = 2
SPECIFICATION FairSpec
INVARIANTS
    OneRowEach
    QuotesFitChunks
    ReceivesItsText
PROPERTIES
    IngestEnds
\* Every call made and ended: nothing more happens.
CHECK_DEADLOCK FALSE
