\* Tags and links of up to three cards, before and after the migration.
CONSTANTS
    Names = {"x", "y"}
    Relations = {"related", "needs"}
    Related = "related"
    Agents = {a1, a2}
    Answers <- MCAnswers
    Knowledge <- MCKnowledge
    MaxLevels = 2
    MaxDepth = 2
    MaxTags = 3
    MaxCards = 3
    MaxCalls = 2
SPECIFICATION Spec
SYMMETRY Symmetric
INVARIANTS
    TreeHasEveryTag
    GraphIsNeighbourhood
    TagsNameTheirPath
    RowsRefer
\* A tick that has no row left for a tag stops.
CHECK_DEADLOCK FALSE
