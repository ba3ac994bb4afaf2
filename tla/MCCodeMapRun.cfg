SPECIFICATION MCSpec
CONSTANTS
    MaximumOutputBytes = 3
    MaxWritten = 3
    HasInput = TRUE
    Commits <- MCCommits
    Tree <- MCTree
    Changes = {"clean", "dirty"}
    MaxFiles = 2
    MaxFileBytes = 2
    MaxAggregateBytes = 2
    MaxRevisions = 1
    SourceTrees <- MCSourceTrees
    SpecStems = {"a.test"}
    FileNames <- MCFileNames
    MaxRecords = 13
    MaxRoute = 4
    MaxAssets = 7
    MaxEdges = 3
    MaxLabel = 3
    MaxKey = 9
CHECK_DEADLOCK FALSE
INVARIANTS
    MapIsOfItsSnapshot
    SuccessIsWhole
    NoStrayChild
    MembersAreExact
PROPERTIES
    RunEnds
