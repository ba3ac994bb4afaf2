SPECIFICATION MCFairSpec
CONSTANTS
    Assessors = {a1, a2}
    Viewers = {v1}
    Reviewers = {}
    Keys = {k1}
    Outcomes = {"PASSED"}
    SnapshotStamps = {1, 2}
    ValidationStamps = {1, 2}
    ReviewStamps = {}
    UtcMs <- MCUtcMs
    MaxReconciliations = 1
INVARIANTS
    AssessLinearizable
PROPERTIES
    HistorySpec
    CatchesUp
