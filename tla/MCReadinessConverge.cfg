SPECIFICATION Spec
CONSTANTS
    Assessors = {a1, a2}
    Viewers = {}
    Reviewers = {}
    Keys = {}
    Outcomes = {"PASSED"}
    SnapshotStamps = {1}
    ValidationStamps = {}
    ReviewStamps = {}
    UtcMs <- MCUtcMs
    MaxReconciliations = 1
PROPERTIES
    ConcurrentConverge
