SPECIFICATION MCSpec
CONSTANTS
    Assessors = {a1}
    Viewers = {v1}
    Reviewers = {w1}
    Projectors = {p1, p2}
    Keys = {k1}
    Outcomes = {"PASSED"}
    SnapshotStamps = {1, 3}
    ValidationStamps = {2}
    ReviewStamps = {2}
    UtcMs <- MCUtcMs
    MaxReconciliations = 1
SYMMETRY Symmetry
INVARIANTS
    ViewLinearizable
    PassportsConverge
    ReadyPassportMeansOpen
PROPERTIES
    ReadyOnlyWhenOpen
