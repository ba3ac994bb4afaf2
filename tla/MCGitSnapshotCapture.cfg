SPECIFICATION CaptureSpec
CONSTANTS
    Projects = {p1}
    Missions = {m1}
    Roots = {r1}
    Times = {1}
    Requests = {q1}
    Branches = {b1}
    Commits = {x1, x2}
    MaxSnapshots = 1
    Changes = {"CLEAN", "DIRTY"}
SYMMETRY Symmetry
INVARIANTS
    EvidenceOfOneInstant
PROPERTIES
    ArchivedIsFrozen
