SPECIFICATION FairWorkspaceSpec
CONSTANTS
    current = current
    older = older
    m1 = m1
    m2 = m2
    Processes = {current, older}
    Migrations = {m1, m2}
    Plan <- MCPlan
    Foreign = {0, 3}
    NoProcess = NoProcess
    Server = current
    Projects = {1, 2}
    Missions = {1, 2}
    Roots = {root}
    DemoRoot = root
    Times = {1, 2}
    MaxFaults = 1
    MaxCalls = 2
CHECK_DEADLOCK FALSE
INVARIANTS
    SetupIsWhole
    OpenMeansMigrated
    RefusalsStand
    StoredStateIsReadable
    MissionsFollowOneAnother
PROPERTIES
    OthersSurvive
    StartsAndRetriesEnd
