SPECIFICATION FairAdapterSpec
CONSTANTS
    e1 = e1
    e2 = e2
    i2 = i2
    i1 = i1
    p1 = p1
    p2 = p2
    big = big
    Executions = {e1, e2}
    RequestIds = {i1, i2}
    Packs = {p1, p2, big}
    InputUnits <- MCInputUnits
    MaxInput = 2
    MaxOutput = 1
    Budget = 7
    MaxRetries = 1
INVARIANTS
    SessionIsAccounted
    AdvisoryIsForItsRequest
    RetriesFollowFailures
PROPERTIES
    EveryExecutionSettles
CHECK_DEADLOCK FALSE
