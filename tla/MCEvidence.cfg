SPECIFICATION MCSpec
CONSTANTS
    d1 = d1
    d2 = d2
    d3 = d3
    d4 = d4
    u1 = u1
    u2 = u2
    Importers = {i1, i2}
    Documents = {d1, d2, d3, d4}
    Values = {v1, v2}
    EvidenceIds = {1, 2, 3}
    ClaimIds = {1, 2, 3}
    LinkIds = {1, 2}
    MaxDepth = 2
    Uploaders = {u1, u2}
    Times = {1, 2}
    Summaries = {d1, d2, d3, d4}
    SeriesOf <- MCSeriesOf
    UntilOf <- MCUntilOf
    PageLimit = 2
SYMMETRY Symmetry
CHECK_DEADLOCK FALSE
INVARIANTS
    ClaimsAreChained
    ImportsAreRecordedOnce
    ReadsAreHonest
    PageIsHonest
PROPERTIES
    ImplementsLedger
