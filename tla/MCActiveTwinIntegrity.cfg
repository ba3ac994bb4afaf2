SPECIFICATION MCSpec
CONSTANTS
    Materializers = {t1, t2}
    Documents = {d1, d2}
    Values = {v1}
    EvidenceIds = {1, 2}
    ClaimIds = {1, 2, 3}
    LinkIds = {1}
    MaxDepth = 2
    ValidationKeys = {}
    PageLimit = 1
    MaxSnapshots = 0
    MaxValidations = 0
    MaxRevisions = 2
    Sources = {"e1", "e2"}
    SourceOf <- MCSourceOf
    Corrections <- MCCorrections
    SnapshotOf <- MCSnapshotOf
    KeyOfResult <- MCKeyOfResult
    GitSnapshots = {"g1", "g2", "g3"}
    AssetMaps <- MCAssetMaps
    Declarations <- MCDeclarations
    StoredBefore <- MCStoredBefore
    MaxTwins = 0
    MaxChanges = 0
SYMMETRY Symmetry
CHECK_DEADLOCK FALSE
INVARIANTS
    IntegrityErrorMeansCorruption
