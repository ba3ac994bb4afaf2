SPECIFICATION MCSpec
CONSTANTS
    k1 = k1
    q1 = q1
    q2 = q2
    Materializers = {t1}
    Reconcilers = {r1, r2}
    Declarations <- MCDeclarations
    Documents = {d1}
    Values = {v1, v2}
    EvidenceIds = {1}
    ClaimIds = {1, 2, 3}
    LinkIds = {1}
    MaxDepth = 2
    ValidationKeys = {k1}
    PageLimit = 1
    MaxSnapshots = 1
    MaxValidations = 1
    MaxRevisions = 1
    MaxClaims = 3
    MaxReconciliations = 3
    ClaimNodes = {"c1", "c2"}
    AssetNodes = {"a1", "a2", "a3"}
    ResultNodes = {"v1", "v2", "v3"}
    KeyOf <- MCKeyOf
    MaximumDepth = 2
    ImpactInputs <- MCImpactInputs
    Dimensions = {"region", "channel"}
    DimensionValues = {"x", "y"}
    Instants = {0, 1, 2, 3}
    ClaimSets <- MCClaimSets
    MaxPackItems = 12
    MaxInspectedLinks = 3
    Questions <- MCQuestions
SYMMETRY Symmetry
CHECK_DEADLOCK FALSE
INVARIANTS
    ConflictsAreUnresolved
    InputsAreUnique
    StaleNamesTheChange
    AnalysisIsExact
    FindingsAreTheClashes
    ExplanationsAreExact
