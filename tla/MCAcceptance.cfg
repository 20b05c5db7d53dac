SPECIFICATION Spec
CONSTANTS
    Check = {"tests", "bench"}
    Plans <- MCPlans
    CategoryOf <- MCCategoryOf
    Required = {"bench"}
    Safety = {}
    Bindings <- MCBindings
    Conditions = {"works"}
    GlobalGuards = {}
    Intent = {"i"}
    Workspace = {"w1", "w2"}
    ManifestOf <- MCManifestOf
    Foreign <- MCForeign
    OffsetOf <- MCOffsetOf
    TtlOf <- MCTtlOf
    ClockSkew = 1
    MaximumAge = 2
    MaximumTtl = 2
    MaxActions = 2
    MaxTime = 1
INVARIANTS TypeOK AcceptedWorkIsAttested EvidenceIsFiledRight
PROPERTY FailureStands
CHECK_DEADLOCK FALSE
