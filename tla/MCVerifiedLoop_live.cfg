SPECIFICATION FairSpec
CONSTANTS
    Controller = {"a"}
    Intent = {"i1", "i2", "i3"}
    RuleOf <- MCRuleOf
    Rules = {"r0", "r1"}
    ApprovalRules = {"r1"}
    Guards = {"g0", "g1"}
    Verifiers = {}
    PlanReceipt <- NamedPlans
    Plans <- TwoGuards
    Criteria <- TwoGuards
    LocalGuards = {"g0"}
    MaxIterations = 2
    MaxToolCalls = 3
    MaxCrashes = 1
    AnyObjectReconciles = FALSE
    CancelFrom <- DocumentedCancel
PROPERTIES
    RestsUnlessCutShort
CHECK_DEADLOCK FALSE
