SPECIFICATION Spec
CONSTANTS
    Controller = {"a"}
    Intent = {"i1", "i2", "i3"}
    RuleOf <- MCRuleOf
    Rules = {"r0", "r1"}
    ApprovalRules = {"r1"}
    Guards = {"g0", "g1"}
    Verifiers = {}
    PlanReceipt <- NamedPlans
    Plans <- TwoGuards
    Criteria <- TwoGuards
    LocalGuards = {"g0"}
    MaxIterations = 3
    MaxToolCalls = 2
    MaxCrashes = 1
    AnyObjectReconciles = FALSE
    CancelFrom <- DocumentedCancel
INVARIANTS
    TypeOK
    BudgetCoversEffects
    AcceptIsEarned
    ResultIsReal
PROPERTIES
    EvidenceIsKept
CHECK_DEADLOCK FALSE
