SPECIFICATION FairSpec
CONSTANTS
    Controller = {"a"}
    Intent = {"i1", "i2", "i3"}
    RuleOf <- MCRuleOf
    Rules = {"r0", "r1"}
    ApprovalRules = {"r1"}
    Guards = {"g0"}
    Verifiers = {}
    PlanReceipt <- NamedPlans
    Plans <- OneGuard
    Criteria <- OneGuard
    LocalGuards = {"g0"}
    MaxIterations = 2
    MaxToolCalls = 2
    MaxCrashes = 1
    AnyObjectReconciles = FALSE
    CancelFrom <- DocumentedCancel
PROPERTIES
    RunsToRest
CHECK_DEADLOCK FALSE
