SPECIFICATION Spec
CONSTANTS
    Controller = {"a", "b"}
    Intent = {"i1", "i2"}
    RuleOf <- MCRuleOf
    Rules = {"r0", "r1"}
    ApprovalRules = {"r1"}
    Guards = {"g0"}
    Verifiers = {}
    PlanReceipt <- NamedPlans
    Plans <- OneGuard
    Criteria <- OneGuard
    LocalGuards = {"g0"}
    MaxIterations = 2
    MaxToolCalls = 2
    MaxCrashes = 0
    AnyObjectReconciles = FALSE
    CancelFrom <- DocumentedCancel
INVARIANTS
    OneEffectPerIteration
    EffectIsCheckpointed
    EffectIsApproved
    AnswersAgree
PROPERTIES
    ImplementsRunLifecycle
CHECK_DEADLOCK FALSE
