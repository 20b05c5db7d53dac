SPECIFICATION Spec
CONSTANTS
    Rules = {"r0", "r1"}
    Guards = {"g0", "g1"}
    Verifiers = {}
    PlanReceipt <- MCPlanReceipt
    Instances = {"run.1"}
    Outcomes <- MCOutcome
    Manifests <- MCManifests
INVARIANTS
    EffectNeedsAuthority
    CapabilityNeedsApproval
    AcceptNeedsEveryGuard
    AcceptExcludesReconcile
    ValidManifestsAreSafe
CHECK_DEADLOCK FALSE
