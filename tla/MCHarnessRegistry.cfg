SPECIFICATION Spec
CONSTANTS
    Component = {"c"}
    Version = {"v1", "v2", "v3"}
    Change = {"x1", "x2"}
    Person = {"ann", "bob", "cyd", "dan"}
    Metric = {"success", "speed"}
    Gain = {0, 1}
    Intended <- MCIntended
    Evaluations <- MCEvaluations
    Recorder = {r1, r2}
    Proposing = {"p"}
SYMMETRY Alike
INVARIANTS
    TypeOK
    StageIsEarned
PROPERTIES
    NothingIsOverwritten
CHECK_DEADLOCK FALSE
