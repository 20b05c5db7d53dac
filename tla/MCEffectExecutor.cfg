SPECIFICATION Spec
CONSTANTS
    c1 = c1
    c2 = c2
    c3 = c3
    s1 = s1
    s2 = s2
    w1 = w1
    w2 = w2
    None = None
    Rule <- MCRule
    Counter <- MCCounter
    Limit <- MCLimit
    Intent <- MCIntent
    Admissible <- MCIntent
    Matching <- MCMatching
    NeedsApproval = {"publish"}
    Approval = {"signed"}
    Approves <- MCApproves
    Capability = {c1, c2, c3}
    Server = {s1, s2}
    Caller = {w1, w2}
    Key = {"k1", "k2"}
    KeyOf <- MCKeyOf
SYMMETRY Symmetry
INVARIANTS
    TypeOK
    ApprovalPaysOnce
    EffectOnce
    EffectsArePaidFor
    AnswersAreTrue
PROPERTIES
    ImplementsOnceOnly
CHECK_DEADLOCK FALSE
