SPECIFICATION Spec
CONSTANTS
    Run = {"r1", "r2"}
    Evidence <- MCEvidence
    MaxEvents = 3
    Anchorer = {}
    AnchorerId <- AnchorOwnId
    AnchorLimit = 1
    MaxAnchorFaults = 0
    Memory = {"m1", "m2"}
    Projectable = {"m1"}
    Expiring = {"m1"}
    Readable = {"m1"}
    Committer = {c1, c2}
    Reader = {"q"}
    Projector = {"p1"}
    ProjectorId <- ProjectOwnId
    ProjectLimit = 1
    MaxProjectFaults = 0
SYMMETRY Alike
INVARIANTS
    TypeOK
    RecordsAreAttested
    RecallIsCurrent
PROPERTIES
    SupersededForGood
CHECK_DEADLOCK FALSE
