SPECIFICATION FairSpec
CONSTANTS
    Run = {"r1", "r2"}
    Evidence <- OnePassing
    MaxEvents = 2
    Anchorer = {"a1", "a2"}
    AnchorerId <- AnchorOwnId
    AnchorLimit = 2
    MaxAnchorFaults = 2
    Memory = {"m1"}
    Projectable = {"m1"}
    Expiring = {}
    Readable = {"m1"}
    Committer = {"c1"}
    Reader = {}
    Projector = {"p1"}
    ProjectorId <- ProjectOwnId
    ProjectLimit = 1
    MaxProjectFaults = 1
PROPERTIES
    OutboxesDeliverAtLeastOnce
    NothingIsForgotten
CHECK_DEADLOCK FALSE
