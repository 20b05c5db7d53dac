SPECIFICATION CertificateSpec
CONSTANTS
    Instance = {"run.1"}
    VerifierConfigured = TRUE
    Node <- MCNode
    Edge <- MCEdge
    Join <- MCJoin
    Field <- MCField
    Value <- MCValue
    Role <- MCRole
    CallerPayload <- MCCallerPayload
    Override <- NoOverride
    Completion <- MCCompletion
INVARIANTS
    TypeOK
    CausallyJustified
    FactsAreAttested
    LogCertifiesState
PROPERTIES
    ImplementsCausalOrder
CHECK_DEADLOCK FALSE
