SPECIFICATION WarmSpec
CONSTANTS
    c1 = c1  i1 = i1  v1 = v1  new1 = new1  new2 = new2  p1 = p1  p2 = p2
    r1 = r1  r2 = r2  r3 = r3  r4 = r4  k1 = k1  good = good  other = other
    None = None
    Client <- OneClient
    Credential <- OnePair
    Proof <- OneProof
    Request <- TwoRequests
    Key <- OneKey
    Binding <- TwoBindings
    Allowed <- OneBinding
    MaxTtl = 2
    Ttls <- TtlOne
    Graces <- NoGrace
    IssueLimit = 1
    VerifyLimit = 1
    Window = 1
    ProofRetention = 1
    VerificationRetention = 1
    MaxLag = 1
    StepBack = 0
    MaxTime = 3
    Backups = TRUE
SYMMETRY RequestSymmetry
INVARIANTS
    SchemaNeverTrips
    KeyDecisionsApart
    ReceiptHonoured
    QuotaRespected
CHECK_DEADLOCK FALSE
