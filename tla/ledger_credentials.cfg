SPECIFICATION Spec
CONSTANTS
    c1 = c1  i1 = i1  v1 = v1  new1 = new1  new2 = new2  p1 = p1  p2 = p2
    r1 = r1  r2 = r2  r3 = r3  r4 = r4  k1 = k1  good = good  other = other
    None = None
    Client <- OneClient
    Credential <- FourCredentials
    Proof <- OneProof
    Request <- OneRequest
    Key <- NoKey
    Binding <- OneBinding
    Allowed <- OneBinding
    MaxTtl = 2
    Ttls <- TtlOne
    Graces <- GraceTwo
    IssueLimit = 3
    VerifyLimit = 3
    Window = 2
    ProofRetention = 1
    VerificationRetention = 1
    MaxLag = 1
    StepBack = 1
    MaxTime = 3
    Backups = TRUE
SYMMETRY CredentialSymmetry
INVARIANTS
    TypeOK
    SchemaNeverTrips
PROPERTIES
    GraceKept
    AuthorityNeverReturns
CHECK_DEADLOCK FALSE
