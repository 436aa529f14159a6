\* Two candidate identities for one request: a reservation is retried after a lost
\* answer, two runners race for the claim, a reconciler observes, the
\* clock jumps, and the connection fails and reopens at every commit.
SPECIFICATION Spec
CONSTANTS
    Null = Null
    Slow = Slow
    ShellCodes = {0}
    Signals = {"SIGTERM"}
    Owners = {o1}
    RequestKeys = {k1}
    Commands = {Slow}
    DeadlineMs <- MCDeadlineMs
    JobIds = {j1, j2}
    ClaimIds = {r1, r2}
    Connections = {c1}
    EvidenceInputs <- MCInputs
    Times <- MCTimes
    MaxRevision = 4
    MaxHeartbeat = 1
INVARIANTS
    TypeOK
    OneJobOneToken
    OneFinalRevision
    EvidenceNeverErased
    OneLaunchGrant
    DecisionMatchesEvidence
    WitnessesExplainUncertainty
PROPERTIES
    UncertaintyOnlyWhenIdle
    CancellationExcludesGrant
    RecordedOnce
    ImplementsLaunchAuthority
SYMMETRY IdentitySymmetry
