\* One call of the runner's store client fails in any way, the runner may die, and
\* the owner's reconciler publishes uncertainty at any point.
SPECIFICATION SupervisionSpec
CONSTANTS
    Null = Null
    Command = Command
    ShellCodes = {0}
    Signals = {}
    Owners = {o1}
    RequestKeys = {k1}
    Commands = {Command}
    DeadlineMs <- MCDeadlineMs
    JobIds = {j1}
    ClaimIds = {r1}
    Connections = {owner, worker}
    EvidenceInputs <- MCEvidenceInputs
    Times <- MCTimes
    MaxRevision = 4
    MaxHeartbeat = 0
    TheJob = j1
    TheClaim = r1
    OwnerStore = owner
    RunnerStore = worker
    StreamResults <- MCStreamResults
    SignalResults = {"returned"}
    StoreFaults = {"failed", "unknown", "committed"}
    MaxFaults = 1
    Reconciles = TRUE
    RunnerDies = TRUE
    GuardianDies = FALSE
INVARIANTS
    ShellNeedsGrant
    EvidenceIsTrue
CHECK_DEADLOCK FALSE
