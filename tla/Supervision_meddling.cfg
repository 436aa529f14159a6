\* Whether a launched job is settled when its owner's reconciler published first.
SPECIFICATION SupervisionSpec
CONSTANTS
    Null = Null
    Command = Command
    ShellCodes = {0}
    Signals = {}
    Owners = {o1}
    RequestKeys = {k1}
    Commands = {Command}
    DeadlineMs <- MCDeadlineMs
    JobIds = {j1}
    ClaimIds = {r1}
    Connections = {owner, worker}
    EvidenceInputs <- MCEvidenceInputs
    Times <- MCTimes
    MaxRevision = 4
    MaxHeartbeat = 0
    TheJob = j1
    TheClaim = r1
    OwnerStore = owner
    RunnerStore = worker
    StreamResults <- MCStreamResults
    SignalResults = {"returned"}
    StoreFaults = {}
    MaxFaults = 1
    Reconciles = TRUE
    RunnerDies = FALSE
    GuardianDies = FALSE
INVARIANTS
    LaunchedJobsPublish
CHECK_DEADLOCK FALSE
