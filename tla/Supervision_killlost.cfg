\* Whether the KILL of a cleanup always follows its TERM.
SPECIFICATION SupervisionSpec
CONSTANTS
    Null = Null
    Command = Command
    ShellCodes = {0}
    Signals = {}
    Owners = {o1}
    RequestKeys = {k1}
    Commands = {Command}
    DeadlineMs <- MCDeadlineMs
    JobIds = {j1}
    ClaimIds = {r1}
    Connections = {owner, worker}
    EvidenceInputs <- MCEvidenceInputs
    Times <- MCTimes
    MaxRevision = 2
    MaxHeartbeat = 0
    TheJob = j1
    TheClaim = r1
    OwnerStore = owner
    RunnerStore = worker
    StreamResults <- MCStreamResults
    SignalResults = {"returned"}
    StoreFaults = {}
    MaxFaults = 1
    Reconciles = FALSE
    RunnerDies = TRUE
    GuardianDies = FALSE
INVARIANTS
    CleanupEndsWithKill
CHECK_DEADLOCK FALSE
