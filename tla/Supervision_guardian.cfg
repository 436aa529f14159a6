\* The guardian dies or is terminated at any point, and one store call of the
\* runner is rolled back. Event loops, timers and the store's answers are fair.
SPECIFICATION FairSupervision
CONSTANTS
    Null = Null
    Command = Command
    ShellCodes = {0}
    Signals = {}
    Owners = {o1}
    RequestKeys = {k1}
    Commands = {Command}
    DeadlineMs <- MCDeadlineMs
    JobIds = {j1}
    ClaimIds = {r1}
    Connections = {owner, worker}
    EvidenceInputs <- MCEvidenceInputs
    Times <- MCTimes
    MaxRevision = 2
    MaxHeartbeat = 0
    TheJob = j1
    TheClaim = r1
    OwnerStore = owner
    RunnerStore = worker
    StreamResults <- MCStreamResults
    SignalResults = {"returned"}
    StoreFaults = {"failed"}
    MaxFaults = 1
    Reconciles = FALSE
    RunnerDies = FALSE
    GuardianDies = TRUE
INVARIANTS
    GrantedRunIsReportedTruly
PROPERTIES
    UsesStore
    NoLateShell
    RunnerEnds
CHECK_DEADLOCK FALSE
