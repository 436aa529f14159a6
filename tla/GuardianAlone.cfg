\* Every order of four messages of an arbitrary peer.
SPECIFICATION FairAlone
CONSTANTS
    Null = Null
    ShellCodes = {0}
    Signals = {"SIGTERM"}
    SignalResults = {"returned", "error"}
    MaxMessages = 4
INVARIANTS
    OneShellOneCleanup
PROPERTIES
    GuardianWindsDown
CHECK_DEADLOCK FALSE
