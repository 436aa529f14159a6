SPECIFICATION Spec
CONSTANTS
    Null = Null
    ShellCodes = {0}
    Signals = {"SIGTERM"}
    Observations <- MCObservations
INVARIANTS
    EvidenceOK
    RejectsExactlyContradictions
    RepeatChangesNothing
