SPECIFICATION Spec
CONSTANTS
    Alphabet = {"lf", "low", "mid", "high", "c2", "e0", "ed", "f0", "f4"}
    MaxBytes = 5
    Window = 2
    Lookahead = 3
    LineLimit = 1
    EnvelopeLimit = 12
    Radix = 3
INVARIANTS PagesDecodeTheStream PagesAdvance
CHECK_DEADLOCK FALSE
