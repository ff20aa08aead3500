\* Two values of a limit, which no action tells apart; two messages of
\* telemetry; one re-subscription owed after a write instead of three;
\* one setting beside the limits, with their opcode.
SPECIFICATION Spec
CONSTANTS
    Levels = {low, high}
    Unknown = Unknown
    Owed = 1
    Chosen = {"standby_timeout"}
    MaxMessages = 2
    MaxWaiting = 1
SYMMETRY Alike
VIEW Seen
INVARIANTS
    AuthedBound
    DoneApplied
    PairKnown
    WholeUnlessSkipped
CHECK_DEADLOCK FALSE
