\* battery set on a battery never read.
SPECIFICATION Spec
CONSTANTS
    Blind = TRUE
    MaxFlight = 2
    OddTails = TRUE
    MaxRead = 2
CHECK_DEADLOCK FALSE
INVARIANTS
    OtherFetKnown
