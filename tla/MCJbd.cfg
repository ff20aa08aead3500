\* The window and a BMS whose answers may come late, in parts or not at all.
SPECIFICATION Spec
CONSTANTS
    Blind = FALSE
    MaxFlight = 3
    OddTails = TRUE
    MaxRead = 2
CHECK_DEADLOCK FALSE
INVARIANTS
    OtherFetKnown
    AsAsked
