\* The console with up to four pieces of late output; a CAN queue of four frames.
SPECIFICATION PackSpec
\* The console is called no more once MaxOutput pieces are outstanding.
CHECK_DEADLOCK FALSE
CONSTANTS
    Round <- MCRound
    Capacity = 4
    MaxOutput = 4
INVARIANTS
    CellsOnce
    RoundWhole
