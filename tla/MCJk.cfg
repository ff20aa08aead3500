\* The settings cache and the calls of the handle, with lost frames.
SPECIFICATION FairSpec
CONSTANTS
    low = low
    high = high
    none = none
    wrong = wrong
    Values <- MCValues
    NoValue = none
    Misread = wrong
    Names <- MCNames
    Retries = 2
    Patience = 2
    MaxFlight = 2
INVARIANTS
    LoadedReported
    WrittenAsMeant
PROPERTIES
    AskedOnce
    CallsEnd
