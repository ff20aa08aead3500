\* Every family, answers late, lost and refused, calls given up.
SPECIFICATION Spec
CONSTANTS
    Families <- AllFamilies
    Rounds = 3
    MaxMissed = 2
    MaxParts = 4
INVARIANTS
    StatusOwn
    LagBounded
PROPERTIES
    CallsEnd
