\* The window follows a stream that fails and is interrupted; the monitor
\* command folds one stream, update by update.
SPECIFICATION FairSpec
CONSTANTS
    power = power
    charging = charging
    low = low
    high = high
    absent = absent
    overheat = overheat
    Ids <- MCIds
    Values <- MCValues
    Absent = absent
    Alarms <- MCAlarms
INVARIANTS
    FollowerCatchesUp
    AlarmsMaintained
PROPERTIES
    ShownWhole
    Settles
