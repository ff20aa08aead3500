\* The background task for one pushed, paired battery and one polled one.
SPECIFICATION FairSpec
CONSTANTS
    anker = anker
    jbd = jbd
    none = none
    Devices <- MCDevices
    StreamDevices <- MCPushed
    AuthDevices <- MCPaired
    NoDevice <- none
    FailuresBeforeDrop = 3
    MaxCommands = 2
    MaxUpdates = 1
INVARIANTS
    SilencedOnlyForPairing
    ViewSettles
    ReadingsMatchView
PROPERTIES
    OnlyAnswersForgive
    SessionPromise
    ConnectingEnds
    DisconnectHonoured
    QuitEnds
    DeadLinkDropped
CHECK_DEADLOCK FALSE
