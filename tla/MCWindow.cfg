\* The window and its task: the cards, the scan button, the battery a click was meant for.
SPECIFICATION AppFairSpec
CONSTANTS
    anker = anker
    jbd = jbd
    none = none
    Devices <- MCDevices
    StreamDevices <- MCPushed
    AuthDevices <- MCPaired
    NoDevice <- none
    FailuresBeforeDrop = 2
    MaxCommands = 2
    MaxUpdates = 1
CHECK_DEADLOCK FALSE
INVARIANTS
    CardsAgree
    ScanUnderWay
    PendingSuspends
    RequestsMeant
PROPERTIES
    DisconnectShown
    ScanEnds
