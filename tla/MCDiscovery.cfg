\* Every order of the scans and probes, each of which may fail or miss a device.
SPECIFICATION DiscoverySpec
\* One discovery is made and one battery opened.
CHECK_DEADLOCK FALSE
CONSTANTS
    Features <- MCFeatures
    Wired <- MCWired
    Radios <- MCRadios
    Ports <- MCPorts
    Family <- MCFamily
    Marks <- MCMarks
    Baud <- MCBaud
    Id <- MCId
    Mac <- MCMac
    Label <- MCLabel
    SerialBauds <- MCSerialBauds
    Queries <- MCQueries
INVARIANTS
    Claimed
    ChosenFits
