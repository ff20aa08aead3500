\* Pushes, repeats and losses during the handshake and the reads.
SPECIFICATION Spec
CONSTANTS
    Rounds = 16
    Window = 2
    MaxFrames = 5
    MaxPushes = 3
INVARIANTS
    ReadyGranted
    InStep
PROPERTIES
    HandshakeCompletes
