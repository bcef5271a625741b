CONSTANTS
    Digit = {0, 1, 2, 3}
    Colon = colon
    Comma = comma
    Other = {x}
    HighByte = {ff}
    SizeMod = 64
    MaxStream = 20
    MaxChunk = 6
    Capacity = 6
    Streams <- MCStreams
SPECIFICATION Spec
CHECK_DEADLOCK FALSE
INVARIANTS TypeOK InterestMatchesRoom ClosedByPeer DeafOnlyInsideFrame
PROPERTIES ImplementsReader ArrivedIsRead EndIsNoticed
