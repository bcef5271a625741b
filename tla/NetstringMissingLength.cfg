CONSTANTS
    Digit = {0, 1, 2, 5}
    Colon = colon
    Comma = comma
    Other = {x}
    HighByte = {}
    SizeMod = 16
    MaxStream = 5
    MaxChunk = 2
SPECIFICATION Spec
CHECK_DEADLOCK FALSE
INVARIANT MissingLengthRejected
