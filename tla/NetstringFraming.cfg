CONSTANTS
    Digit = {0, 1, 2}
    Colon = colon
    Comma = comma
    Other = {x}
    HighByte = {ff}
    SizeMod = 13
    MaxStream = 7
    MaxChunk = 2
SPECIFICATION Spec
CHECK_DEADLOCK FALSE
INVARIANTS TypeOK Delimited FramingFollowed
PROPERTY ParseReturns
