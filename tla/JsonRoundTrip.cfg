CONSTANTS
    MaxDepth = 2
    MaxDigits = 2
    MaxText = 12
    MaxSpaces = 1
    MaxString = 1
    InString = {","}
    MaxParts = 3
    InWritten = {"quote", "x"}
SPECIFICATION Spec
CHECK_DEADLOCK FALSE
INVARIANTS TypeOK AcceptsOnlyJson  ReadsOwnOutput
PROPERTY EndOfTextStops
