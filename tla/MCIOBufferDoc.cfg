CONSTANTS
    Byte = {a, b}
    Junk = junk
    MaxCapacity = 4
    InitialSizes <- MCInitialSizes
    Retake <- MCRetakeDocumented
SPECIFICATION Spec
INVARIANT WriterPointerCurrent
