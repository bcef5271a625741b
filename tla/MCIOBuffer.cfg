CONSTANTS
    Byte = {a, b}
    Junk = junk
    MaxCapacity = 4
    InitialSizes <- MCInitialSizes
    Retake <- MCRetakeAlways
SPECIFICATION Spec
INVARIANTS TypeOK Layout
PROPERTIES ReserveGivesRoom ImplementsByteQueue
