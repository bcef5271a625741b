CONSTANTS
    Connection = {c1, c2}
    MaxCallbacks = 3
    MaxDepth = 2
    Slot = {s, t}
    NoSlot = NoSlot
SPECIFICATION SlotsSpec
SYMMETRY MCSymmetry
CHECK_DEADLOCK FALSE
INVARIANTS SlotsTypeOK ListIsBound CalledInOrder NobodyForgotten ConnectionsAgree
INVARIANTS OwnedOnce
PROPERTY ThrowsOnlyNested
