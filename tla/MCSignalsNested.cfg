CONSTANTS
    Connection = {c1, c2}
    MaxCallbacks = 3
    MaxDepth = 3
SPECIFICATION Spec
CHECK_DEADLOCK FALSE
INVARIANT DisconnectedIsSkipped
