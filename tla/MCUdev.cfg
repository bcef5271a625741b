CONSTANTS
    Object = {o1, o2, o3, o4, o5}
    Wrapper = {w1, w2, w3, w4}
    Null = Null
    MaxLevel = 2
SPECIFICATION Spec
SYMMETRY MCSymmetry
CHECK_DEADLOCK FALSE
INVARIANTS NeverUndefined CountsAreExact
