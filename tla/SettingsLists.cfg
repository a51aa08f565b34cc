SPECIFICATION Spec
CONSTANTS
    i1 = i1
    i2 = i2
    k1 = k1
    Windows = {w1, w2}
    Ids = {i1, i2, i3, i4}
    Keys = {k1, k2}
    Calls = {c1, c2}
    Sessions <- MCSessions
    Absent = Absent
CHECK_DEADLOCK FALSE
SYMMETRY Symm
INVARIANTS
    ListsAreShown
    OneDefault
PROPERTIES
    DecisionStands
