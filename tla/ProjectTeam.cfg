SPECIFICATION Spec
CONSTANTS
    ann = ann
    bob = bob
    cy = cy
    m1 = m1
    m2 = m2
    Windows = {w1, w2}
    Users = {ann, bob, cy}
    Ids = {m1, m2, m3, m4}
    Names = {n1, n2}
    Runs = {r1}
    Calls = {c1, c2}
    Sessions <- MCSessions
    Other = Other
    Absent = Absent
CHECK_DEADLOCK FALSE
SYMMETRY Symm
INVARIANTS
    TeamIsShown
    AdminKept

    
