CONSTANTS
    ann = ann
    bob = bob
    p1 = p1
    p2 = p2
    Absent = Absent
    Users = {ann, bob}
    Projects = {p1, p2}
    Sessions <- SessionsDef
SPECIFICATION Spec
INVARIANTS TypeOK OneIdentity StoreOfUser
PROPERTIES Hydrated ExpiredIsLeft
CHECK_DEADLOCK FALSE
