SPECIFICATION Spec
CONSTANTS
    s1 = s1
    s2 = s2
    Suites = {s1, s2}
    Cases = {c1, c2}
    Triggers = {t1, t2, t3}
    Scheduled = s1
    Sessions <- MCSessions
    Ops = {o1, o2}
    Loads = {l1, l2}
    Asked = Asked
    Absent = Absent
CHECK_DEADLOCK FALSE
SYMMETRY Symm
INVARIANTS
    TypeOK
    OneHome
    TabIsExact
    OneTriggerPerKind
PROPERTIES
    CronKeptUnlessAsked
