CONSTANTS
    r1 = r1
    r2 = r2
    r3 = r3
    p1 = p1
    p2 = p2
    Absent = Absent
    Runs = {r1, r2, r3}
    Projects = {p1, p2}
    Home <- HomeDef
    Sessions <- SessionsDef
    NotesKept = 3
    PageSize = 1
SPECIFICATION ConsoleSpec
INVARIANTS ConsoleTypeOK ListIsOfProject NotedOncePerVisit RowsShown
PROPERTIES LaunchOpensItsProject EventuallyShown
CHECK_DEADLOCK FALSE
