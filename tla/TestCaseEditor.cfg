SPECIFICATION Spec
CONSTANTS
    c1 = c1
    c2 = c2
    home = home
    words = words
    Editors = {e1, e2}
    Cases = {c1, c2}
    Names = {home, Blank}
    Settings = {Default, Other}
    Default = Default
    Headers = {full, partial}
    Incomplete = {partial}
    Urls = {home, away, Blank}
    Texts = {Blank, Cleared, words}
    Blank = Blank
    Cleared = Cleared
    Stored <- MCStored
    Sessions <- MCSessions
    MaxSteps = 2
    Absent = Absent
CHECK_DEADLOCK FALSE
SYMMETRY Symm
INVARIANTS
    WellFormed
    SavedViewIsStored
    ReachableWasChecked
PROPERTIES
    NoSaveLost
