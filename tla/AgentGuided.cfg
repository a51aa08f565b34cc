\* A guided test case with two checkpoints, at the tightest runtime limit.
SPECIFICATION FairSpec
CONSTANTS
    Navigate = Navigate
    Click = Click
    NoTool = NoTool
    Extras = {0, 1}
    Tools <- MCTools
    Replies <- MCReplies
    Checkpoints = 2
    MaxSteps = 5
    Window = 2
    HardLimit = 4
    RecursionLimit = 27
INVARIANTS Limits Bookkeeping VerdictBacked
PROPERTY Reported
