\* A test case without checkpoints, and the branches the source's constants
\* never reach: a hard limit inside the window, and a runtime that allows too
\* few node executions.
SPECIFICATION FairSpec
CONSTANTS
    Navigate = Navigate
    Click = Click
    NoTool = NoTool
    Extras = {0}
    Tools <- MCTools
    Replies <- MCPlainReplies
    Checkpoints = 0
    MaxSteps = 5
    Window = 4
    HardLimit = 2
    RecursionLimit = 19
PROPERTY ImplementsRunVerdict
