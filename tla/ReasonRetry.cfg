\* The delays of reason.py, a conversation of more than four messages.
SPECIFICATION LoopSpec
CONSTANTS
    StandardDelays <- MCStandardDelays
    SoftDelays <- MCSoftDelays
    LongPrompt = TRUE
INVARIANTS LoopBounded FailuresClassified
