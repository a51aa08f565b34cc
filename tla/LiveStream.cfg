\* A run that may be cancelled, two GET requests answered in any order.
SPECIFICATION FairStream
CONSTANTS
    Results = {"passed", "failed"}
    NoStatus = NoStatus
    Fetches = 2
    Backlog = 2
    Cancels = TRUE
INVARIANT PageIsTrue
PROPERTY EndIsLearnt
