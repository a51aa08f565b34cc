\* Two DELETE requests and a worker that may crash once, anywhere.
SPECIFICATION Spec
CONSTANTS
    Requests = {r1, r2}
    Results = {"passed"}
    Deliveries = 2
    NoRecord = NoRecord
    Nothing = Nothing
    Described = TRUE
    Submitted = TRUE
SYMMETRY Interchangeable
INVARIANTS RecordTells DeletedStaysDeleted
