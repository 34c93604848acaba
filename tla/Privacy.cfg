\* Erasures next to the calls that write what they erase.
SPECIFICATION Spec
CONSTANTS
    NoEmail = NoEmail
    Emails = {ada}
    Workers = {w1, w2}
    MaxRows = 3
    MaxRequests = 1
    MaxDesk = 2
INVARIANTS NothingLeft OpenOnlyIfLater CancelledMeansKept ExportComplete
SYMMETRY MCSymmetry
CHECK_DEADLOCK FALSE
