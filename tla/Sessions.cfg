\* Overlapping logins, rotations, replays and new passwords.
SPECIFICATION Spec
CONSTANTS
    NoAccount = NoAccount
    Admins = {adm}
    Customers = {cus}
    Workers = {w1, w2}
    MaxStep = 2
    MaxCalls = 5
    MaxLinks = 1
    MaxDesk = 1
INVARIANTS OneHeir RevocationReaches UsedOnce
SYMMETRY MCSymmetry
CHECK_DEADLOCK FALSE
