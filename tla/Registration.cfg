SPECIFICATION Spec
CONSTANTS
    Emails = {alice}
    Passwords = {p1, p2}
    Requests = {r1, r2}
    MaxAttempts = 2
    MaxCodes = 3
    MaxCrashes = 1
    KeepHistory = FALSE
    None = None
INVARIANTS
    TypeOK
    AccountFromItsOwnCode
    AttemptsBounded
    GuessBudget
    SingleUse
    NewestCodeStands
SYMMETRY Symmetric
CHECK_DEADLOCK FALSE
