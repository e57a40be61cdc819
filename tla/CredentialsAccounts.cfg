SPECIFICATION Spec
CONSTANTS
    Emails = {alice, bob}
    Passwords = {p1}
    Requests = {r1, r2}
    MaxAccounts = 2
    MaxLinks = 1
    MaxCrashes = 1
    None = None
INVARIANTS
    TypeOK
    PasswordChosen
    AnswersStand
SYMMETRY Symmetric
CHECK_DEADLOCK FALSE
