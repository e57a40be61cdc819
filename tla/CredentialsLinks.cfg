SPECIFICATION Spec
CONSTANTS
    Emails = {alice, bob}
    Passwords = {p1}
    Requests = {r1, r2}
    MaxAccounts = 1
    MaxLinks = 2
    MaxCrashes = 1
    None = None
INVARIANTS
    SpentLinksGone
    LinkStands
SYMMETRY Symmetric
CHECK_DEADLOCK FALSE
