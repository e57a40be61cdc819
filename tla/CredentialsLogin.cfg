SPECIFICATION Spec
CONSTANTS
    Emails = {alice}
    Passwords = {p1, p2}
    Requests = {r1, r2}
    MaxAccounts = 1
    MaxLinks = 0
    MaxCrashes = 0
    None = None
PROPERTIES
    LoginKeepsPassword
CHECK_DEADLOCK FALSE
