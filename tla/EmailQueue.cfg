SPECIFICATION Spec
CONSTANTS
    Kinds = {"otp", "waitlist-welcome"}
    Configured = {"smtp", "postmark"}
    Requests = {r1}
    Attempts = 3
    MaxJobs = 2
    MaxCrashes = 1
INVARIANTS
    CopiesExplained
PROPERTIES
    KeepsPromise
CHECK_DEADLOCK FALSE
