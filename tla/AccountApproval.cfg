SPECIFICATION Spec
CONSTANTS
    Emails = {alice}
    Requests = {r1, r2}
    MaxAccounts = 2
    MaxApplications = 2
    MaxCrashes = 1
    AdminLevels = {"multi"}
    None = None
INVARIANTS
    TypeOK
    LevelGranted
    ApprovedWasGiven
    DecisionStands
PROPERTIES
    StaysDecided
SYMMETRY Symmetric
CHECK_DEADLOCK FALSE
