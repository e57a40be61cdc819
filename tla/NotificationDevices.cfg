SPECIFICATION Spec
CONSTANTS
    Users = {u1, u2}
    Tokens = {t1}
    Departments = {d1}
    Platforms = {"ios", "android"}
    Configured = {"android"}
    Kinds = {"timetable", "custom"}
    Requests = {r1, r2}
    BatchSize = 1
    Attempts = 1
    MaxRows = 2
    MaxJobs = 1
    MaxCrashes = 0
    None = None
INVARIANTS
    TypeOK
    
SYMMETRY Symmetric
CHECK_DEADLOCK FALSE
