SPECIFICATION Spec
CONSTANTS
    Users = {u1}
    Tokens = {t1, t2}
    Departments = {d1}
    Platforms = {"android"}
    Configured = {"android"}
    Kinds = {"timetable"}
    Requests = {r1}
    BatchSize = 1
    Attempts = 2
    MaxRows = 2
    MaxJobs = 1
    MaxCrashes = 1
    None = None
INVARIANTS
    RepeatsBounded
    LogsTrue
PROPERTIES
    KeepsPromise
CHECK_DEADLOCK FALSE
