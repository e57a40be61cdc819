SPECIFICATION Spec
CONSTANTS
    Departments = {d1, d2}
    Names = {n1}
    Users = {u1}
    Accesses <- AccessesMC
    Targets <- TargetsMC
    Requests = {r1, r2}
    Cleanups <- CleanupsMC
    Scopes <- ScopesMC
    MaxPosts = 1
    MaxBegun = 2
    MaxIncidents = 1
    None = None
INVARIANTS
    TypeOK
    DepartmentHasOptions
    DeletedIsCleared
    
    CleanupMatchesSummary
SYMMETRY Symmetric
CHECK_DEADLOCK FALSE
