SPECIFICATION Spec
CONSTANTS
    maths = maths
    physics = physics
    ann = ann
    mon = mon
    Departments = {d1, d2}
    Existing = {d1}
    Accesses <- AccessesMC
    Courses = {maths, physics}
    Teachers = {ann}
    Slots = {mon}
    Sheets <- SheetsMC
    Additions <- AdditionsMC
    Edits <- EditsMC
    Requests = {r1, r2}
    HasStorage = TRUE
    MaxUploads = 2
    MaxSaves = 2
    MaxIncidents = 1
    None = None
INVARIANTS
    TypeOK
    CurrentCompleted
    ProcessingAttended
    SerialRuns
    CoursesOffered
    ClashesOfUpload
    FileKept
PROPERTIES
    KeepsStore
SYMMETRY Symmetric
CHECK_DEADLOCK FALSE
