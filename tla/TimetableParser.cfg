SPECIFICATION Spec
CONSTANTS
    MaxRows = 6
INVARIANTS
    ClassesAreThere
    WaysAgree
CHECK_DEADLOCK FALSE
