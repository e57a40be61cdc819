SPECIFICATION Spec
CONSTANTS
    MaxRows = 5
INVARIANTS
    ClassesExtracted
CHECK_DEADLOCK FALSE
