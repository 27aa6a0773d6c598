SPECIFICATION Spec
CONSTANTS
    Grid = {0, 1, 2}
    MaxVertices = 4
INVARIANTS
    TypeOK
    ScanIsParity
    BoxIsExact
    FirstSideIsMissing
PROPERTIES
    Terminates
CHECK_DEADLOCK FALSE
