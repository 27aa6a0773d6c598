SPECIFICATION Spec
CONSTANTS
    Persons = {p1, p2}
    NoOne = NoOne
    Nobody = Nobody
    Offline = Offline
    MaxPresses = 2
    MaxReports = 1
    MaxLaunches = 2
INVARIANT
    SuccessMeansWritten
CHECK_DEADLOCK FALSE
