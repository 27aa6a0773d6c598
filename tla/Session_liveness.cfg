SPECIFICATION FairSpec
CONSTANTS
    Persons = {p1}
    NoOne = NoOne
    Nobody = Nobody
    Offline = Offline
    MaxPresses = 2
    MaxReports = 1
    MaxLaunches = 2
PROPERTIES
    KeepsPromise
    FirestoreCatchesUp
    OpenQueueDrains
    ProgressWindowEnds
CHECK_DEADLOCK FALSE
