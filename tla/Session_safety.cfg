SPECIFICATION Spec
CONSTANTS
    Persons = {p1, p2}
    NoOne = NoOne
    Nobody = Nobody
    Offline = Offline
    MaxPresses = 2
    MaxReports = 2
    MaxLaunches = 2
SYMMETRY PersonSymmetry
INVARIANTS
    TypeOK
    WritesHaveAccounts
    FirestoreFollowsAuth
    AnswerIsForHead
    AnnouncedReportExists
    NoReportTwice
    ProgressWindowHasAnEnd
    QueuesInOrder
PROPERTIES
    EntersOwnQueue
    NoQueuedWriteForgotten
CHECK_DEADLOCK FALSE
