SPECIFICATION Spec
CONSTANTS
    Login = Login
    Map = Map
    Missing = Missing
    MaxForms = 2
INVARIANT
    AcceptedReportsAreComplete
CHECK_DEADLOCK FALSE
