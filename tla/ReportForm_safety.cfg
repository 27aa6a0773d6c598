SPECIFICATION Spec
CONSTANTS
    Login = Login
    Map = Map
    Missing = Missing
    MaxForms = 2
INVARIANTS
    TypeOK
    ResetCastSafe
    CameraTargetsCurrentForm
    MapDelegateIsBelow
    DescriptionIsText
    PhotoIsVisible
    OneReportPerForm
PROPERTIES
    NewFormIsEmpty
CHECK_DEADLOCK FALSE
