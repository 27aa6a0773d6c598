SPECIFICATION Spec
CONSTANTS
    here = here
    there = there
    Places <- MCPlaces
    Origin = Origin
    NoPin = NoPin
    NoText = NoText
    Typed = Typed
    Missing = Missing
    MaxMoves = 2
    MaxVisits = 2
PROPERTY
    NothingSentWhileLoading
CHECK_DEADLOCK FALSE
