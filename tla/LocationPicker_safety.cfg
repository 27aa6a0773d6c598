SPECIFICATION Spec
CONSTANTS
    here = here
    there = there
    Places <- MCPlaces
    Origin = Origin
    NoPin = NoPin
    NoText = NoText
    Typed = Typed
    Missing = Missing
    MaxMoves = 2
    MaxVisits = 2
SYMMETRY PlaceSymmetry
INVARIANTS
    TypeOK
    LocationIsCentre
    AddressIsOfThisVisit
    CellShowsAddress
PROPERTIES
    DeliveredTogether
CHECK_DEADLOCK FALSE
