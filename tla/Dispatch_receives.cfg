SPECIFICATION Spec
CONSTANTS
    Missing = Missing
    ReportLocations <- MCReportLocations
INVARIANT
    CorrespondingMunicipalityReceives
CHECK_DEADLOCK FALSE
