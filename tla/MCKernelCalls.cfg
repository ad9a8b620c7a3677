SPECIFICATION Spec
CONSTANTS
    Calls <- MCCalls
    Sides <- MCSides
INVARIANTS
    ReadsHoldValues
    CellsDoNotRace
    ResultsAreFresh
    DependsWithinStencil
    ResultsKeepApart
    HostKeepsTheRest
    RotationInvariant
