SPECIFICATION FluxSpec
CONSTANTS
    MaxItts = 4
    Tol <- MCTol
    FluxColumns <- MCColumns
    Steps <- MCSteps
INVARIANTS
    DuWithinLimits
    RootStaysBracketed
    TransportIsCurrent
    DirectionsAgree
