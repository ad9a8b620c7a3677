SPECIFICATION Spec
CONSTANTS
    Calls <- NinePointCalls
    Sides <- MCSides
INVARIANTS
    SmoothingRotates
