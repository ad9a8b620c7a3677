SPECIFICATION Spec
CONSTANTS
    NI = 3
    NJ = 2
    XParts <- TwoAndOne
    YParts <- Whole
    NIHalo = 1
    NJHalo = 1
    RawDepths <- SomeDepths
    MinDepths = {2}
    MaxDepths = {5}
    MaskDepths <- SomeMaskDepths
    Unset = Unset
    Junk = Junk
INVARIANTS
    GridTypeOK
    LayoutIndependent
    OceanDepthInBounds
