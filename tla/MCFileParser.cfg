SPECIFICATION Spec
CONSTANTS
    NoBlock = NoBlock
    KPP = KPP
    k1 = k1
    k2 = k2
    v1 = v1
    True = True
    False = False
    Unset = Unset
    Groups <- MCGroups
    Keys <- MCOneKey
    Values <- MCValues
    Lower <- MCLower
    CaseInsensitive = FALSE
    NumFiles = 2
    MaxLines = 3
INVARIANTS
    TableIsReplay
    ForcedWasGiven
PROPERTY
    OnlyDirectivesRebind
CHECK_DEADLOCK FALSE
