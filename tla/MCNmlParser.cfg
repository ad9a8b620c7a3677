SPECIFICATION Spec
CONSTANTS
    NoGroup = "none"
    NoName = "none"
    Unset = Unset
    Groups <- TheGroups
    Keys <- TheKeys
    Lower <- TheLower
    Glued <- TheGlued
    Kind <- TheKind
    Texts <- TheTexts
    MaxLines = 4
INVARIANTS
    TextIsTable
