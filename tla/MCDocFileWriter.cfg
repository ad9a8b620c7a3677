SPECIFICATION Spec
CONSTANTS
    NoBlock = NoBlock
    NoModule = NoModule
    NoDefault = NoDefault
    NoMesg = NoMesg
    KPP = KPP
    mod1 = mod1
    p1 = p1
    v1 = v1
    Blocks <- MCBlocks
    Modules <- MCModules
    Params <- MCParams
    Values <- MCValues
    BaseNames <- MCBoth
    ParamFlags <- MCFlags
    ModuleFlags <- MCPlain
    LikeDefaults <- MCNever
    AllDefaults = {TRUE, FALSE}
    EnabledFiles <- MCEnabled
    Fragile <- MCFragile
INVARIANTS
    BlockIsTheCallers
    WrittenOnce
    NoSilentLoss
    ShortInAll
