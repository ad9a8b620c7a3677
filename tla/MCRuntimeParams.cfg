SPECIFICATION RpSpec
CONSTANTS
    NoBlock = NoBlock
    NoModule = NoModule
    NoDefault = NoDefault
    NoMesg = NoMesg
    Unset = Unset
    KPP = KPP
    mod1 = mod1
    p1 = p1
    int1 = int1
    Blocks <- MCBlocks
    Modules <- MCModules
    Params <- MCParams
    Values <- MCValues
    Types <- MCTypes
    TypeOf <- MCTypeOf
    BaseNames <- MCBase
    EnabledFiles <- MCEnabled
    Fragile <- MCFragile
    ParamFlags <- MCPlain
    LikeDefaults <- MCNever
    ModuleFlags <- MCPlain
    AllDefaults <- MCNever
    Layouts <- MCLayouts
INVARIANTS
    BlocksAgree
    RereadsSame
