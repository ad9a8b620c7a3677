SPECIFICATION Spec
CHECK_DEADLOCK FALSE
CONSTANTS
    nz = 3
    Columns <- MCColumns
    Hmix <- MCHmix
    CFL_trunc <- MCCFL_trunc
    vel_underflow <- MCvel_underflow
INVARIANTS
    SolvesTheSystem
    RemnantWithinUnit
    MomentumBudgetCloses
    Gl90OnlyDissipates
    VelocityIsLimited
