SPECIFICATION Spec
CONSTANTS
    DTs <- MCDTs
    ForcingDTs <- MCForcingDTs
    EndTimes <- MCEndTimes
    StartTimes <- MCStartTimes
    IntMax = 8
INVARIANTS
    ForcingIsCurrent
    RunEndsAtFirstStepPastEnd
    StepsFitDT
PROPERTIES
    NoFailureInTheLoop
    RunEnds
