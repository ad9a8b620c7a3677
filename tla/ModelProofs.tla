---------------------------- MODULE ModelProofs ----------------------------
(***************************************************************************)
(* What holds of every run of the solo driver, for all values of DT,       *)
(* DT_FORCING, DAYMAX and the start time; and of the state its model       *)
(* starts from, for any number of layers, any bathymetry and any           *)
(* arrangement of halo cells.                                              *)
(***************************************************************************)
EXTENDS SoloDriver, InitialState, TLAPS

-----------------------------------------------------------------------------
(* The rounding of the time manager.                                       *)

(* real_to_time returns a whole number of seconds for every time.          *)
LEMMA RealToTimeIsInt == \A x \in Int : RealToTime(x) \in Int
  BY DEF RealToTime, RoundRemainder, TicksPerDay, TicksPerSecond

(* No whole second is nearer to a time than the one real_to_time returns:  *)
(* the two floors leave a remainder of less than a second, of either sign  *)
(* of the time.                                                            *)
THEOREM NearestSecondAlways == \A x \in Int : IsNearestSecond(x)
<1> TAKE x \in Int
<1> DEFINE days == x \div TicksPerDay
           inDay == x - TicksPerDay * days
           seconds == inDay \div TicksPerSecond
           rest == inDay - TicksPerSecond * seconds
<1>1. /\ days \in Int /\ inDay \in Int /\ seconds \in Int /\ rest \in Int
      /\ 0 <= rest /\ rest < TicksPerSecond
  BY DEF TicksPerDay, TicksPerSecond
<1>2. TimeToReal(RealToTime(x)) = x - rest + TicksPerSecond * RoundRemainder(rest)
  BY <1>1 DEF TimeToReal, RealToTime, RoundRemainder, TicksPerDay, TicksPerSecond
<1> QED
  BY <1>1, <1>2 DEF IsNearestSecond, Distance, RoundRemainder, TicksPerSecond

(* A forcing step that is allowed is at least one second.                  *)
LEMMA ForcingStepIsPositive ==
    \A d \in Int : ForcingStepAllowed(d) => RealToTime(d) \in Nat /\ RealToTime(d) > 0
  BY RealToTimeIsInt DEF ForcingStepAllowed, TimeToReal, TicksPerSecond

-----------------------------------------------------------------------------
(* The number of dynamics steps.                                           *)

(* The floored division that CeilSteps is built from, as inequalities.     *)
LEMMA DivisionBounds ==
    ASSUME NEW a \in Int, NEW b \in Int, b > 0
    PROVE  /\ a \div b \in Int
           /\ b * (a \div b) <= a
           /\ a < b * (a \div b) + b
  OBVIOUS

\* c equal parts of i exceed d by at most a thousandth of d, and c is the
\* least such number.
IsLeastCount(i, d, c) ==
    /\ c \in Int
    /\ c >= 1
    /\ 1000 * i <= (1000 * c + 1) * d
    /\ 1000 * i > (1000 * (c - 1) + 1) * d

(* For a positive DT the unbounded number of steps cuts the interval into  *)
(* steps of at most DT and a thousandth, and is the smallest that does.    *)
LEMMA CeilStepsIsLeast ==
    ASSUME NEW i \in Int, NEW d \in Int, d > 0, i > d
    PROVE  IsLeastCount(i, d, CeilSteps(i, d))
<1> DEFINE q == (d - 1000 * i) \div (1000 * d)
           c == CeilSteps(i, d)
<1>1. /\ q \in Int
      /\ (1000 * d) * q <= d - 1000 * i
      /\ d - 1000 * i < (1000 * d) * q + 1000 * d
  <2>1. d - 1000 * i \in Int /\ 1000 * d \in Int /\ 1000 * d > 0
    OBVIOUS
  <2> QED BY <2>1, DivisionBounds
<1>2. c = -q
  BY DEF CeilSteps
<1> HIDE DEF q, c
<1>3. c \in Int /\ q = -c
  BY <1>1, <1>2
<1>4. /\ 1000 * i <= (1000 * c + 1) * d
      /\ 1000 * i > (1000 * (c - 1) + 1) * d
  <2>1. (1000 * d) * q = -((1000 * c) * d)
    BY <1>3
  <2>2. (1000 * c + 1) * d = (1000 * c) * d + d
    BY <1>3
  <2>3. (1000 * (c - 1) + 1) * d = (1000 * c) * d - 1000 * d + d
    BY <1>3
  <2>4. (1000 * c) * d \in Int
    BY <1>3
  <2> QED BY <1>1, <2>1, <2>2, <2>3, <2>4
<1>5. c >= 1
  <2> SUFFICES ASSUME c <= 0 PROVE FALSE
    BY <1>3
  <2>1. (1000 * c + 1) * d <= d
    BY <1>3
  <2> QED BY <1>3, <1>4, <2>1
<1>6. IsLeastCount(i, d, c)
  BY <1>3, <1>4, <1>5 DEF IsLeastCount
<1> QED BY <1>6 DEF c

-----------------------------------------------------------------------------
(* The inductive invariant.                                                *)

\* From initialize_dynamics on, the scheme is one that step implements.
SchemeChecked ==
    phase \in {"surface_forcing", "waves", "run_control", "loop", "substeps"} =>
        SchemeImplemented

\* From SurfaceForcing's constructor on, the winds are those set_forcing has.
WindsChecked ==
    phase \in {"waves", "run_control", "loop", "substeps"} => windConfig = "2gyre"

\* Until set_forcing first runs the clock stands at the start, and steady
\* winds are those of the start ever after.
ForcingHistory ==
    /\ phase \in Setup => firstCall
    /\ phase = "loop" /\ firstCall => time = start
    /\ phase = "substeps" => ~firstCall
    /\ ~firstCall /\ ~winds => forced = start

\* The clock is less than a step past the end whenever the loop's test is due.
ClockBound ==
    /\ phase \in Looping => step > 0
    /\ phase = "loop" => time < timeEnd + step

IInv ==
    /\ DriverTypeOK
    /\ SchemeChecked
    /\ WindsChecked
    /\ ForcingHistory
    /\ ForcingIsCurrent
    /\ ClockBound
    /\ RunEndsAtFirstStepPastEnd
    /\ StepsFitDT

(* A conversion to int never leaves the range of int.                      *)
LEMMA StepCountsAreInts ==
    ASSUME NEW i \in Int, NEW d \in Int, NEW c \in StepCounts(i, d)
    PROVE  c \in -IntMax - 1 .. IntMax
  BY DriverAssumption DEF StepCounts, CastToInt

LEMMA InitIInv ==
    ASSUME Init
    PROVE  IInv
<1>1. phase = "infra" /\ firstCall = TRUE
  BY DEF Init
<1>2. DriverTypeOK
  <2>1. /\ phase = "infra" /\ split = TRUE /\ altSplit = FALSE /\ useRK2 = FALSE
        /\ winds = TRUE /\ windConfig = "zero" /\ firstCall = TRUE
    BY DEF Init
  <2>2. dt = 0 /\ forced = -1 /\ start = 0 /\ step = 0 /\ timeEnd = 0
    BY DEF Init, NotForced
  <2>3. time = 0 /\ nMax = 0 /\ n = 0
    BY DEF Init
  <2>4. forced \in Int /\ step \in Nat /\ timeEnd \in Int /\ time \in Nat
    BY <2>2, <2>3
  <2>5. nMax \in -IntMax - 1 .. IntMax /\ n \in -IntMax - 1 .. IntMax + 1
    BY <2>3, DriverAssumption
  <2>6. split \in BOOLEAN /\ altSplit \in BOOLEAN /\ useRK2 \in BOOLEAN
        /\ winds \in BOOLEAN /\ windConfig \in WindConfigs /\ firstCall \in BOOLEAN
    BY <2>1 DEF WindConfigs
  <2>7. phase \in Setup
    BY <2>1 DEF Setup
  <2> QED BY <2>2, <2>4, <2>5, <2>6, <2>7 DEF DriverTypeOK
<1>3. SchemeChecked /\ WindsChecked /\ ForcingHistory /\ ForcingIsCurrent
  BY <1>1 DEF SchemeChecked, WindsChecked, ForcingHistory, ForcingIsCurrent
<1>4. ClockBound /\ RunEndsAtFirstStepPastEnd /\ StepsFitDT
  BY <1>1 DEF ClockBound, RunEndsAtFirstStepPastEnd, StepsFitDT, Looping
<1> QED BY <1>2, <1>3, <1>4 DEF IInv

LEMMA FailIInv ==
    ASSUME IInv, Fail
    PROVE  IInv'
<1>1. phase' = "failed"
  BY DEF Fail
<1>2. DriverTypeOK'
  BY DEF IInv, DriverTypeOK, Fail, config, forcing, control, clock, substep
<1>3. SchemeChecked' /\ WindsChecked' /\ ForcingIsCurrent'
  BY <1>1 DEF SchemeChecked, WindsChecked, ForcingIsCurrent
<1>4. ForcingHistory'
  BY <1>1 DEF IInv, ForcingHistory, Fail, forcing, control, Setup
<1>5. ClockBound' /\ RunEndsAtFirstStepPastEnd' /\ StepsFitDT'
  BY <1>1 DEF ClockBound, RunEndsAtFirstStepPastEnd, StepsFitDT, Looping
<1> QED BY <1>2, <1>3, <1>4, <1>5 DEF IInv

(* A step that leaves everything but the phase as it is, and goes from one *)
(* construction to a later one, past a scheme and winds that have been     *)
(* checked.                                                                *)
LEMMA AdvanceIInv ==
    ASSUME IInv, phase \in Setup, phase' \in Setup,
           UNCHANGED <<config, forcing, control, clock, substep>>,
           phase' \in {"surface_forcing", "waves", "run_control"} => SchemeImplemented,
           phase' \in {"waves", "run_control"} => windConfig = "2gyre"
    PROVE  IInv'
<1>1. phase' \notin {"loop", "substeps", "done"}
  BY DEF Setup
<1>2. DriverTypeOK'
  BY DEF IInv, DriverTypeOK, config, forcing, control, clock, substep
<1>3. SchemeChecked' /\ WindsChecked'
  BY <1>1 DEF SchemeChecked, SchemeImplemented, WindsChecked, config, forcing
<1>4. ForcingHistory' /\ ForcingIsCurrent'
  BY <1>1 DEF IInv, ForcingHistory, ForcingIsCurrent, forcing, control, clock
<1>5. ClockBound' /\ RunEndsAtFirstStepPastEnd' /\ StepsFitDT'
  BY <1>1 DEF ClockBound, RunEndsAtFirstStepPastEnd, StepsFitDT, Looping
<1> QED BY <1>2, <1>3, <1>4, <1>5 DEF IInv

LEMMA SetForcingIInv ==
    ASSUME IInv, SetForcing
    PROVE  IInv'
<1> DEFINE i == TimeToReal(step)
<1>0. phase = "loop" /\ windConfig = "2gyre"
  BY DEF IInv, WindsChecked, SetForcing
<1>1. /\ phase = "loop" /\ phase' = "substeps"
      /\ forced' = IF winds \/ firstCall THEN time ELSE forced
      /\ firstCall' = FALSE /\ nMax' \in StepCounts(i, dt) /\ n' = 1
      /\ UNCHANGED <<split, altSplit, useRK2, dt, winds, windConfig, start, step, timeEnd, time>>
      /\ time < timeEnd
  BY <1>0 DEF SetForcing, WindsDue, LoopGoesOn, config, control, clock
<1>2. /\ step \in Nat /\ step > 0 /\ i \in Int /\ i > 0
      /\ dt \in Int /\ time \in Nat /\ timeEnd \in Int /\ start \in Nat
      /\ winds \in BOOLEAN /\ firstCall \in BOOLEAN
  BY <1>1, DriverAssumption
     DEF IInv, DriverTypeOK, ClockBound, Looping, TimeToReal, TicksPerSecond
<1>3. nMax' \in -IntMax - 1 .. IntMax
  BY <1>1, <1>2, StepCountsAreInts
<1>4. DriverTypeOK'
  <2>1. forced' \in Int
    BY <1>1, <1>2 DEF IInv, DriverTypeOK
  <2>2. phase' \in Looping /\ firstCall' \in BOOLEAN
    BY <1>1 DEF Looping
  <2>3. n' \in -IntMax - 1 .. IntMax + 1
    BY <1>1, DriverAssumption
  <2>4. /\ split' \in BOOLEAN /\ altSplit' \in BOOLEAN /\ useRK2' \in BOOLEAN
        /\ winds' \in BOOLEAN /\ windConfig' \in WindConfigs
        /\ dt' \in DTs \cup {0} /\ start' \in StartTimes \cup {0}
        /\ step' \in Nat /\ timeEnd' \in Int /\ time' \in Nat
    BY <1>1 DEF IInv, DriverTypeOK
  <2> QED BY <1>3, <2>1, <2>2, <2>3, <2>4 DEF DriverTypeOK
<1>5. SchemeChecked' /\ WindsChecked'
  BY <1>0, <1>1 DEF IInv, SchemeChecked, SchemeImplemented, WindsChecked
<1>6. ForcingIsCurrent' /\ ForcingHistory'
  <2>1. phase' \notin Setup /\ phase' # "loop"
    BY <1>1 DEF Setup
  <2>2. CASE winds = TRUE
    BY <1>1, <2>1, <2>2 DEF ForcingIsCurrent, ForcingHistory
  <2>3. CASE winds = FALSE /\ firstCall = TRUE
    BY <1>1, <2>1, <2>3 DEF IInv, ForcingIsCurrent, ForcingHistory
  <2>4. CASE winds = FALSE /\ firstCall = FALSE
    BY <1>1, <2>1, <2>4 DEF IInv, ForcingIsCurrent, ForcingHistory
  <2> QED BY <1>2, <2>2, <2>3, <2>4
<1>7. ClockBound' /\ RunEndsAtFirstStepPastEnd'
  BY <1>1, <1>2 DEF ClockBound, RunEndsAtFirstStepPastEnd
<1>8. StepsFitDT'
  <2> SUFFICES ASSUME dt > 0, CeilSteps(i, dt) <= IntMax
      PROVE  /\ 1000 * i <= (1000 * nMax' + 1) * dt
             /\ nMax' > 1 => 1000 * i > (1000 * (nMax' - 1) + 1) * dt
    BY <1>1 DEF StepsFitDT, TimeToReal
  <2>1. CASE i <= dt
    <3>1. nMax' = 1
      BY <1>1, <2>1 DEF StepCounts
    <3>2. (1000 * 1 + 1) * dt = 1001 * dt /\ 1000 * i <= 1001 * dt
      BY <1>2, <2>1
    <3> QED BY <1>2, <3>1, <3>2
  <2>2. CASE i > dt
    <3> DEFINE c == CeilSteps(i, dt)
    <3>1. IsLeastCount(i, dt, c)
      <4>1. i \in Int /\ dt \in Int /\ dt > 0 /\ i > dt
        BY <1>2, <2>2
      <4> QED BY ONLY <4>1, CeilStepsIsLeast
    <3>2. c \in -IntMax - 1 .. IntMax
      BY <3>1, DriverAssumption DEF IsLeastCount
    <3>3. CastToInt(c) = {c}
      BY <3>2 DEF CastToInt
    <3>4. StepCounts(i, dt) = CastToInt(c)
      BY <1>2, <2>2 DEF StepCounts
    <3>5. nMax' = c
      BY <1>1, <3>3, <3>4
    <3> QED BY <3>1, <3>5 DEF IsLeastCount
  <2> QED BY <1>2, <2>1, <2>2
<1> QED BY <1>4, <1>5, <1>6, <1>7, <1>8 DEF IInv

LEMMA DynamicsStepIInv ==
    ASSUME IInv, DynamicsStep
    PROVE  IInv'
<1>1. phase = "substeps" /\ n <= nMax /\ SchemeImplemented
  BY DEF IInv, SchemeChecked, DynamicsStep
<1>2. n' \in Successors(n) /\ UNCHANGED <<phase, config, forcing, control, clock, nMax>>
  BY <1>1 DEF DynamicsStep
<1>3. DriverTypeOK'
  <2>1. n' \in -IntMax - 1 .. IntMax + 1
    <3>1. n \in -IntMax - 1 .. IntMax
      BY <1>1, DriverAssumption DEF IInv, DriverTypeOK
    <3> QED BY <1>2, <3>1, DriverAssumption DEF Successors
  <2> QED BY <1>2, <2>1 DEF IInv, DriverTypeOK, config, forcing, control, clock
<1>4. SchemeChecked' /\ WindsChecked' /\ ForcingHistory' /\ ForcingIsCurrent'
  BY <1>2 DEF IInv, SchemeChecked, SchemeImplemented, WindsChecked, ForcingHistory,
              ForcingIsCurrent, config, forcing, control, clock
<1>5. ClockBound' /\ RunEndsAtFirstStepPastEnd'
  BY <1>2 DEF IInv, ClockBound, RunEndsAtFirstStepPastEnd, control, clock
<1>6. StepsFitDT'
  BY <1>2 DEF IInv, StepsFitDT, config, control
<1> QED BY <1>3, <1>4, <1>5, <1>6 DEF IInv

LEMMA AdvanceClockIInv ==
    ASSUME IInv, AdvanceClock
    PROVE  IInv'
<1>1. /\ phase = "substeps" /\ phase' = "loop" /\ time' = time + step
      /\ UNCHANGED <<split, altSplit, useRK2, dt, winds, windConfig, firstCall, forced, start,
                     step, timeEnd, nMax, n>>
  BY DEF AdvanceClock, config, forcing, control, substep
<1>2. step \in Nat /\ step > 0 /\ timeEnd \in Int /\ time \in Nat
  BY <1>1 DEF IInv, DriverTypeOK, ClockBound, Looping
<1>3. DriverTypeOK'
  <2>1. time' \in Nat /\ phase' \in Looping
    BY <1>1, <1>2 DEF Looping
  <2> QED BY <1>1, <2>1 DEF IInv, DriverTypeOK
<1>4. SchemeChecked' /\ WindsChecked'
  BY <1>1 DEF IInv, SchemeChecked, SchemeImplemented, WindsChecked
<1>5. ForcingIsCurrent' /\ StepsFitDT'
  BY <1>1 DEF ForcingIsCurrent, StepsFitDT
<1>7. ForcingHistory'
  BY <1>1 DEF IInv, ForcingHistory, Setup
<1>6. ClockBound' /\ RunEndsAtFirstStepPastEnd'
  BY <1>1, <1>2 DEF IInv, ClockBound, RunEndsAtFirstStepPastEnd
<1> QED BY <1>3, <1>4, <1>5, <1>6, <1>7 DEF IInv

LEMMA EndRunIInv ==
    ASSUME IInv, EndRun
    PROVE  IInv'
<1>1. /\ phase = "loop" /\ phase' = "done" /\ timeEnd <= time
      /\ UNCHANGED <<config, forcing, control, clock, substep>>
  <2>1. time \in Nat /\ timeEnd \in Int
    BY DEF IInv, DriverTypeOK
  <2> QED BY <2>1 DEF EndRun, LoopGoesOn
<1>2. DriverTypeOK'
  BY <1>1 DEF IInv, DriverTypeOK, config, forcing, control, clock, substep
<1>3. SchemeChecked' /\ WindsChecked' /\ ForcingIsCurrent' /\ StepsFitDT'
  BY <1>1 DEF SchemeChecked, WindsChecked, ForcingIsCurrent, StepsFitDT
<1>4. ForcingHistory'
  BY <1>1 DEF IInv, ForcingHistory, Setup, forcing, control
<1>5. ClockBound' /\ RunEndsAtFirstStepPastEnd'
  BY <1>1 DEF IInv, ClockBound, RunEndsAtFirstStepPastEnd, Looping, control, clock
<1> QED BY <1>2, <1>3, <1>4, <1>5 DEF IInv

\* The constructions of which only the outcome is modelled.
PlainConstruction ==
    \/ StartInfra \/ ReadDirectories \/ ReadParameterFiles \/ MakeDomain \/ MakeGrid
    \/ MakeVerticalGrid \/ MakeState \/ RefuseWaves

LEMMA PlainConstructionIInv ==
    ASSUME IInv, PlainConstruction
    PROVE  IInv'
<1>1. CASE Fail
  BY <1>1, FailIInv
<1>2. CASE ~Fail
  <2>1. /\ phase \in Setup /\ phase' \in Setup
        /\ UNCHANGED <<config, forcing, control, clock, substep>>
    BY <1>2 DEF PlainConstruction, StartInfra, ReadDirectories, ReadParameterFiles, MakeDomain,
                MakeGrid, MakeVerticalGrid, MakeState, RefuseWaves, Construct, Setup
  <2>2. phase' \in {"surface_forcing", "waves", "run_control"} => phase = "waves"
    BY <1>2 DEF PlainConstruction, StartInfra, ReadDirectories, ReadParameterFiles, MakeDomain,
                MakeGrid, MakeVerticalGrid, MakeState, RefuseWaves, Construct
  <2>3. phase = "waves" => SchemeImplemented /\ windConfig = "2gyre"
    BY DEF IInv, SchemeChecked, WindsChecked
  <2>4. phase' \in {"waves", "run_control"} => windConfig = "2gyre"
    BY <2>2, <2>3
  <2> QED BY <2>1, <2>2, <2>3, <2>4, AdvanceIInv
<1> QED BY <1>1, <1>2

LEMMA ReadOceanSoloNmlIInv ==
    ASSUME IInv, ReadOceanSoloNml
    PROVE  IInv'
<1>1. CASE Fail
  BY <1>1, FailIInv
<1>2. CASE ~Fail
  <2>1. /\ phase = "calendar" /\ phase' = "switches" /\ start' \in StartTimes
        /\ UNCHANGED <<config, forcing, step, timeEnd, clock, substep>>
    BY <1>2 DEF ReadOceanSoloNml
  <2>2. DriverTypeOK'
    BY <2>1 DEF IInv, DriverTypeOK, config, forcing, clock, substep, Setup
  <2>3. SchemeChecked' /\ WindsChecked' /\ ForcingIsCurrent' /\ StepsFitDT'
    BY <2>1 DEF SchemeChecked, WindsChecked, ForcingIsCurrent, StepsFitDT
  <2>4. ForcingHistory'
    BY <2>1 DEF IInv, ForcingHistory, Setup, forcing
  <2>5. ClockBound' /\ RunEndsAtFirstStepPastEnd'
    BY <2>1 DEF ClockBound, RunEndsAtFirstStepPastEnd, Looping
  <2> QED BY <2>2, <2>3, <2>4, <2>5 DEF IInv
<1> QED BY <1>1, <1>2

LEMMA ReadConfigSwitchesIInv ==
    ASSUME IInv, ReadConfigSwitches
    PROVE  IInv'
<1>1. CASE Fail
  BY <1>1, FailIInv
<1>2. CASE ~Fail
  <2>1. /\ phase = "switches" /\ phase' = "domain"
        /\ split' \in BOOLEAN /\ altSplit' \in BOOLEAN /\ useRK2' \in BOOLEAN /\ dt' \in DTs
        /\ UNCHANGED <<forcing, control, clock, substep>>
    BY <1>2 DEF ReadConfigSwitches
  <2>2. DriverTypeOK'
    BY <2>1 DEF IInv, DriverTypeOK, control, forcing, clock, substep, Setup
  <2>3. SchemeChecked' /\ WindsChecked' /\ ForcingIsCurrent' /\ StepsFitDT'
    BY <2>1 DEF SchemeChecked, WindsChecked, ForcingIsCurrent, StepsFitDT
  <2>4. ForcingHistory'
    BY <2>1 DEF IInv, ForcingHistory, Setup, forcing, control
  <2>5. ClockBound' /\ RunEndsAtFirstStepPastEnd'
    BY <2>1 DEF ClockBound, RunEndsAtFirstStepPastEnd, Looping
  <2> QED BY <2>2, <2>3, <2>4, <2>5 DEF IInv
<1> QED BY <1>1, <1>2

LEMMA InitializeDynamicsIInv ==
    ASSUME IInv, InitializeDynamics
    PROVE  IInv'
<1>1. CASE Fail
  BY <1>1, FailIInv
<1>2. CASE ~Fail
  <2>1. /\ phase = "dynamics" /\ phase' = "surface_forcing" /\ SchemeImplemented
        /\ UNCHANGED <<config, forcing, control, clock, substep>>
    BY <1>2 DEF InitializeDynamics
  <2>2. phase \in Setup /\ phase' \in Setup
    BY <2>1 DEF Setup
  <2> QED BY <2>1, <2>2, AdvanceIInv
<1> QED BY <1>1, <1>2

LEMMA MakeSurfaceForcingIInv ==
    ASSUME IInv, MakeSurfaceForcing
    PROVE  IInv'
<1>1. CASE Fail
  BY <1>1, FailIInv
<1>2. CASE ~Fail
  <2>1. /\ phase = "surface_forcing" /\ phase' = "waves" /\ winds' \in BOOLEAN
        /\ windConfig' = "2gyre"
        /\ UNCHANGED <<config, firstCall, forced, control, clock, substep>>
    BY <1>2 DEF MakeSurfaceForcing
  <2>2. DriverTypeOK'
    BY <2>1 DEF IInv, DriverTypeOK, WindConfigs, config, control, clock, substep, Setup
  <2>3. SchemeChecked' /\ WindsChecked'
    BY <2>1 DEF IInv, SchemeChecked, SchemeImplemented, WindsChecked, config
  <2>4. ForcingHistory' /\ ForcingIsCurrent' /\ StepsFitDT'
    BY <2>1 DEF IInv, ForcingHistory, ForcingIsCurrent, StepsFitDT, Setup
  <2>5. ClockBound' /\ RunEndsAtFirstStepPastEnd'
    BY <2>1 DEF ClockBound, RunEndsAtFirstStepPastEnd, Looping
  <2> QED BY <2>2, <2>3, <2>4, <2>5 DEF IInv
<1> QED BY <1>1, <1>2

LEMMA ReadRunControlIInv ==
    ASSUME IInv, ReadRunControl
    PROVE  IInv'
<1>1. CASE Fail
  BY <1>1, FailIInv
<1>2. CASE ~Fail
  <2>1. PICK d \in ForcingDTs \cup {dt}, end \in EndTimes :
            /\ ForcingStepAllowed(d) /\ start < RealToTime(end)
            /\ phase' = "loop"
            /\ step' = RealToTime(d)
            /\ timeEnd' = RealToTime(end)
            /\ time' = start
            /\ UNCHANGED <<config, forcing, start, substep>>
    BY <1>2 DEF ReadRunControl
  <2>2. phase = "run_control" /\ firstCall
    BY DEF ReadRunControl, IInv, ForcingHistory, Setup
  <2>3. /\ d \in Int /\ end \in Int /\ start \in Nat
        /\ step' \in Nat /\ step' > 0 /\ timeEnd' \in Int
    <3>1. d \in Int /\ end \in Int /\ start \in Nat
      BY DriverAssumption DEF IInv, DriverTypeOK
    <3> QED BY <2>1, <3>1, RealToTimeIsInt, ForcingStepIsPositive
  <2>4. DriverTypeOK'
    <3>1. time' \in Nat /\ phase' \in Looping
      BY <2>1, <2>3 DEF Looping
    <3> QED BY <2>1, <2>3, <3>1 DEF IInv, DriverTypeOK, config, forcing, substep
  <2>5. SchemeChecked' /\ WindsChecked'
    BY <2>1, <2>2 DEF IInv, SchemeChecked, SchemeImplemented, WindsChecked, config, forcing
  <2>6. ForcingHistory' /\ ForcingIsCurrent' /\ StepsFitDT'
    BY <2>1, <2>2 DEF IInv, ForcingHistory, ForcingIsCurrent, StepsFitDT, Setup, forcing
  <2>7. ClockBound' /\ RunEndsAtFirstStepPastEnd'
    BY <2>1, <2>3 DEF ClockBound, RunEndsAtFirstStepPastEnd
  <2> QED BY <2>4, <2>5, <2>6, <2>7 DEF IInv
<1> QED BY <1>1, <1>2

LEMMA StepIInv ==
    ASSUME IInv, [Next]_vars
    PROVE  IInv'
<1>1. CASE PlainConstruction
  BY <1>1, PlainConstructionIInv
<1>2. CASE ReadOceanSoloNml \/ ReadConfigSwitches \/ InitializeDynamics
  BY <1>2, ReadOceanSoloNmlIInv, ReadConfigSwitchesIInv, InitializeDynamicsIInv
<1>3. CASE MakeSurfaceForcing \/ ReadRunControl
  BY <1>3, MakeSurfaceForcingIInv, ReadRunControlIInv
<1>4. CASE SetForcing \/ DynamicsStep \/ AdvanceClock \/ EndRun
  BY <1>4, SetForcingIInv, DynamicsStepIInv, AdvanceClockIInv, EndRunIInv
<1>5. CASE UNCHANGED vars
  <2>1. UNCHANGED <<phase, config, forcing, control, clock, substep>>
    BY <1>5 DEF vars
  <2>2. DriverTypeOK'
    BY <2>1 DEF IInv, DriverTypeOK, config, forcing, control, clock, substep
  <2>3. SchemeChecked' /\ WindsChecked' /\ ForcingHistory' /\ ForcingIsCurrent'
    BY <2>1 DEF IInv, SchemeChecked, SchemeImplemented, WindsChecked, ForcingHistory,
                ForcingIsCurrent, config, forcing, control, clock
  <2>4. ClockBound' /\ RunEndsAtFirstStepPastEnd' /\ StepsFitDT'
    BY <2>1 DEF IInv, ClockBound, RunEndsAtFirstStepPastEnd, StepsFitDT, config, control, clock,
                substep
  <2> QED BY <2>2, <2>3, <2>4 DEF IInv
<1> QED BY <1>1, <1>2, <1>3, <1>4, <1>5 DEF Next, PlainConstruction, Exited

LEMMA Invariance == Spec => []IInv
<1>1. Init => IInv
  BY InitIInv
<1>2. IInv /\ [Next]_vars => IInv'
  BY StepIInv
<1> QED BY <1>1, <1>2, PTL DEF Spec

-----------------------------------------------------------------------------
(* The types are as declared: in particular no conversion to int leaves    *)
(* the range of int and the forcing step is a natural number of seconds.   *)
THEOREM DriverTypeCorrect == Spec => []DriverTypeOK
<1>1. IInv => DriverTypeOK
  BY DEF IInv
<1> QED BY <1>1, Invariance, PTL

(* Every dynamics step sees the forcing of its own time when the winds     *)
(* vary, and of the start of the run when they are steady.                 *)
THEOREM ForcingAlwaysCurrent == Spec => []ForcingIsCurrent
<1>1. IInv => ForcingIsCurrent
  BY DEF IInv
<1> QED BY <1>1, Invariance, PTL

(* The run ends in the first forcing step that reaches the end time.       *)
THEOREM RunEndsInTime == Spec => []RunEndsAtFirstStepPastEnd
<1>1. IInv => RunEndsAtFirstStepPastEnd
  BY DEF IInv
<1> QED BY <1>1, Invariance, PTL

(* For a positive DT whose number of steps fits an int, the dynamics steps *)
(* exceed DT by at most a thousandth, and are as few as that allows.       *)
THEOREM StepsAlwaysFitDT == Spec => []StepsFitDT
<1>1. IInv => StepsFitDT
  BY DEF IInv
<1> QED BY <1>1, Invariance, PTL

(* Once the loop has begun nothing in it stops the program: neither the    *)
(* dispatch on the scheme nor that on the winds reaches its fatal branch.  *)
THEOREM NoFailureOnceLooping == Spec => NoFailureInTheLoop
<1>1. IInv /\ [Next]_vars => [(phase \in Looping) => phase' # "failed"]_vars
  <2> SUFFICES ASSUME IInv, Next, phase \in Looping
               PROVE  phase' # "failed"
    BY DEF vars
  <2>1. phase \in {"loop", "substeps"} /\ SchemeImplemented /\ windConfig = "2gyre"
    BY DEF IInv, SchemeChecked, WindsChecked, Looping
  <2>2. SetForcing \/ DynamicsStep \/ AdvanceClock \/ EndRun
    BY <2>1 DEF Next, StartInfra, ReadDirectories, ReadParameterFiles, MakeDomain, MakeGrid,
                MakeVerticalGrid, MakeState, RefuseWaves, Construct, ReadOceanSoloNml,
                ReadConfigSwitches, InitializeDynamics, MakeSurfaceForcing, ReadRunControl, Exited
  <2> QED BY <2>1, <2>2 DEF SetForcing, DynamicsStep, AdvanceClock, EndRun
<1> QED BY <1>1, Invariance, PTL DEF Spec, NoFailureInTheLoop

-----------------------------------------------------------------------------
(* The state the model starts from.                                        *)

All == Cells \cup Halo

-----------------------------------------------------------------------------
(* Arithmetic of the clamp, with the products named so that only linear    *)
(* facts are left.                                                         *)

\* One layer further up, the nominal interface is a layer higher.
LEMMA LayerUp ==
  ASSUME NEW L \in Int, NEW j \in Int
  PROVE  L * (j + 1) = L * j + L
BY SMT

\* When layers are no thinner than ANGSTROM the clamp turns the interface below
\* into the interface above.
LEMMA TopOfInterface ==
  ASSUME layer \in Int, angstrom \in Int, angstrom <= layer, NK \in Int,
         NEW bottom \in Int, NEW j \in Int
  PROVE  TopOf(j, Interface(j + 1, bottom)) = Interface(j, bottom)
<1> DEFINE p == layer * j
           q == (NK - (j + 1)) * angstrom
<1>1. layer * (j + 1) = p + layer
  BY LayerUp
<1>2. (NK - j) * angstrom = q + angstrom
  <2>1. angstrom * ((NK - (j + 1)) + 1) = angstrom * (NK - (j + 1)) + angstrom
    BY LayerUp
  <2> QED BY <2>1, SMT
<1>3. p \in Int /\ q \in Int
  OBVIOUS
<1> HIDE DEF p, q
<1>4. Interface(j + 1, bottom) = Higher(-(p + layer), bottom + q)
  BY <1>1 DEF Interface, q
<1>5. Interface(j, bottom) = Higher(-p, bottom + (q + angstrom))
  BY <1>2 DEF Interface, p
<1>6. TopOf(j, Interface(j + 1, bottom))
        = Higher(-p, Higher(-(p + layer), bottom + q) + angstrom)
  BY <1>3, <1>4 DEF TopOf, Higher, p
<1> QED BY <1>3, <1>5, <1>6 DEF Higher

\* The first layer set, at the bottom: the interface below it is the bottom.
LEMMA TopOfBottom ==
  ASSUME layer \in Int, angstrom \in Int, NK \in Int, NEW bottom \in Int
  PROVE  TopOf(NK - 1, bottom) = Interface(NK - 1, bottom)
<1>1. (NK - (NK - 1)) * angstrom = angstrom
  BY SMT
<1>2. layer * (NK - 1) \in Int
  OBVIOUS
<1> QED BY <1>1, <1>2 DEF TopOf, Interface, Higher

\* A clamped layer is at least an Angstrom thick, whatever the clamp starts from.
LEMMA TopOfIsAbove ==
  ASSUME layer \in Int, angstrom \in Int, NEW j \in Int, NEW below \in Int
  PROVE  TopOf(j, below) \in Int /\ TopOf(j, below) - below >= angstrom
<1>1. layer * j \in Int
  OBVIOUS
<1> QED BY <1>1 DEF TopOf

-----------------------------------------------------------------------------
(* The inductive invariant.                                                *)

Started == stage \notin {"vertical_grid", "failed"}
Copied == stage \in {"surface", "velocity", "done"}

\* The interface on which the walk of a column stands.
Standing(c) == IF k[c] = NK THEN -depth[c] ELSE Interface(k[c], -depth[c])

\* Before the copy the state holds the allocation's ANGSTROM and the walk has
\* left layers no thinner than it; after the copy it holds those layers.
ThickEnough ==
  /\ stage = "thickness" => \A c \in All, j \in LayerIndices : h[c][j] = angstrom
  /\ Started => \A c \in Cells, j \in LayerIndices : j >= k[c] => dz[c][j] >= angstrom
  /\ Copied => \A c \in Cells : k[c] = 0 /\ h[c] = dz[c]
  /\ Copied => \A c \in All, j \in LayerIndices : h[c][j] >= angstrom

\* Where ANGSTROM is no thicker than a layer the walk stands on an interface and
\* the layers above it are the gaps between interfaces.
OnInterfaces ==
  Started /\ angstrom <= layer =>
    \A c \in Cells :
      /\ etaBelow[c] = Standing(c)
      /\ \A j \in LayerIndices : j >= k[c] =>
           dz[c][j] = Interface(j, -depth[c])
                        - (IF j = NK - 1 THEN -depth[c] ELSE Interface(j + 1, -depth[c]))

\* Before the walk, nothing has been set.
Untouched ==
  stage \in {"vertical_grid", "allocate"} =>
    \A c \in Cells : k[c] = NK /\ etaBelow[c] = -depth[c]

StateIInv == StateTypeOK /\ ThickEnough /\ OnInterfaces /\ Untouched

LEMMA StateInitInv == StateInit => StateIInv
<1> SUFFICES ASSUME StateInit PROVE StateIInv
  OBVIOUS
<1> USE StateAssumption
<1>1. StateTypeOK
  <2>1. \A c \in Cells : depth[c] \in Int
    BY DEF StateInit
  <2>2. k \in [Cells -> 0 .. NK] /\ etaBelow \in [Cells -> Int]
    BY <2>1 DEF StateInit
  <2>3. dz \in [Cells -> Columns] /\ h \in [Cells \cup Halo -> Columns]
    BY DEF StateInit, Uniform, Columns
  <2> QED BY <2>2, <2>3 DEF StateInit, StateTypeOK, Stages
<1>2. ThickEnough /\ OnInterfaces
  BY DEF StateInit, ThickEnough, OnInterfaces, Started, Copied
<1>3. Untouched
  BY DEF StateInit, Untouched
<1> QED BY <1>1, <1>2, <1>3 DEF StateIInv

\* Actions that change the stage alone.
StageOnly == UNCHANGED <<layer, angstrom, depth, k, etaBelow, dz, h>>

\* A step that fails, or that goes on without touching the fields after the
\* copy, keeps the invariant.
LEMMA QuietStep ==
  ASSUME StateIInv, StageOnly,
         \/ stage' = "failed"
         \/ stage = "velocity" /\ stage' = "done"
         \/ stage' = stage
         \/ stage = "vertical_grid" /\ stage' = "allocate" /\ angstrom >= 0 /\ layer > 0
  PROVE  StateIInv'
<1> USE DEF StageOnly
<1>1. StateTypeOK'
  BY DEF StateIInv, StateTypeOK, Stages
<1>2. ThickEnough'
  BY StateAssumption DEF StateIInv, ThickEnough, Untouched, Started, Copied, LayerIndices
<1>3. OnInterfaces'
  <2> SUFFICES ASSUME Started', angstrom <= layer, NEW c \in Cells
               PROVE  /\ etaBelow[c] = Standing(c)
                      /\ \A j \in LayerIndices : j >= k[c] =>
                           dz[c][j] = Interface(j, -depth[c])
                             - (IF j = NK - 1 THEN -depth[c] ELSE Interface(j + 1, -depth[c]))
    BY DEF OnInterfaces, Standing, Interface, Higher
  <2>1. CASE stage = "vertical_grid"
    <3>1. k[c] = NK /\ etaBelow[c] = -depth[c]
      BY <2>1 DEF StateIInv, Untouched
    <3>2. \A j \in LayerIndices : ~(j >= NK)
      BY StateAssumption DEF LayerIndices
    <3> QED BY <3>1, <3>2 DEF Standing
  <2>2. CASE Started
    BY <2>2 DEF StateIInv, OnInterfaces
  <2> QED BY <2>1, <2>2 DEF Started, StateIInv, StateTypeOK, Stages
<1>4. Untouched'
  BY DEF StateIInv, Untouched
<1> QED BY <1>1, <1>2, <1>3, <1>4 DEF StateIInv

LEMMA MakeFieldsInv == StateIInv /\ MakeFields => StateIInv'
<1> SUFFICES ASSUME StateIInv, MakeFields PROVE StateIInv'
  OBVIOUS
<1> USE StateAssumption
<1>1. StateTypeOK'
  <2>1. h' \in [Cells \cup Halo -> Columns]
    BY DEF StateIInv, StateTypeOK, MakeFields, Uniform, Columns
  <2> QED BY <2>1 DEF StateIInv, StateTypeOK, MakeFields, Stages
<1>2. \A c \in Cells : k[c] = NK /\ etaBelow[c] = -depth[c]
  BY DEF StateIInv, Untouched, MakeFields
<1>3. \A j \in LayerIndices : ~(j >= NK)
  BY DEF LayerIndices
<1>4. ThickEnough'
  BY <1>2, <1>3 DEF ThickEnough, MakeFields, All, Uniform, Started, Copied
<1>5. OnInterfaces'
  BY <1>2, <1>3 DEF OnInterfaces, MakeFields, Standing
<1>6. Untouched'
  BY DEF Untouched, MakeFields
<1> QED BY <1>1, <1>4, <1>5, <1>6 DEF StateIInv

LEMMA SetLayerInv == ASSUME StateIInv, NEW a \in Cells, SetLayer(a) PROVE StateIInv'
<1> DEFINE j0 == k[a] - 1
           eta == TopOf(j0, etaBelow[a])
<1> USE StateAssumption
<1>1. /\ layer \in Int /\ angstrom \in Int /\ NK \in Int
      /\ k[a] \in 0 .. NK /\ k[a] > 0 /\ etaBelow[a] \in Int /\ depth[a] \in Int
      /\ j0 \in LayerIndices /\ j0 \in Int
  <2>1. layer \in Int /\ angstrom \in Int /\ NK \in Int
    BY DEF StateIInv, StateTypeOK
  <2>2. k[a] \in 0 .. NK /\ etaBelow[a] \in Int /\ depth[a] \in Int
    BY DEF StateIInv, StateTypeOK
  <2>3. k[a] > 0
    BY DEF SetLayer
  <2>4. j0 \in LayerIndices /\ j0 \in Int
    BY <2>1, <2>2, <2>3 DEF LayerIndices
  <2> QED BY <2>1, <2>2, <2>3, <2>4
<1>2. eta \in Int /\ eta - etaBelow[a] >= angstrom /\ eta - etaBelow[a] \in Int
  <2>1. \A j, b \in Int : TopOf(j, b) \in Int /\ TopOf(j, b) - b >= angstrom
    BY <1>1, TopOfIsAbove
  <2> HIDE DEF j0
  <2>2. eta \in Int /\ eta - etaBelow[a] >= angstrom
    BY <1>1, <2>1
  <2> QED BY <1>1, <2>2
<1>3. /\ dz' = [dz EXCEPT ![a][j0] = eta - etaBelow[a]]
      /\ etaBelow' = [etaBelow EXCEPT ![a] = eta]
      /\ k' = [k EXCEPT ![a] = j0]
      /\ stage = "thickness"
      /\ UNCHANGED <<stage, layer, angstrom, depth, h>>
  BY DEF SetLayer
<1> HIDE DEF eta
<1>4. StateTypeOK'
  <2>1. dz \in [Cells -> Columns] /\ etaBelow \in [Cells -> Int] /\ k \in [Cells -> 0 .. NK]
    BY DEF StateIInv, StateTypeOK
  <2>2. j0 \in 0 .. NK
    BY <1>1 DEF LayerIndices
  <2>3. k' \in [Cells -> 0 .. NK] /\ etaBelow' \in [Cells -> Int]
    BY <1>2, <1>3, <2>1, <2>2
  <2>4. [dz[a] EXCEPT ![j0] = eta - etaBelow[a]] \in Columns
    BY <1>1, <1>2, <2>1 DEF Columns
  <2>5. dz' \in [Cells -> Columns]
    BY <1>3, <2>1, <2>4
  <2> QED BY <1>3, <2>3, <2>5 DEF StateIInv, StateTypeOK
<1>5. /\ k'[a] = j0 /\ etaBelow'[a] = eta /\ dz'[a][j0] = eta - etaBelow[a]
      /\ \A j \in LayerIndices : j # j0 => dz'[a][j] = dz[a][j]
      /\ \A c \in Cells : c # a => k'[c] = k[c] /\ etaBelow'[c] = etaBelow[c] /\ dz'[c] = dz[c]
  BY <1>1, <1>3 DEF StateIInv, StateTypeOK, Columns
<1>6. \A j \in LayerIndices : j >= j0 => j = j0 \/ j >= k[a]
  BY <1>1 DEF LayerIndices
<1>7. ThickEnough'
  <2>1. \A c \in Cells, j \in LayerIndices : j >= k'[c] => dz'[c][j] >= angstrom
    BY <1>2, <1>3, <1>5, <1>6 DEF StateIInv, ThickEnough, Started
  <2> QED BY <1>3, <2>1 DEF StateIInv, ThickEnough, Copied
<1>8. OnInterfaces'
  <2> SUFFICES ASSUME angstrom <= layer, NEW c \in Cells
               PROVE  /\ etaBelow'[c] = Standing(c)'
                      /\ \A j \in LayerIndices : j >= k'[c] =>
                           dz'[c][j] = Interface(j, -depth[c])
                             - (IF j = NK - 1 THEN -depth[c] ELSE Interface(j + 1, -depth[c]))
    BY <1>3 DEF OnInterfaces, Interface, Higher
  <2>1. /\ etaBelow[c] = Standing(c)
        /\ \A j \in LayerIndices : j >= k[c] =>
             dz[c][j] = Interface(j, -depth[c])
                - (IF j = NK - 1 THEN -depth[c] ELSE Interface(j + 1, -depth[c]))
    BY <1>3 DEF StateIInv, OnInterfaces, Started
  <2>2. CASE c # a
    BY <1>3, <1>5, <2>1, <2>2 DEF Standing, Interface, Higher
  <2>3. CASE c = a
    <3>1. eta = Interface(j0, -depth[a])
      <4>1. CASE k[a] = NK
        BY <1>1, <2>1, <2>3, <4>1, TopOfBottom DEF eta, Standing
      <4>2. CASE k[a] # NK
        <5>1. etaBelow[a] = Interface(j0 + 1, -depth[a])
          BY <1>1, <2>1, <2>3, <4>2 DEF Standing
        <5> QED BY <1>1, <5>1, TopOfInterface DEF eta
      <4> QED BY <4>1, <4>2
    <3>2. etaBelow[a] = IF j0 = NK - 1 THEN -depth[a] ELSE Interface(j0 + 1, -depth[a])
      BY <1>1, <2>1, <2>3 DEF Standing
    <3>3. j0 # NK
      BY <1>1 DEF LayerIndices
    <3>4. Standing(a)' = Interface(j0, -depth[a])
      BY <1>3, <1>5, <3>3 DEF Standing, Interface, Higher
    <3> QED BY <1>5, <1>6, <2>1, <2>3, <3>1, <3>2, <3>4
  <2> QED BY <2>2, <2>3
<1>9. Untouched'
  BY <1>3 DEF Untouched
<1> QED BY <1>4, <1>7, <1>8, <1>9 DEF StateIInv

LEMMA DzToThicknessInv == StateIInv /\ DzToThickness => StateIInv'
<1> SUFFICES ASSUME StateIInv, DzToThickness PROVE StateIInv'
  OBVIOUS
<1> USE StateAssumption
<1>1. StateTypeOK'
  BY DEF StateIInv, StateTypeOK, DzToThickness, Stages
<1>2. \A j \in LayerIndices : j >= 0
  BY DEF LayerIndices
<1>3. /\ \A c \in Cells : k[c] = 0 /\ h'[c] = dz[c]
      /\ \A c \in All : c \notin Cells => h'[c] = h[c]
      /\ stage = "thickness"
      /\ stage' = "surface" /\ UNCHANGED <<layer, angstrom, depth, k, etaBelow, dz>>
  BY DEF StateIInv, StateTypeOK, DzToThickness, All
<1>4. ThickEnough'
  <2>1. \A c \in All, j \in LayerIndices : h'[c][j] >= angstrom
    <3> SUFFICES ASSUME NEW c \in All, NEW j \in LayerIndices PROVE h'[c][j] >= angstrom
      OBVIOUS
    <3>1. CASE c \in Cells
      BY <1>2, <1>3, <3>1 DEF StateIInv, ThickEnough, Started
    <3>2. CASE c \notin Cells
      BY <1>3, <3>2 DEF StateIInv, ThickEnough, StateTypeOK
    <3> QED BY <3>1, <3>2
  <2> QED BY <1>3, <2>1 DEF StateIInv, ThickEnough, Started
<1>5. OnInterfaces'
  BY <1>3 DEF StateIInv, OnInterfaces, Started, Standing, Interface, Higher
<1>6. Untouched'
  BY <1>3 DEF Untouched
<1> QED BY <1>1, <1>4, <1>5, <1>6 DEF StateIInv

LEMMA PassHInv == StateIInv /\ PassH => StateIInv'
<1> SUFFICES ASSUME StateIInv, PassH PROVE StateIInv'
  OBVIOUS
<1> USE StateAssumption
<1>1. /\ stage = "surface" /\ stage' = "velocity"
      /\ UNCHANGED <<layer, angstrom, depth, k, etaBelow, dz>>
      /\ h' = [c \in Cells \cup Halo |-> IF c \in Halo /\ From[c] \in Cells THEN h[From[c]] ELSE h[c]]
  BY DEF PassH, StateIInv, StateTypeOK
<1>2. StateTypeOK'
  BY <1>1 DEF StateIInv, StateTypeOK, Stages
<1>3. \A c \in Cells : h'[c] = h[c]
  BY <1>1
<1>4. \A c \in All : \E b \in All : h'[c] = h[b]
  BY <1>1 DEF All
<1>5. ThickEnough'
  <2>1. \A c \in All, j \in LayerIndices : h'[c][j] >= angstrom
    BY <1>1, <1>4 DEF StateIInv, ThickEnough, Copied
  <2> QED BY <1>1, <1>3, <2>1 DEF StateIInv, ThickEnough, Started, Copied
<1>6. OnInterfaces'
  BY <1>1 DEF StateIInv, OnInterfaces, Started, Standing, Interface, Higher
<1>7. Untouched'
  BY <1>1 DEF Untouched
<1> QED BY <1>2, <1>5, <1>6, <1>7 DEF StateIInv

LEMMA StepInv == StateIInv /\ [StateNext]_stateVars => StateIInv'
<1> SUFFICES ASSUME StateIInv, [StateNext]_stateVars PROVE StateIInv'
  OBVIOUS
<1>1. CASE VerticalGrid
  BY <1>1, QuietStep DEF VerticalGrid, FailState, StageOnly
<1>2. CASE MakeFields
  BY <1>2, MakeFieldsInv
<1>3. CASE RefuseThickness \/ RefuseSurface
  BY <1>3, QuietStep DEF RefuseThickness, RefuseSurface, FailState, StageOnly
<1>4. CASE \E c \in Cells : SetLayer(c)
  BY <1>4, SetLayerInv
<1>5. CASE DzToThickness
  BY <1>5, DzToThicknessInv
<1>6. CASE PassH
  BY <1>6, PassHInv
<1>7. CASE Finish
  BY <1>7, QuietStep DEF Finish, FailState, StageOnly
<1>8. CASE Settled \/ UNCHANGED stateVars
  BY <1>8, QuietStep DEF Settled, stateVars, StageOnly
<1> QED BY <1>1, <1>2, <1>3, <1>4, <1>5, <1>6, <1>7, <1>8 DEF StateNext

THEOREM StateInvariance == StateSpec => []StateIInv
<1>1. StateInit => StateIInv
  BY StateInitInv
<1>2. StateIInv /\ [StateNext]_stateVars => StateIInv'
  BY StepInv
<1> QED BY <1>1, <1>2, PTL DEF StateSpec

-----------------------------------------------------------------------------
(* The theorems.                                                           *)

\* Every variable keeps its type, and nothing is set up with an ANGSTROM or a
\* MAXIMUM_DEPTH that VerticalGrid should have refused.
THEOREM StateTypeCorrect == StateSpec => []StateTypeOK
<1>1. StateIInv => StateTypeOK
  BY DEF StateIInv
<1> QED BY <1>1, StateInvariance, PTL

\* No layer that a later stage can read is thinner than ANGSTROM, on any
\* bathymetry, in any number of layers, halo cells beyond a boundary included.
THEOREM NoLayerVanishes == StateSpec => []NoVanishedLayer
<1>1. StateIInv => NoVanishedLayer
  BY DEF StateIInv, ThickEnough, NoVanishedLayer, Copied, All
<1> QED BY <1>1, StateInvariance, PTL

\* The layers of a computational cell are the gaps between the interfaces, for
\* any NK, bathymetry and ANGSTROM up to the nominal thickness.
THEOREM ColumnsFilled == StateSpec => []LayersFillTheColumn
<1>1. StateIInv => LayersFillTheColumn
  <2> SUFFICES ASSUME StateIInv, stage \in {"velocity", "done"}, angstrom <= layer,
                      NEW c \in Cells, NEW j \in LayerIndices
               PROVE  h[c][j] = Interface(j, -depth[c])
                        - (IF j = NK - 1 THEN -depth[c] ELSE Interface(j + 1, -depth[c]))
    BY DEF LayersFillTheColumn
  <2>1. k[c] = 0 /\ h[c] = dz[c]
    BY DEF StateIInv, ThickEnough, Copied
  <2>2. j >= k[c]
    BY <2>1 DEF LayerIndices
  <2> QED BY <2>1, <2>2 DEF StateIInv, OnInterfaces, Started
<1> QED BY <1>1, StateInvariance, PTL

-----------------------------------------------------------------------------
(* The walk.                                                               *)

\* One interface or the bottom, raised by an Angstrom for each layer up to kc
RaisedInterface(j, kc) == -(layer * j) + (j - kc) * angstrom
RaisedBottom(bottom, kc) == bottom + (NK - kc) * angstrom
Raised(kc, bottom) == {RaisedInterface(j, kc) : j \in kc .. NK - 1} \cup {RaisedBottom(bottom, kc)}

HighestOf(e, set) == e \in set /\ \A r \in set : r <= e

LEMMA RaisedOnce ==
  ASSUME NEW j \in Int, NEW bottom \in Int, NEW kc \in Int, layer \in Int, angstrom \in Int, NK \in Int
  PROVE  /\ RaisedInterface(j, kc - 1) = RaisedInterface(j, kc) + angstrom
         /\ RaisedBottom(bottom, kc - 1) = RaisedBottom(bottom, kc) + angstrom
         /\ RaisedInterface(j, kc) \in Int /\ RaisedBottom(bottom, kc) \in Int
<1>1. /\ angstrom * ((j - kc) + 1) = angstrom * (j - kc) + angstrom
      /\ angstrom * ((NK - kc) + 1) = angstrom * (NK - kc) + angstrom
  <2>1. j - kc \in Int /\ NK - kc \in Int
    OBVIOUS
  <2> QED BY <2>1, LayerUp
<1>2. /\ (j - (kc - 1)) * angstrom = (j - kc) * angstrom + angstrom
      /\ (NK - (kc - 1)) * angstrom = (NK - kc) * angstrom + angstrom
  <2>1. j - (kc - 1) = (j - kc) + 1 /\ NK - (kc - 1) = (NK - kc) + 1
    OBVIOUS
  <2> QED BY <1>1, <2>1
<1>3. (j - kc) * angstrom \in Int /\ (NK - kc) * angstrom \in Int /\ layer * j \in Int
  OBVIOUS
<1> QED BY <1>2, <1>3 DEF RaisedInterface, RaisedBottom

\* The local clamp keeps the highest: of what was there, a layer further up, and of
\* the nominal interface that joins it.
LEMMA ClampIsTheHighest ==
  ASSUME NEW kc \in 1 .. NK, NEW bottom \in Int, NEW below, HighestOf(below, Raised(kc, bottom)),
         layer \in Int, angstrom \in Int, NK \in Int
  PROVE  HighestOf(TopOf(kc - 1, below), Raised(kc - 1, bottom))
<1> DEFINE nominal == -(layer * (kc - 1))
           top == TopOf(kc - 1, below)
<1>1. kc \in Int /\ kc - 1 \in Int /\ nominal \in Int
  OBVIOUS
<1>2. RaisedInterface(kc - 1, kc - 1) = nominal
  BY <1>1 DEF RaisedInterface
<1>3. \A r \in Raised(kc, bottom) : r + angstrom \in Raised(kc - 1, bottom)
  <2> SUFFICES ASSUME NEW r \in Raised(kc, bottom) PROVE r + angstrom \in Raised(kc - 1, bottom)
    OBVIOUS
  <2>1. CASE r = RaisedBottom(bottom, kc)
    BY <1>1, <2>1, RaisedOnce DEF Raised
  <2>2. CASE \E j \in kc .. NK - 1 : r = RaisedInterface(j, kc)
    <3>1. PICK j \in kc .. NK - 1 : r = RaisedInterface(j, kc)
      BY <2>2
    <3>2. j \in kc - 1 .. NK - 1 /\ j \in Int
      BY <1>1
    <3>3. r + angstrom = RaisedInterface(j, kc - 1)
      BY <1>1, <3>1, <3>2, RaisedOnce
    <3> QED BY <3>2, <3>3 DEF Raised
  <2> QED BY <2>1, <2>2 DEF Raised
<1>4. \A r \in Raised(kc - 1, bottom) : r = nominal \/ \E q \in Raised(kc, bottom) : r = q + angstrom
  <2> SUFFICES ASSUME NEW r \in Raised(kc - 1, bottom), r # nominal
               PROVE  \E q \in Raised(kc, bottom) : r = q + angstrom
    OBVIOUS
  <2>1. CASE r = RaisedBottom(bottom, kc - 1)
    <3>1. r = RaisedBottom(bottom, kc) + angstrom
      BY <1>1, <2>1, RaisedOnce
    <3> QED BY <3>1 DEF Raised
  <2>2. CASE \E j \in kc - 1 .. NK - 1 : r = RaisedInterface(j, kc - 1)
    <3>1. PICK j \in kc - 1 .. NK - 1 : r = RaisedInterface(j, kc - 1)
      BY <2>2
    <3>2. j # kc - 1
      BY <1>2, <3>1
    <3>3. j \in kc .. NK - 1 /\ j \in Int
      BY <1>1, <3>2
    <3>4. r = RaisedInterface(j, kc) + angstrom
      BY <1>1, <3>1, <3>3, RaisedOnce
    <3> QED BY <3>3, <3>4 DEF Raised
  <2> QED BY <2>1, <2>2 DEF Raised
<1>5. nominal \in Raised(kc - 1, bottom)
  <2>1. kc - 1 \in kc - 1 .. NK - 1
    BY <1>1
  <2> QED BY <1>2, <2>1 DEF Raised
<1>6. Raised(kc, bottom) \subseteq Int
  <2>1. \A j \in Int : RaisedInterface(j, kc) \in Int
    BY <1>1, RaisedOnce
  <2>2. RaisedBottom(bottom, kc) \in Int
    BY <1>1, RaisedOnce
  <2> QED BY <2>1, <2>2 DEF Raised
<1>7. below \in Int /\ \A q \in Raised(kc, bottom) : q \in Int /\ q <= below
  BY <1>6 DEF HighestOf
<1>8. top = (IF nominal < below + angstrom THEN below + angstrom ELSE nominal)
  BY DEF TopOf
<1> HIDE DEF nominal, top
<1>9. top \in Raised(kc - 1, bottom)
  BY <1>3, <1>5, <1>8 DEF HighestOf
<1>10. \A r \in Raised(kc - 1, bottom) : r <= top
  BY <1>1, <1>4, <1>7, <1>8
<1> QED BY <1>9, <1>10 DEF HighestOf, top

\* The walk so far, for each column
WalkInv ==
  stage = "thickness" => \A c \in Cells : HighestOf(etaBelow[c], Raised(k[c], -depth[c]))

LEMMA SetLayerWalk == ASSUME StateIInv, WalkInv, NEW a \in Cells, SetLayer(a) PROVE WalkInv'
<1>1. /\ stage = "thickness" /\ UNCHANGED <<stage, layer, angstrom, depth>>
      /\ k' = [k EXCEPT ![a] = k[a] - 1]
      /\ etaBelow' = [etaBelow EXCEPT ![a] = TopOf(k[a] - 1, etaBelow[a])]
      /\ k[a] > 0
  BY DEF SetLayer
<1>2. /\ k \in [Cells -> 0 .. NK] /\ etaBelow \in [Cells -> Int]
      /\ layer \in Int /\ angstrom \in Int /\ NK \in Int
  BY StateAssumption DEF StateIInv, StateTypeOK
<1>7. \A c \in Cells : depth[c] \in Int
  BY StateAssumption DEF StateIInv, StateTypeOK
<1> SUFFICES ASSUME NEW c \in Cells PROVE HighestOf(etaBelow'[c], Raised(k[c], -depth[c])')
  BY <1>1 DEF WalkInv
<1>3. HighestOf(etaBelow[c], Raised(k[c], -depth[c]))
  BY <1>1 DEF WalkInv
<1>4. Raised(k[c], -depth[c])' = Raised(k'[c], -depth[c])
  BY <1>1 DEF Raised, RaisedInterface, RaisedBottom
<1>5. CASE c = a
  <2>1. k[a] \in 1 .. NK /\ -depth[a] \in Int
    BY <1>1, <1>2, <1>7
  <2>2. HighestOf(TopOf(k[a] - 1, etaBelow[a]), Raised(k[a] - 1, -depth[a]))
    BY <1>2, <1>3, <1>5, <2>1, ClampIsTheHighest
  <2> QED BY <1>1, <1>2, <1>4, <1>5, <2>2
<1>6. CASE c # a
  BY <1>1, <1>2, <1>3, <1>4, <1>6
<1> QED BY <1>5, <1>6

LEMMA StartWalk == ASSUME StateIInv, MakeFields PROVE WalkInv'
<1>1. stage = "allocate" /\ UNCHANGED <<layer, angstrom, depth, k, etaBelow>>
  BY DEF MakeFields
<1> SUFFICES ASSUME NEW c \in Cells PROVE HighestOf(etaBelow[c], Raised(k[c], -depth[c]))
  BY <1>1 DEF WalkInv, Raised, RaisedInterface, RaisedBottom
<1>2. k[c] = NK /\ etaBelow[c] = -depth[c]
  BY <1>1 DEF StateIInv, Untouched
<1>3. /\ NK \in Int /\ layer \in Int /\ angstrom \in Int /\ etaBelow[c] \in Int
  BY StateAssumption DEF StateIInv, StateTypeOK
<1>4. NK .. NK - 1 = {} /\ RaisedBottom(etaBelow[c], NK) = etaBelow[c]
  BY <1>3 DEF RaisedBottom
<1>5. Raised(NK, etaBelow[c]) = {etaBelow[c]}
  BY <1>4 DEF Raised
<1> QED BY <1>2, <1>3, <1>5 DEF HighestOf

LEMMA WalkStep == StateIInv /\ WalkInv /\ [StateNext]_stateVars => WalkInv'
<1> SUFFICES ASSUME StateIInv, WalkInv, [StateNext]_stateVars PROVE WalkInv'
  OBVIOUS
<1>1. CASE MakeFields
  BY <1>1, StartWalk
<1>2. CASE \E c \in Cells : SetLayer(c)
  BY <1>2, SetLayerWalk
<1>3. CASE Settled \/ UNCHANGED stateVars
  BY <1>3 DEF Settled, stateVars, WalkInv, Raised, RaisedInterface, RaisedBottom
<1>4. CASE VerticalGrid \/ RefuseThickness \/ DzToThickness \/ RefuseSurface \/ PassH \/ Finish
  <2>1. stage' # "thickness"
    BY <1>4 DEF VerticalGrid, RefuseThickness, DzToThickness, RefuseSurface, PassH, Finish, FailState
  <2> QED BY <2>1 DEF WalkInv
<1> QED BY <1>1, <1>2, <1>3, <1>4 DEF StateNext

\* The clamp of initialize_thickness_uniform, layer by layer, finds the highest
\* interfaces there could be, for any number of layers and also where ANGSTROM
\* exceeds the thickness of a layer.
THEOREM WalkAlwaysHighest == StateSpec => []WalkIsTheHighest
<1>1. StateInit => WalkInv
  BY DEF StateInit, WalkInv
<1>2. WalkInv => WalkIsTheHighest
  BY DEF WalkInv, WalkIsTheHighest, HighestOf, Raised, RaisedInterface, RaisedBottom
<1> QED BY <1>1, <1>2, WalkStep, StateInvariance, PTL DEF StateSpec
=============================================================================
