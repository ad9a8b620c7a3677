----------------------------- MODULE SoloDriver -----------------------------
(***************************************************************************)
(* The solo driver: main constructs its parts one after the other, each of *)
(* which may throw and so end the program with a failure, and then steps   *)
(* the model, one forcing interval per pass, until the end time.           *)
(*   config_src/drivers/solo_driver/MOM_driver.cpp       main              *)
(*   config_src/drivers/solo_driver/MOM_run_control.cpp  calendar and end  *)
(*   config_src/drivers/solo_driver/MOM_surface_forcing.cpp  the winds     *)
(*   src/core/MOM.cpp                                    Model             *)
(* A parameter is chosen when it is first read: the parameter files are    *)
(* any files that RuntimeParams accepts, and reading a parameter again     *)
(* gives the same value (RuntimeParams!RereadsSame).                       *)
(***************************************************************************)
EXTENDS TimeManager

CONSTANTS
    DTs,          \* DT: the longest dynamics step, in ticks
    ForcingDTs,   \* DT_FORCING, in ticks
    EndTimes,     \* DAYMAX * TIMEUNIT, in ticks
    StartTimes,   \* the start time of ocean_solo_nml, in seconds
    IntMax        \* bound: the largest C int (2^31 - 1 in the builds)

ASSUME DriverAssumption ==
    /\ DTs \subseteq Int
    /\ ForcingDTs \subseteq Int
    /\ EndTimes \subseteq Int
    /\ StartTimes \subseteq Nat
    /\ IntMax \in Nat
    /\ IntMax > 0

VARIABLES
    phase,       \* the next thing main does
    split,       \* Config::split
    altSplit,    \* Config::use_alt_split
    useRK2,      \* Config::use_RK2
    dt,          \* Config::dt, in ticks
    winds,       \* SurfaceForcing::variable_winds_
    windConfig,  \* SurfaceForcing::wind_config_
    firstCall,   \* SurfaceForcing::first_call_
    forced,      \* history: the time the forcing was last computed for
    start,       \* RunStart::start_time
    step,        \* RunControl::time_step_ocean, in seconds
    timeEnd,     \* RunControl::time_end
    time,        \* main's clock
    nMax, n      \* Model::step: the number of dynamics steps, and the next one

config == <<split, altSplit, useRK2, dt>>
forcing == <<winds, windConfig, firstCall, forced>>
control == <<start, step, timeEnd>>
clock == <<time>>
substep == <<nMax, n>>
vars == <<phase, config, forcing, control, clock, substep>>

NotForced == -1

\* WIND_CONFIG: the winds that are implemented, and for the rest its default and
\* a name that is not known.
WindConfigs == {"2gyre", "zero", "unknown"}

\* The constructions of main and of Model's members, in the order they happen.
Setup == {"infra", "directories", "parameters", "calendar", "switches", "domain", "grid",
          "vertical_grid", "state", "dynamics", "surface_forcing", "waves", "run_control"}
Looping == {"loop", "substeps"}

Init ==
    /\ phase = "infra"
    /\ split = TRUE /\ altSplit = FALSE /\ useRK2 = FALSE /\ dt = 0
    /\ winds = TRUE /\ windConfig = "zero" /\ firstCall = TRUE /\ forced = NotForced
    /\ start = 0 /\ step = 0 /\ timeEnd = 0
    /\ time = 0
    /\ nMax = 0 /\ n = 0

(***************************************************************************)
(* Construction.  Continue is the normal end of a constructor, Fail its    *)
(* logger::fatal or an exception: main's handlers return EXIT_FAILURE.     *)
(***************************************************************************)
Fail ==
    /\ phase' = "failed"
    /\ UNCHANGED <<config, forcing, control, clock, substep>>

\* A construction whose own state is not modelled here: it succeeds or throws.
Construct(this, next) ==
    /\ phase = this
    /\ \/ phase' = next /\ UNCHANGED <<config, forcing, control, clock, substep>>
       \/ Fail

StartInfra == Construct("infra", "directories")
ReadDirectories == Construct("directories", "parameters")
ReadParameterFiles == Construct("parameters", "calendar")
MakeDomain == Construct("domain", "grid")
MakeGrid == Construct("grid", "vertical_grid")
MakeVerticalGrid == Construct("vertical_grid", "state")
MakeState == Construct("state", "dynamics")

\* read_ocean_solo_nml: no run length (only its sum is looked at), no restart
\* file, a known calendar, and at most six date values.
ReadOceanSoloNml ==
    /\ phase = "calendar"
    /\ \/ \E months, days \in {-1, 0, 1}, solo_res, known, sixValues \in BOOLEAN, date \in StartTimes :
              IF sixValues /\ months + days <= 0 /\ ~solo_res /\ known
              THEN /\ phase' = "switches"
                   /\ start' = date
                   /\ UNCHANGED <<config, forcing, step, timeEnd, clock, substep>>
              ELSE Fail
       \/ Fail

\* Model::read_config_switches.  SPLIT_RK2B is read in any case, USE_RK2 only
\* when SPLIT is false.
ReadConfigSwitches ==
    /\ phase = "switches"
    /\ \/ \E s, alt, rk2, fpmix, thermodynamics, diabaticFirst, adiabatic \in BOOLEAN, d \in DTs :
              /\ s => ~rk2
              /\ IF (fpmix /\ ~s) \/ thermodynamics \/ diabaticFirst \/ ~adiabatic
                 THEN Fail
                 ELSE /\ phase' = "domain"
                      /\ split' = s /\ altSplit' = alt /\ useRK2' = rk2 /\ dt' = d
                      /\ UNCHANGED <<forcing, control, clock, substep>>
       \/ Fail

\* The unsplit RK2 scheme is the only one: the four-way dispatch of
\* initialize_dynamics and of step.
SchemeImplemented == ~(split /\ altSplit) /\ ~split /\ useRK2

\* Mutant of InitializeDynamics: the last branch of the dispatch does not stop.
InitializeDynamicsAllowsRK3 ==
    /\ phase = "dynamics"
    /\ IF split THEN Fail
       ELSE phase' = "surface_forcing" /\ UNCHANGED <<config, forcing, control, clock, substep>>

InitializeDynamics ==
    /\ phase = "dynamics"
    /\ IF SchemeImplemented
       THEN phase' = "surface_forcing" /\ UNCHANGED <<config, forcing, control, clock, substep>>
       ELSE Fail

\* Mutant of MakeSurfaceForcing: WIND_CONFIG may be left at its default.
MakeSurfaceForcingTakesZero ==
    /\ phase = "surface_forcing"
    /\ \E variable \in BOOLEAN, wind \in WindConfigs :
           IF wind # "unknown"
           THEN /\ phase' = "waves"
                /\ winds' = variable /\ windConfig' = wind
                /\ UNCHANGED <<config, firstCall, forced, control, clock, substep>>
           ELSE Fail

\* SurfaceForcing's constructor: the 2-gyre winds are the only ones, and every
\* other option it reads is refused unless it is off.
MakeSurfaceForcing ==
    /\ phase = "surface_forcing"
    /\ \/ \E variable, buoyZero, optionsOff \in BOOLEAN, wind \in WindConfigs :
              IF wind = "2gyre" /\ buoyZero /\ optionsOff
              THEN /\ phase' = "waves"
                   /\ winds' = variable /\ windConfig' = wind
                   /\ UNCHANGED <<config, firstCall, forced, control, clock, substep>>
              ELSE Fail
       \/ Fail

RefuseWaves == Construct("waves", "run_control")

\* Mutant of ForcingStepAllowed: the elapsed-time check is gone.
ForcingStepPositive(d) == d > 0

\* The time step of the main loop: DT_FORCING must be positive and a whole
\* number of seconds.
ForcingStepAllowed(d) == d > 0 /\ TimeToReal(RealToTime(d)) = d

\* read_run_control, and main's start of the loop with make_mech_forcing.
\* DT_FORCING defaults to DT.
ReadRunControl ==
    /\ phase = "run_control"
    /\ \/ \E d \in ForcingDTs \cup {dt}, end \in EndTimes, unitPositive, singleCall \in BOOLEAN :
              IF ForcingStepAllowed(d) /\ unitPositive /\ singleCall /\ start < RealToTime(end)
              THEN /\ phase' = "loop"
                   /\ step' = RealToTime(d)
                   /\ timeEnd' = RealToTime(end)
                   /\ time' = start
                   /\ UNCHANGED <<config, forcing, start, substep>>
              ELSE Fail
       \/ Fail

(***************************************************************************)
(* The main loop.                                                          *)
(***************************************************************************)
\* Mutant of WindsDue: the first call no longer counts.
WindsDueOnlyVariable == winds

WindsDue == winds \/ firstCall

\* static_cast<int> of a real: undefined out of range.  The builds give the
\* smallest int (x86) or saturate (ARM).
CastToInt(v) == IF v \in -IntMax - 1 .. IntMax THEN {v} ELSE {-IntMax - 1, IntMax}

\* ceil(interval/d - 0.001) for d # 0, in integers.
CeilSteps(interval, d) ==
    IF d > 0 THEN -((d - 1000 * interval) \div (1000 * d))
             ELSE -((1000 * interval + (-d)) \div (1000 * (-d)))

\* Mutant of StepCounts: the division is rounded down.
StepCountsFloor(interval, d) ==
    IF interval <= d THEN {1}
    ELSE IF d = 0 THEN {-IntMax - 1, IntMax}
    ELSE CastToInt(interval \div d)

\* Model::step's n_max: any of the values the build may compute.
StepCounts(interval, d) ==
    IF interval <= d THEN {1}
    ELSE IF d = 0 THEN {-IntMax - 1, IntMax}
    ELSE CastToInt(CeilSteps(interval, d))

\* Mutant of LoopGoesOn: one pass too many when the run length is a multiple
\* of the step.
LoopGoesOnAtEnd == time <= timeEnd

LoopGoesOn == time < timeEnd

\* One pass begins: set_forcing, whose dispatch stops on winds that are not
\* implemented, then Model::step computes n_max.
SetForcing ==
    /\ phase = "loop"
    /\ LoopGoesOn
    /\ IF WindsDue /\ windConfig # "2gyre" THEN Fail
       ELSE /\ phase' = "substeps"
            /\ forced' = IF WindsDue THEN time ELSE forced
            /\ firstCall' = FALSE
            /\ nMax' \in StepCounts(TimeToReal(step), dt)
            /\ n' = 1
            /\ UNCHANGED <<config, winds, windConfig, control, clock>>

\* ++n on an int: past the largest one it is undefined.  The builds wrap the
\* counter, or drop the loop (its body is empty for the one scheme there is),
\* which leaves it as a counter with no bound would.
Successors(i) == IF i = IntMax THEN {-IntMax - 1, IntMax + 1} ELSE {i + 1}

\* One dynamics step, whose dispatch stops on a scheme that is not implemented.
DynamicsStep ==
    /\ phase = "substeps"
    /\ n <= nMax
    /\ IF SchemeImplemented
       THEN n' \in Successors(n) /\ UNCHANGED <<phase, config, forcing, control, clock, nMax>>
       ELSE Fail

\* Model::step returns and main advances its clock.
AdvanceClock ==
    /\ phase = "substeps"
    /\ n > nMax
    /\ phase' = "loop"
    /\ time' = time + step
    /\ UNCHANGED <<config, forcing, control, substep>>

EndRun ==
    /\ phase = "loop"
    /\ ~LoopGoesOn
    /\ phase' = "done"
    /\ UNCHANGED <<config, forcing, control, clock, substep>>

\* main has returned.
Exited == phase \in {"done", "failed"} /\ UNCHANGED vars

Next ==
    \/ StartInfra \/ ReadDirectories \/ ReadParameterFiles \/ ReadOceanSoloNml
    \/ ReadConfigSwitches \/ MakeDomain \/ MakeGrid \/ MakeVerticalGrid \/ MakeState
    \/ InitializeDynamics \/ MakeSurfaceForcing \/ RefuseWaves \/ ReadRunControl
    \/ SetForcing \/ DynamicsStep \/ AdvanceClock \/ EndRun
    \/ Exited

\* The program is one thread that nothing blocks.
Spec == Init /\ [][Next]_vars /\ WF_vars(Next)

-----------------------------------------------------------------------------
(* The type of every variable of the driver.                               *)
DriverTypeOK ==
    /\ phase \in Setup \cup Looping \cup {"done", "failed"}
    /\ split \in BOOLEAN /\ altSplit \in BOOLEAN /\ useRK2 \in BOOLEAN
    /\ winds \in BOOLEAN /\ windConfig \in WindConfigs /\ firstCall \in BOOLEAN
    /\ dt \in DTs \cup {0}
    /\ forced \in Int
    /\ start \in StartTimes \cup {0}
    /\ step \in Nat /\ timeEnd \in Int
    /\ time \in Nat
    /\ nMax \in -IntMax - 1 .. IntMax
    /\ n \in -IntMax - 1 .. IntMax + 1

(* A configuration that the model cannot run is refused while it is being  *)
(* set up: once the loop has begun nothing in it stops the program, so no  *)
(* run dies halfway on an option.  The dispatches of Model::step (on the   *)
(* scheme) and of set_forcing (on the winds, MOM_surface_forcing.cpp:177)  *)
(* each have a fatal branch for what the constructors should have refused. *)
NoFailureInTheLoop == [][(phase \in Looping) => phase' # "failed"]_vars

(* Every dynamics step sees forcing that was computed: for its own time    *)
(* when the winds vary, and for the start of the run when they do not      *)
(* (variable_winds_ and first_call_ of set_forcing).                       *)
ForcingIsCurrent ==
    phase = "substeps" => forced = IF winds THEN time ELSE start

(* The clock moves by whole forcing steps from the start, and the run ends *)
(* in the first one that reaches the end time: never before it, and never  *)
(* a whole step after it.                                                  *)
RunEndsAtFirstStepPastEnd ==
    /\ phase = "substeps" => time < timeEnd
    /\ phase = "done" => timeEnd <= time /\ time < timeEnd + step

(* Of the equal steps Model::step cuts an interval into, none exceeds DT   *)
(* by more than a thousandth, and no smaller number would do, whenever DT  *)
(* is positive and the number of steps fits an int.                        *)
StepsFitDT ==
    phase = "substeps" /\ dt > 0 /\ CeilSteps(TimeToReal(step), dt) <= IntMax =>
        /\ 1000 * TimeToReal(step) <= (1000 * nMax + 1) * dt
        /\ nMax > 1 => 1000 * TimeToReal(step) > (1000 * (nMax - 1) + 1) * dt

(* Every run ends, since the forcing step is at least a second, except one *)
(* that takes n_max = INT_MAX dynamics steps: n <= n_max of MOM.cpp:36 then *)
(* holds of every int, and only the undefined overflow of ++n can end it.  *)
(* A DT of zero, or one too small for the interval, comes to that where    *)
(* the conversion of the number of steps to int saturates.                 *)
RunEnds ==
    \/ <>(phase \in {"done", "failed"})
    \/ <>(phase = "substeps" /\ nMax = IntMax)
=============================================================================
