# A TLA+ verification of protoMOMxx

protoMOMxx is a C++ ocean model in the making: the MOM6 dynamical core ported to
AMReX (through the TIM infrastructure layer), with a driver, a parameter system, a
grid, an initial state, and the kernels of the dynamical core called through
bridges. This directory holds TLA+ specifications of what in it has control worth
checking, TLC models of them, and proofs that TLAPS checks. Every definition is
translated from the code under `src/`; `PROJECT.json` names the lines each stands for.

    tlc -workers 2 -config MCFileParser.cfg MCFileParser     # model-check
    tlapm FileParserProofs.tla                               # check the proofs

## 1. The system

| Component | Keeps | Does | Hard because | Correct when |
|---|---|---|---|---|
| Parameter-file parser, `MOM_file_parser`, `MOM_param_table` | one table of bindings by block and key; per file, the open block and the open comment | reads files line by line; `#define`, `#override`, `#undef`, `KEY%`, `%KEY`, `KEY =` | directives in any order over several files; what a line means depends on lines and files before it | the table is the outcome of the bindings in order; a value is forced on nothing that was not given; only directives change a value |
| Namelist parser, `MOM_nml_parser` | the same table, without case; the assignment that is still being continued | joins continued lines, flushes at delimiters | what the items at the start of a line are, a value or part of a name, depends on how the lines before it ended | the table says what the text says, by a rule of layout that can be told without the code |
| Reads of parameters, `RuntimeParams` in `MOM_file_parser` | the open block, which the documentation writer keeps too | `get`, `open_block`, `close_block`, `doc_module`, `close_module` | one block kept by two objects, one of which can be switched off | both name the same block; a parameter read twice reads the same |
| Documentation writer, `MOM_document` | up to four output files, block, module, what has been documented | writes each parameter once to the enabled files that want it | files that cannot be opened, disks that fill, lines that are not flushed, parameters described twice | nothing is lost in silence or written twice |
| Time manager, `MOM_time_manager` | – | days and seconds to integer time and back | rounding, negative times, overflow | nearest second |
| Solo driver, run control, `Model` | time, step counter, time of the forcing, stage of construction | constructs, loops, sets the forcing, steps | three periods that need not divide each other; every value comes from a file | the forcing is current at each step, steps fit the time step, the run ends and fails only before it starts |
| Domain and grid masks, `MOM_domains`, `MOM_grid_initialize` | depth and masks on each rank, with halos | limits depth, sets masks, exchanges halos | ranks at different places; a mask reads cells another rank owns | the answer does not depend on the decomposition |
| Vertical grid and initial state, `MOM_vertical_grid`, `MOM_state_initialization` | layer interfaces and thicknesses | walks up each column from the bottom | layers squeezed by the bottom topography, the minimum thickness | no vanished layer, columns fill the ocean |
| Continuity, Coriolis, horizontal viscosity, vertical friction, interface heights: `mom_kernels/` | scratch arrays over boxes with margins | `ParallelFor` loops in sequence | a box one cell too small; a race on a GPU; scratch set under one option and read under another; the same code written twice, for u and for v | reads hold values, cells do not race, results come from the arguments, halos suffice, the answer rotates with the grid |
| Flux adjustment, in `mom_continuity_ppm.cpp` | per face: correction, its limits, transports, error, whether to go on | Newton steps safeguarded by bisection | stopping conditions, limits that tighten, an iteration left out must not leave stale transports | the root stays between the limits, the returned transport belongs to the returned correction |
| Vertical friction of a column, in `mom_vert_friction.cpp` | per column: velocity, one coefficient array that every solve reuses | wind, tridiagonal solves, tendencies, truncation | three solves take turns with the same scratch; the wind ends within a layer; the truncation is written twice | the solves solve, momentum and energy balance, what is left is within the limit |
| Bridges, `turbotmp_mom_*_bridge.cpp` | a device array for each array of the host | copy in whole, call, copy back whole, free | whole allocations are copied back, also where no loop wrote, and arrays that may be missing | the host finds its results, and everything else as it was |
| Containers: grid, state, forcing types; directories; logger; TIM and AMReX | | | | |

The driver owns everything. `main` reads the namelist `ocean_solo_nml` with the
namelist parser, reads the parameter files with the parameter-file parser, and hands the
resulting `RuntimeParams` to one constructor after the other: domain, grid, vertical grid, state,
forcing, model. Each opens a documentation module, reads its parameters, and may
refuse. Then the loop sets the forcing and steps the model until the end time.
Nothing runs concurrently in the driver; the concurrency of the system is in the
ranks (domain), and in the loop bodies (kernels). Nothing is persisted: there are no restart files
at this commit, so there is no recovery to model.

`Model::step` does not yet call the kernels, so the kernels are modelled as what
they are, functions called from tests and from the Fortran model through the
bridges, and not composed with the driver.

## 2. Modules

    ParamTable -- FileParser -- MCFileParser          FileParserProofs
               \- NmlParser -- MCNmlParser            NmlParserProofs
    DocFileWriter -- MCDocFileWriter
               \- RuntimeParams -- MCRuntimeParams    RuntimeParamsProofs
    TimeManager -- SoloDriver -- MCSoloDriver         ModelProofs
    GridMasks -- MCGridMasks                          GridMasksProofs
    InitialState -- MCInitialState                    ModelProofs too
    KernelLoops -- ContinuityLoops -\
               \-- CoriolisLoops   --\
               \-- HorViscLoops    --- KernelBridges -- KernelCalls -- MCKernelCalls
               \-- VertFricLoops   -/                 KernelProofs -- KernelValuesProofs
    FluxAdjust -- MCFluxAdjust                        ColumnProofs
    Fractions -- ViscousColumn -- MCViscousColumn     ColumnProofs too

**ParamTable, FileParser.** `ParamTable` is the table and its two operations, `insert` and `has_param`.
`FileParser` is the constructor of `RuntimeParams` over a list of files. State: the table, the file and the
lines read, `currBlock`, `inComment`, the error. One action per kind of line (`ReadBlank`, `ReadMalformed`,
`ReadOpenBlock`, `ReadCloseBlock`, `ReadAssign`, `ReadDefine`, `ReadOverride`, `ReadUndef`), and `OpenFile`,
`FileUnreadable`, `EndOfFile`. A line is a statement with the comment delimiters around it; what the code tells apart by its
spelling (tokens, quotes, comments within a line) is the kind of statement it amounts to. A value is
`True`, `False` or another. History variables keep what was assigned, what was forced, and by which file.

**NmlParser.** The constructor of `NamelistParams`: opening and closing of namelists, texts with assignments and
items (a line may go on with a value and then assign, as `2, B = 3`), the accumulation of a text that ends in a comma or with a
quotation open, its flush at the next assignment or delimiter, one insertion at a time, all refusals. Names are compared in lower case.
History variables keep the assignments of the text by the layout of its lines alone, of which they know only how the last
assignment ended and the items that have belonged to none since. The rule they state: items at the start of a line go to the
assignment before where that ended in a comma and the line assigns nothing itself, or closes the namelist; else they become part of
the name that follows them on the line (`Glued`), and are lost where none does.

**DocFileWriter.** `DocFileWriter`'s public calls, one action each: `DocParam`, `DocModule`, `CloseModule`, `OpenBlock`,
`CloseBlock`, `Close`; and the environment's `DiskFull`. The constructor enables some of the four files. The first call that writes
opens those; any of them may fail to open, and the disk under one may fill up. `seen` is what a reader would find of all that the stream was
given, `onDisk` what of it has reached the disk: a line with a description is flushed, one without is only checked, and stays in the buffer
until that overflows, a later line is flushed, or `close` (`Flushes`, `MOM_document.cpp:264`). `bad` is what the stream has noticed.

**RuntimeParams.** Extends the writer with `get` (required, default, do_not_read, do_not_log, and the type asked for),
`open_block`, `close_block`, `doc_module`, `close_module`. `currentBlock` decides what is looked up, the writer's
`block` what is documented.

**TimeManager, SoloDriver.** `RealToTime` and `TimeToReal` in exact arithmetic on thousandths of
a second. The driver has one action per construction of `main`, in its order, each of which succeeds or throws, and in the
loop `SetForcing` (with the dispatch on the winds), `DynamicsStep` (with that on the scheme), `AdvanceClock`, `EndRun`. The
conversion of the number of steps to an `int` is out of range above `IntMax`, and may then give any value the build can; so may the
increment of the step counter at `IntMax`, which wraps or lets the loop end (`Successors`).

**GridMasks.** Every rank limits its depths, exchanges halos, and sets and exchanges its masks; ranks interleave, and one may run
ahead of another between two exchanges. State: the step each rank is at, and per box its arrays with their halos, unset
memory included. The exchange is external: a halo cell takes the value of the box that owns it, across the seam where the domain is
reentrant, and is left alone beyond a closed edge.

**InitialState.** The bounds that the `VerticalGrid` constructor checks, and `make_state` stage by stage: allocation, the walk of
`initialize_thickness_uniform` up each column, the conversion to `h`, the halo exchange, the velocities. A halo cell repeats
a cell of the domain or lies beyond a closed boundary.

**KernelLoops.** What a `ParallelFor` does to memory: a box (as margins around the core box, so that no grid
size appears), and the arrays its body reads at which offsets and writes. A value is
abstracted to its provenance, the argument cells it was computed from. Memory is a list of layers per array: which
box was written, with values from where.

**ContinuityLoops, CoriolisLoops.** The functions of `mom_continuity_ppm.cpp` and of
`mom_coriolisadv.cpp` as sequences of such loops, under all schemes and options. One definition per function, with
the code's names.

**HorViscLoops.** `horizontal_viscosity_tr` of `mom_hor_visc.cpp`: strain, Leith gradients, viscosities at thickness points and
at corners, stress divergence, work, sources for MEKE. `on` holds the switches that are set and the optional fields that are allocated,
`given` the diagnostics that are wanted. The steps that the code repeats for cells and for corners (`KhSteps`, `AhFromStrain`,
`AhToBound`) are one definition, given the place its coefficients live at and the offsets it averages over. One block of layers is
a call: scratch is unset when it starts, which is stronger than what later blocks meet. `OptionsGoTogether` lists the
combinations without which the function reads scratch nobody set or leaves a diagnostic as it was; nothing under `src/` checks
them. The two smoothers and the barotropic strain are calls of their own.

**VertFricLoops.** The functions of `mom_vert_friction.cpp` that the bridges call, `vertvisc_tr`, `vertvisc_coef_tr`,
`vertvisc_remnant_tr`, `vertvisc_limit_vel` and `vertfpmix_tr`, as such sequences, with the scratch they hand from one solve to
the next; and `thickness_to_dz_3d` of the interface heights. `ReportsTogether`, `CoefTogether` and `FrictionTogether` are the
arguments that have to come together.

**KernelBridges.** For each bridge, which arrays of the host it passes, and which it copies back. An array that may be
missing on the host is passed only when it is there.

**KernelCalls.** Runs a call through its bridge: `CopyIn`, the loops one by one, `CopyBack`, after which the device is
freed and `returned` is what the host finds. Beside the call runs the same call on the transposed grid, so that
the results can be compared. One tile of layers is modelled: scratch is unset when it starts, which is stronger than what
later tiles meet.

**Fractions, ViscousColumn.** Exact fractions, and with them one column of faces through `vertvisc_tr` or
`vertvisc_remnant_tr`, layer by layer: the wind as a body force (`ApplyBodyForce`) or at the surface, elimination and back
substitution of each system in turn (`EliminateTop`, `Eliminate`, `BackSubstitute`), GL90's tendency and work, the
diagnostics, the Rayleigh drag, the truncation. The time step is the unit of time. The column is one at the ocean, and
every diagnostic is asked for.

**FluxAdjust.** `zonal_flux_adjust` and `meridional_flux_adjust` of one face each, iteration by
iteration, side by side. Velocities are integers in units of rounding. The transport is a function of the
correction; its derivative is not kept: Newton's step is any of `Steps` that goes against the error.

## 3. What TLC checks

| Run | Module | Question | Bounds |
|---|---|---|---|
| `parser` | MCFileParser | does the table replay the lines read; is what is forced something that was given; do only directives rebind | 2 files of up to 3 lines, one key inside or outside one block, three values |
| `parser_later` | MCFileParser | *violated*: later files override earlier ones | 2 files of up to 4 lines |
| `namelist` | MCNmlParser | does the table say what the text says, however it is cut into lines | 4 lines, a namelist and a variable in two spellings, a second variable, the name it has with an item before it, items of two types |
| `doc_writer` | MCDocFileWriter | is the writer's block the caller's, is a parameter written once, is nothing lost in silence, is `short` contained in `all` | with a base name and without, all files enabled, only `.all` and `.short`, or only `.short` and `.debugging`; one block, module and parameter, with a description or without, with a default or without, plain or both layout and debugging, a disk that fills |
| `runtime_params` | MCRuntimeParams | do reads and documentation agree on the block; do the files written read back as what was used | one block, module and parameter, plain or of the layout, asked for as two types, a disk that fills |
| `driver` | MCSoloDriver | is the forcing current; do steps fit DT; does the run stop at the first step past the end; can the loop fail; does the run end | DT in {-0.7, 0, 0.001, 0.7, 1, 1.999, 3} s, DT_FORCING in {-1, 0, 0.4, 1.5, 2, 3} s, ends in {-0.5, 1, 3.5, 5} s, starts 0 and 2 s, `IntMax` 8 |
| `grid` | MCGridMasks | do depths and masks depend on the layout; is ocean as deep as was asked | 3 by 2 cells in two boxes of different width, halo 1, all connectivities, two raw depths, masking depth given or not, all interleavings |
| `state` | MCInitialState | is the walk the highest possible; do the layers fill the column; does a layer vanish | 3 layers of nominal thickness -1..2, Angstroms -1..3, depths 0..6, two cells and two kinds of halo cell |
| `kernels` | MCKernelCalls | the seven properties of 4.5 | every scheme; PPM with every sensible combination of its optional arrays, the others with all or none; Coriolis with all its options on or off; twelve option sets of horizontal viscosity, in which each term meets those it shares scratch with; the smoothers and the barotropic strain; the five functions of vertical friction under sets of options in which each branch is taken; interface heights; all through their bridges; both memories, with and without diagnostics; the halo as narrow as each allows |
| `smoothing` | MCKernelCalls | *violated*: the nine-point smoother is rotationally symmetric | both memories |
| `flux_adjust` | MCFluxAdjust | the four properties of 4.6 | 4 iterations, every nondecreasing transport of three values over 7 or 9 corrections, targets in and out of its range, steps of one, two and more than any bracket |
| `viscous_column` | MCViscousColumn | do the solves solve, is the remnant a share, does the momentum budget close, does GL90 dissipate, are velocities limited | 3 layers of thickness 1 or 3 in every order, couplings absent, 1 or 4 times a unit of thickness, two couplings of GL90, three drags, two velocities, wind at the surface or over a depth that ends within a layer, at an interface or below the bottom |

Why the bounds are enough. In the parser a line meets at most one earlier binding of its
key, the block and the comment that are open, and the end of its file; three lines in each of two files have all of
these on either side of the boundary. A documented parameter meets one earlier mention of itself, and the flags that route its lines
against those that route its block's markers; one of each does, with two messages that differ. The driver's properties relate two
periods and an end: the sets have pairs that divide each other and pairs that do not, zero and negative values, halves, and a step so
short that its count overflows. A mask reads a cell and its neighbours; the two boxes have
inner edges, seams, closed edges, and a corner halo that wraps twice. `make_state` sets a
layer from the one below it; three have a bottom, a middle and a top. A kernel's run does not depend on the size of the
grid, for boxes are margins; `KernelProofs` proves that this is enough. Four iterations of the
adjustment have its three early tolerances and the last one, and the proofs are for any number. A column of three layers has
a top, a bottom, and a layer that takes a coefficient from above and gives one below; the three solves then each overwrite
what the one before left.

No run checks the type invariants but `GridTypeOK`: those of the modules with proofs are theorems, and the others are
implied by what the runs evaluate.

**Fairness.** Only `RunEnds` is a liveness property. The driver is one thread that waits for nothing, so that
`WF_vars(Next)` is exactly that the machine goes on executing it. The other specifications state no fairness and no liveness: a run
that stops, stops.

**Stopping.** Deadlock is checked in every run but the parser's and the column's, where a constructor that is done or has thrown, and a
column that is done, do nothing more. The other modules say what ends (the program exits, a call has returned) with a step of its own.

## 4. What holds

### 4.1 Parameters
- `TableIsReplay`: each slot has the last value forced on it, or else the one value on which all plain assignments, in whatever file and order, agree.
- `ForcedWasGiven`: what a directive forced had been given before; no parameter comes to exist by `#override` alone.
- `OnlyDirectivesRebind`: no line takes a value away, and only a directive changes one.
- `TextIsTable`: a namelist file that was read to its end has exactly the assignments of its text in the table, whatever was deferred, flushed or joined on the way: each in its namelist, with all its items and under the name that the layout of the lines gives it, the first value of a variable standing. Where lines break does make a difference, by the rule of section 2: after `A = 1,` the line `2, B = 3` is neither A's nor B's, but files 3 under `2, b`.

### 4.2 Documentation
- `BlockIsTheCallers`: whatever is opened, closed, refused or lost, the block the writer documents under is the one its caller has open, unless documentation is off or a call has failed.
- `WrittenOnce`: reading a file back meets a parameter at most once, with the text it was first documented by.
- `NoSilentLoss`: unless a call reported an I/O failure, each documented parameter has its line in every enabled file it belongs to (layout, debugging, or `.all`): on the disk when the call returns if it has a description, else at the latest when the file has been closed. Until then an undescribed line may still be lost, and the next flush or `close` reports it. A parameter whose files are all disabled is counted as documented and written nowhere, as the constructor was asked to.
- `ShortInAll`: where both are enabled, the short file is given nothing the complete one is not.
- `BlocksAgree`: what is looked up under a block is documented under that block.
- `RereadsSame`: read as parameter files, `.all` and `.short` give the values of the run. It needs modules without layout, debugging and all-default flags: block markers follow the module's flags and lines the parameter's.

### 4.3 Driver
- `ForcingIsCurrent`: a dynamics step sees the forcing of its own time when winds vary, else that of the start.
- `StepsFitDT`: the equal steps an interval is cut into are as long as DT allows, to a thousandth, and no longer.
- `RunEndsAtFirstStepPastEnd`, `RunEnds`: the run ends, in the first forcing step that reaches the end time. `RunEnds` makes no claim of a run that comes to INT_MAX dynamics steps in an interval: `n <= n_max` then always holds, and `++n` overflows, which has no meaning (section 6).
- `NoFailureInTheLoop`: every configuration the model cannot run is refused during construction; neither the dispatch of `set_forcing` on WIND_CONFIG nor that of `Model::step` on the scheme comes to its fatal branch. It has a mutant of either constructor.

### 4.4 Grid and state
- `LayoutIndependent`: every rank ends with the depths and masks of the uncut domain on every point it holds, halo included.
- `OceanDepthInBounds`: ocean is between the minimum and the maximum depth, whatever the masking depth is.
- `WalkIsTheHighest`, `LayersFillTheColumn`: the local clamp of the walk adds up to the highest interfaces that leave an Angstrom to each layer below, and the thicknesses to the depth of a column that has room for them.
- `NoVanishedLayer`: no layer is thinner than an Angstrom, in halo cells beyond a boundary too.

### 4.5 Kernels
- `ReadsHoldValues`: a loop reads only cells that are allocated and were set by the caller or an earlier loop.
- `CellsDoNotRace`: no body reads at another cell an array that the same loop writes.
- `ResultsAreFresh`: every output is set where it is needed, and depends on nothing an output array held before.
- `DependsWithinStencil`: the halo that the stencil functions ask for suffices; for horizontal viscosity two points, three with a Leith scheme.
- `ResultsKeepApart`: results found one after the other in the same scratch keep no trace of each other: the face areas none of the transport that was corrected to before, GL90's tendency and coefficients none of the wind and the other viscosities, the acceleration by the wind none of the velocity.
- `HostKeepsTheRest`: what is copied back whole holds a value in every cell, and every array that is no result what the host had put there.
- `RotationInvariant`: transposing the grid transposes the provenance of every result.

### 4.6 Flux adjustment
- `DuWithinLimits`: whatever Newton's method proposes, the correction stays within its CFL limits.
- `RootStaysBracketed`: a face still being worked on has the target between the transports at the ends of its bracket, if it was between those at the limits.
- `TransportIsCurrent`: the transports handed back are those of the correction handed back, up to a negligible step.
- `DirectionsAgree`: though the mask covers different statements in the two functions, they find the same.

### 4.7 Vertical friction of a column
- `SolvesTheSystem`: elimination and back substitution give the solution of the implicit equations, for the velocity, the wind's share of it, GL90's part and the remnant, though they take turns with one coefficient array.
- `RemnantWithinUnit`: the remnant of a barotropic acceleration is between nothing and all of it.
- `MomentumBudgetCloses`: the column gains what the wind puts in less the bottom stress that is reported; a body force puts in all of the wind, or the share of the mixing depth that the column has.
- `Gl90OnlyDissipates`: GL90 moves momentum between layers and never adds energy.
- `VelocityIsLimited`: no velocity is left above the limit, and the truncation that reports leaves the same as the one that does not.

## 5. What is proved

For every value of the constants that satisfies the named assumptions:

| Module | Theorems | Inductive invariant |
|---|---|---|
| FileParserProofs | `TypeCorrect`, `ReplayCorrect`, `ForcedWasAlwaysGiven`, `OnlyDirectivesEverRebind` | types, the file number in range, and the two invariants together: a forced slot is replaced by another directive only if it is known to be bound, and the replay of an assignment needs the types of the history |
| NmlParserProofs | `ReaderIsTyped`, `TableIsTheText` | `Replayed`: the assignments of the text are those in the table, then those still to be inserted, then those deferred, in this order; something is deferred exactly when the last assignment ended in a comma, and the items that stand in the accumulated line without an assignment are those that the history knows to be loose. A line changes what is accumulated as the layout rule says (`AccumulatedText`), it splits in what is inserted and what stays (`SplitReplays`), and an insertion moves one assignment from the second part to the first |
| RuntimeParamsProofs | of the writer: `WriterIsTyped`, `WriterFollowsCaller`, `WrittenOnceAlways`, `NothingLostInSilence`, `ShortAlwaysInAll`; with the reader: `ReadsAreDocumented`, `BlocksAgreeAlways`, `RereadsAlwaysSame` | `WriterInv`: until a failure is reported no stream has noticed one and all enabled files are open once one is (`WholeStreams`), which is what gives every line its destinations; what the streams were given is documented, and the disk has nothing else (`WrittenInv`). Each step leaves the disk with what it had of a file or with all that was given, and with all where it closes the stream (`DiskMovesOfStep`); it keeps the lines of all files or adds one to its destinations (`LinesOfStep`); the properties of the files follow. For `BlocksAgreeAlways`: with a base name, files that are not open were tried and reported; without that the writer's `open_block` could silently do nothing while the reader's does not. For `RereadsAlwaysSame` (of calls that flag no module, `PlainCalls`): every marker goes to both files, so that the block a file's reader is in is the writer's (`ReadInBlock`) |
| ModelProofs | of the driver: `DriverTypeCorrect`, `ForcingAlwaysCurrent`, `RunEndsInTime`, `StepsAlwaysFitDT`, `NoFailureOnceLooping`, `NearestSecondAlways` | past the constructor of the dynamics the scheme is one that is implemented (`SchemeChecked`), past that of the forcing the winds are (`WindsChecked`), which is why no dispatch in the loop fails; the forcing history follows `firstCall`; the clock is less than a step past the end; and the properties |
| ModelProofs | of the initial state: `StateTypeCorrect`, `NoLayerVanishes`, `ColumnsFilled`, `WalkAlwaysHighest` | the layers walked so far are thick enough and lie between the interfaces they should; the rest of the column is untouched. For `WalkAlwaysHighest`: each interface walked is the highest candidate of its layer, a layer set on top of the one below keeps that (`SetLayerWalk`), and the closed form unfolds by one layer per step, so that no induction over layers is needed |
| GridMasksProofs | `GridTypes`, `OceanDepths`, `LayoutDoesNotMatter` | `BoxLayout`, per box: each field is right on the box's own points once they are set, with one value on its halo, and right everywhere once it is exchanged; zero before. A step touches its own box only, so the invariant of the others stays. An exchange finds its neighbours as far as itself or further, and what they hold on their own points is right from then on; what it takes from them is right here because the whole grid's fields repeat where points lie over the same cell (`WholesRepeat`, `SameHome`), and a point over a cell has an owner (`Owned`) |
| KernelProofs | of loops: `WithinOnEveryGrid`, `ReadsHoldValuesOnEveryGrid`, `RaceFreeCellsDoNotMeet` | no state: they lift the comparison of margins to the cells of every grid |
| KernelProofs | of calls: `CallsKeepInv`, `NoCellRaces`, `CellsNeverMeet`, `HostKeepsItsArrays` | `CallInv`, per side: nothing is done yet; or what is left is steps of the kernel and the copying back, and every array the bridge passed has a layer over its whole allocation, only the caller's unless it is an output; or all is copied back. The steps are those of a list that fits (`AllFit`): each is a loop that reads other cells only of arrays it does not write and writes outputs and scratch arrays only, or allocates scratch arrays. `KernelFits` shows it of the text of all fifteen kernels, part by part, whatever the options; scratch arrays and passed arrays have different names (`ScratchApart`), and the transposed call is one the kernels take (`MirroredOK`) |
| KernelValuesProofs | of what values are computed from: `ClaimsLead`, `ValuesAreRead`, `ResultsComeFresh`, `StencilCovers`, `ResultsStayApart` | `ValuesInv`, per side: there are claims, of each array a box it is set on, how far its values come from, and from which arguments, that are true of the memory, and the loops that are left lead from them to claims that promise all that is asked of the outputs. A loop leads from claims to claims when its reads are within the boxes claimed, and what it writes is claimed no smaller than what it reads reaches (`StepGives`); that is a comparison of margins, so the layers of the memory need not be followed (`LoopTells`, `KnownOrigins`). Per kernel one table of claims, in terms of halo and stencil, and a lemma per function of the code that it leads from the table to the table; where scratch is used again the claims change between two functions. The margins of the claims say why the boxes of the code are as they are |
| ColumnProofs | of the flux adjustment: `FluxAdjustTypeCorrect`, `CorrectionWithinLimits`, `RootIsKept`, `TransportsAreCurrent`, `DirectionsDoNotMatter` | per face: the correction is within its bracket, the bracket within the limits, the target between the transports at its ends, and there is headroom for the next step; the two directions are alike |
| ColumnProofs | of one column of friction: `ColumnIsTyped`, `VelocityAlwaysLimited`, `RemnantAlwaysWithinUnit` | every denominator is positive, for the diagonal keeps at least the thickness of the layer (`ScratchOK`); a call takes only its own steps (`RouteOK`); with the coefficient of the layer below a layer's value adds to at most one, so that, when the layer below is final and a share, what comes back up leaves a share (`RemnantInv`) |
| ColumnProofs | of its equations: `SolvesAlways`, `BudgetAlwaysCloses`, `Gl90AlwaysDissipates` | `SolveInv`: on the way down every finished row of the eliminated system stands for the same equations as the matrix (`SweepOK`), on the way up every finished row is solved; what the shared scratch held before is the solution of the solve before (`HeldOK`), the wind given out so far is the share of `Hmix` passed (`WindSoFar`). `BudgetInv`: the tendencies diagnosed so far, and the drag as the sum so far. Rows add up to the budget because couplings within the column cancel pairwise (`GainsAddUp`) and those of GL90 end in nothing at top and bottom; the work of GL90 is minus a sum of couplings times squares (`WorkOfLayer`) |

`BlocksAgreeAlways` is for a writer that has a base name. `GridTypes` needs a halo of one cell, `LayoutDoesNotMatter` one that is also narrower
than the grid: `make_domain` accepts none at all (section 6), and past one width of the grid the model of the exchange, which shifts by one
period, ends; TLC finds it violated there. Of the flux adjustment `ColumnProofs` takes any transport and any limits around
zero, of the calls any halo, option and array that `CallOK` admits and `Consistent` lets through (for what `KernelProofs` shows only `vertvisc_coef_tr` needs the
latter: both shelf fractions or neither, and GL90's coefficients with GL90; what values are computed from depends on more of it, and on
`HalosAssumption`: halos as wide as the stencil that the kernel is said to have, which is what the properties are about), and of one column of friction any number of layers and any couplings and drags that are not negative; the flux adjustment assumes of Newton's step only that it goes against the error: the derivative it divides by, a sum of
face areas, is not negative. All other assumptions are the named ones of the modules, on types and signs of constants.

Sums over layers are folds, and a statement about every layer of a column of any height needs an induction. The library's induction theorems
take an operator, which no prover here can instantiate; `ColumnProofs` argues by the least counterexample instead
(`LeastNatural`, from the well-foundedness of strict inclusion of finite sets). All arithmetic there is about values of fractions, so that no result
depends on how far one is reduced.

Only model-checked: `RotationInvariant`, `RunEnds`, and, of `horizontal_viscosity_tr`, `ReadsHoldValues`, `ResultsAreFresh`,
`DependsWithinStencil` and `ResultsKeepApart`. The four are theorems of every run of a call of one of the other fourteen kernels (`TracedKernels`): those
of continuity, the Coriolis and momentum advection terms with every scheme, the smoothing kernels, the barotropic strain of GME, all of the vertical
friction, and the conversion to vertical distances.
`RotationInvariant` compares the exact provenance of two calls, of which claims only give a bound; the run takes every option. `CallInv` speaks of sequences over unbounded sets, and cannot be evaluated by TLC: the run checks what it implies. Out of the
prover's reach: liveness under fairness (`RunEnds`) and `ENABLED`; RECURSIVE operators, which no module proved about uses.

## 6. Where the code and its words differ

With a run: `parser_later`, `smoothing` (see `findings` in PROJECT.json).
In prose, met while modelling:

- A namelist line without an assignment after a complete one (`A = 1`, newline, `2`) is dropped in silence (`MOM_nml_parser.cpp:60`), while DESIGN.md section 9 says "No silent failures". After `A = 1,` the line `2, B = 3` loses the 2 as a value: A is flushed before it is looked at (`MOM_nml_parser.cpp:173`), all before the `=` is the name (`63`), and nothing checks that it is one (`is_valid_identifier` is asked only of names after a comma, `46`).
- "Flush after each parameter to ensure data is written promptly" (`MOM_document.cpp:339`) is not so of a parameter without a description, for which `write_message_and_desc` returns before (`MOM_document.cpp:264-267`).
- For DT = 0, or one too short for the interval, the cast to int saturates on some machines at INT_MAX (`MOM.cpp:32`); the loop over the dynamics steps then overflows its counter (`MOM.cpp:36`).
- Without a base name `open_block` returns before it records the block (`MOM_document.cpp:569`) and `close_block` throws, for it throws "if no block is open" (`MOM_document.hpp:131`).
- Of a run length only the sum of its entries is checked: negative entries cancel positive ones (`MOM_run_control.cpp:61`).
- A module's `all_default` ends at its first parameter that is not at its default (`MOM_document.cpp:385`), while `MOM_document.hpp:118` says "only write to .all file".
- `real_to_time` rounds halves below zero up (`MOM_time_manager.cpp:14`, `20-21`): half a second before midnight becomes midnight.
- The tolerance of the number of substeps lets a step exceed DT (`MOM.cpp:32`), "no longer than DT" (`MOM.hpp:41-42`). A DT of zero or less is not refused (`MOM.cpp:31`): there are no dynamics steps.
- A run ends up to one step past DAYMAX (`MOM_driver.cpp:76`, `MOM_run_control.cpp:148`).
- `make_domain` accepts NIHALO = 0 (`MOM_domains.cpp:66`), `set_masks` reads i-1 (`MOM_grid_initialize.cpp:261`).
- `u_cor` given without `uhbt` is never written, and is yet read (`mom_continuity_ppm.cpp:872-873`); `h_u` without `FA_u` is never written. `OutputsTogether` excludes both.
- With ARAKAWA_LAMB81 or AL_BLEND the accelerations read `uh(ie+1)` and `vh(je+1)` (`mom_coriolisadv.cpp:992`), which the comment on the fields to be set (`mom_coriolisadv.cpp:1684`) does not list.
- `hor_visc_q_coeffs` and `hor_visc_h_coeffs_a` set `div_xx_h`, `sh_xx_h`, `vort_xy_q` and `sh_xy_q` only with Laplacian viscosity, though nothing in them depends on it.
- The Laplacian of vorticity weighs `vort_xy_dx` by `IdyCv` and `vort_xy_dy` by `IdyCu` (`mom_hor_visc.cpp:648`); a rotated grid would take `IdxCu` for the second. The model groups a face's metrics and does not see it.
- With Stokes vortex force and no waves, `dvdx` and `dudy` are not set (`mom_coriolisadv.cpp:312`).

## 7. Not modelled, and why

- Real arithmetic: the bodies of the loops, metrics, areas, the reduced gravities. TLC has no reals, and TLAPS no useful ones. Provenance takes its place, and in one column of vertical friction exact fractions.
- The arithmetic of the coupling coefficients (`find_coupling_coef`) and of `vertfpmix_tr`: cube roots, exponentials and angles. Only their reads and writes are modelled.
- The bridges that call one inner function of a kernel for a test, and the conversion of the host's option structures.
- AMReX: streams, launches and the lifetime of temporaries; TIM's MPI exchange is external.
- Stokes drift and open boundaries: the bridges abort on them.
- Containers, directories, the logger: accessors and I/O without control.
- Horizontal viscosity with QG Leith, GME, ZB2020, smoothed Leith+E or open boundaries: the call aborts.

## 8. Plan

Done, in this order: parser, documentation, reads, driver, grid, state, kernels (continuity, Coriolis, horizontal viscosity), flux
adjustment, then vertical friction (loops and a column), interface heights and the bridges, with their proofs.

What is left, most important first:
1. `CoriolisSchemes`: energy conservation of SADOURNY75_ENERGY, ARAKAWA_HSU90 and ARAKAWA_LAMB81 as the antisymmetry of the weights by which each corner carries `vh` into `CAu` and `uh` into `CAv` (integers after multiplying by 4, 12, 24), and as a theorem.
2. `set_BT_cont`: the ordering of the barotropic face velocities it produces.
3. The bridges to inner functions, each a call of its own.
4. Proofs: claims for `horizontal_viscosity_tr`, the one kernel that is not in `TracedKernels`.
