---------------------------- MODULE InitialState ----------------------------
(***************************************************************************)
(* The model state of a new run: initialization/MOM_state_initialization,  *)
(* with the bounds that types/MOM_vertical_grid.cpp puts on the numbers it *)
(* uses.  Every cell has a column of NK layers, the first at the surface.  *)
(* Thicknesses are set column by column, from the bottom up, on the        *)
(* computational cells only, copied into the state and passed to halos.    *)
(* Heights count a unit in which a layer of uniform thickness is Layer     *)
(* units thick, so MAXIMUM_DEPTH is NK * Layer, and interface k of a flat  *)
(* column lies at -Layer * k; the rounding of reals is left out.           *)
(***************************************************************************)
EXTENDS Integers

CONSTANTS
    NK,          \* the number of layers
    Layers,      \* MAXIMUM_DEPTH / NK, as read
    Angstroms,   \* ANGSTROM, as read
    Depths,      \* what bathyT may hold in a computational cell
    Cells,       \* the computational cells
    Halo,        \* the halo cells
    Beyond,      \* "no cell": a halo cell outside a closed boundary
    From         \* the computational cell a halo cell repeats, or Beyond

ASSUME StateAssumption ==
    /\ NK \in Nat /\ NK > 0
    /\ Layers \subseteq Int /\ Angstroms \subseteq Int /\ Depths \subseteq Int
    /\ Cells \cap Halo = {}
    /\ Beyond \notin Cells
    /\ From \in [Halo -> Cells \cup {Beyond}]

VARIABLES
    stage,      \* how far make_state is
    layer,      \* MAXIMUM_DEPTH / NK
    angstrom,   \* Angstrom_Z, which is also Angstrom_H: the mode is Boussinesq
    depth,      \* depth_tot on the computational cells
    k,          \* the layer above which each cell's column is set
    etaBelow,   \* the height of the top of the layers set so far
    dz,         \* thicknesses in height units, on the computational cells
    h           \* State::h, halos included

stateVars == <<stage, layer, angstrom, depth, k, etaBelow, dz, h>>

LayerIndices == 0 .. NK - 1

Columns == [LayerIndices -> Int]

Uniform(thickness) == [j \in LayerIndices |-> thickness]

StateInit ==
    /\ stage = "vertical_grid"
    /\ layer \in Layers /\ angstrom \in Angstroms
    /\ depth \in [Cells -> Depths]
    /\ k = [c \in Cells |-> NK]
    /\ etaBelow = [c \in Cells |-> -depth[c]]
    /\ dz = [c \in Cells |-> Uniform(0)]
    /\ h = [c \in Cells \cup Halo |-> Uniform(0)]

FailState ==
    /\ stage' = "failed"
    /\ UNCHANGED <<layer, angstrom, depth, k, etaBelow, dz, h>>

\* ANGSTROM must be non-negative and MAXIMUM_DEPTH positive.  The other fatal
\* errors of the constructor concern parameters that are not used here.
VerticalGrid ==
    /\ stage = "vertical_grid"
    /\ \/ /\ angstrom >= 0 /\ layer > 0
          /\ stage' = "allocate"
          /\ UNCHANGED <<layer, angstrom, depth, k, etaBelow, dz, h>>
       \/ FailState

\* The fields are made, and every thickness, halos included, starts at Angstrom_H.
MakeFields ==
    /\ stage = "allocate"
    /\ stage' = "thickness"
    /\ h' = [c \in Cells \cup Halo |-> Uniform(angstrom)]
    /\ UNCHANGED <<layer, angstrom, depth, k, etaBelow, dz>>

\* INIT_LAYERS_FROM_Z_FILE or a THICKNESS_CONFIG that is not "uniform".
RefuseThickness == stage = "thickness" /\ FailState

\* Mutants of TopOf: a layer is kept off the bottom but may vanish; the walk is
\* off by one interface.
TopOfMayVanish(j, below) ==
    IF -(layer * j) < below THEN below ELSE -(layer * j)
TopOfNextInterface(j, below) ==
    IF -(layer * (j + 1)) < below + angstrom THEN below + angstrom ELSE -(layer * (j + 1))

\* The top of layer j: its nominal interface, or an Angstrom above the layer below.
TopOf(j, below) ==
    IF -(layer * j) < below + angstrom THEN below + angstrom ELSE -(layer * j)

\* initialize_thickness_uniform, one layer of one column.  The columns of a
\* ParallelFor advance in any order.
SetLayer(c) ==
    /\ stage = "thickness" /\ k[c] > 0
    /\ LET j == k[c] - 1
           eta == TopOf(j, etaBelow[c])
       IN /\ dz' = [dz EXCEPT ![c][j] = eta - etaBelow[c]]
          /\ etaBelow' = [etaBelow EXCEPT ![c] = eta]
          /\ k' = [k EXCEPT ![c] = j]
    /\ UNCHANGED <<stage, layer, angstrom, depth, h>>

\* dz_to_thickness: a copy on the computational cells, once they are all set.
DzToThickness ==
    /\ stage = "thickness"
    /\ \A c \in Cells : k[c] = 0
    /\ stage' = "surface"
    /\ h' = [c \in DOMAIN h |-> IF c \in Cells THEN dz[c] ELSE h[c]]
    /\ UNCHANGED <<layer, angstrom, depth, k, etaBelow, dz>>

\* DEPRESS_INITIAL_SURFACE and TRIM_IC_FOR_P_SURF are refused.
RefuseSurface == stage = "surface" /\ FailState

\* Mutant of PassH: a halo cell with no source is zeroed by the exchange.
PassHZeroesEdges ==
    /\ stage = "surface"
    /\ stage' = "velocity"
    /\ h' = [c \in DOMAIN h |->
               IF c \in Cells THEN h[c]
               ELSE IF From[c] \in Cells THEN h[From[c]] ELSE Uniform(0)]
    /\ UNCHANGED <<layer, angstrom, depth, k, etaBelow, dz>>

\* domain.pass_var(state.h): halo cells beyond a closed boundary keep their value.
PassH ==
    /\ stage = "surface"
    /\ stage' = "velocity"
    /\ h' = [c \in DOMAIN h |-> IF c \in Halo /\ From[c] \in Cells THEN h[From[c]] ELSE h[c]]
    /\ UNCHANGED <<layer, angstrom, depth, k, etaBelow, dz>>

\* The velocities are zero from the start and stay so; VELOCITY_CONFIG other
\* than "zero", ODA_INCUPD and SPONGE are refused.
Finish ==
    /\ stage = "velocity"
    /\ \/ stage' = "done" /\ UNCHANGED <<layer, angstrom, depth, k, etaBelow, dz, h>>
       \/ FailState

\* make_state has returned or thrown.
Settled == stage \in {"done", "failed"} /\ UNCHANGED stateVars

StateNext ==
    \/ VerticalGrid \/ MakeFields \/ RefuseThickness
    \/ \E c \in Cells : SetLayer(c)
    \/ DzToThickness \/ RefuseSurface \/ PassH \/ Finish
    \/ Settled

StateSpec == StateInit /\ [][StateNext]_stateVars

-----------------------------------------------------------------------------
(* Properties.                                                             *)

Stages == {"vertical_grid", "allocate", "thickness", "surface", "velocity", "done", "failed"}

\* The variables have their types; past VerticalGrid the numbers are the ones
\* it accepts.
StateTypeOK ==
    /\ stage \in Stages
    /\ layer \in Layers /\ angstrom \in Angstroms
    /\ depth \in [Cells -> Depths]
    /\ k \in [Cells -> 0 .. NK]
    /\ etaBelow \in [Cells -> Int]
    /\ dz \in [Cells -> Columns]
    /\ h \in [Cells \cup Halo -> Columns]
    /\ stage \notin {"vertical_grid", "failed"} => angstrom >= 0 /\ layer > 0

\* The height of interface j of a column, by its meaning: the highest of the
\* nominal interface and the bottom raised by an Angstrom for every layer that
\* lies between.
Higher(a, b) == IF a < b THEN b ELSE a
Interface(j, bottom) == Higher(-(layer * j), bottom + (NK - j) * angstrom)

\* While a column is walked its last interface is the highest of every lower
\* nominal interface raised by an Angstrom per layer, whatever ANGSTROM is: the
\* local clamp of initialize_thickness_uniform adds up to no more than that.
WalkIsTheHighest ==
    stage = "thickness" =>
      \A c \in Cells :
        LET raised == {-(layer * j) + (j - k[c]) * angstrom : j \in k[c] .. NK - 1}
                        \cup {-depth[c] + (NK - k[c]) * angstrom}
        IN etaBelow[c] \in raised /\ \A e \in raised : e <= etaBelow[c]

\* With layers no thinner than ANGSTROM (a relation the code does not check) the
\* thicknesses that reach the state are the gaps between the interfaces.  In
\* particular a column whose bottom leaves room for NK Angstroms holds exactly
\* its depth: no water is made or lost by the squeezing.
LayersFillTheColumn ==
    stage \in {"velocity", "done"} /\ angstrom <= layer =>
      \A c \in Cells, j \in LayerIndices :
        h[c][j] = Interface(j, -depth[c])
                    - (IF j = NK - 1 THEN -depth[c] ELSE Interface(j + 1, -depth[c]))

\* Every layer that a later stage can read, halo cells beyond a closed boundary
\* included, is at least an Angstrom thick ("with every layer at least an
\* Angstrom thick").
NoVanishedLayer ==
    stage \in {"velocity", "done"} =>
      \A c \in Cells \cup Halo, j \in LayerIndices : h[c][j] >= angstrom
=============================================================================
