----------------------------- MODULE GridMasks -----------------------------
(***************************************************************************)
(* The bottom depth and the land masks of the horizontal grid, set up by   *)
(* several ranks, each with one box of the domain and a halo around it.    *)
(*   src/initialization/MOM_fixed_initialization.cpp  initialize_topography*)
(*   src/initialization/MOM_shared_initialization.cpp limits of the depth  *)
(*   src/initialization/MOM_grid_initialize.cpp       set_masks            *)
(*   config_src/infra/MOM_domain_infra.hpp            halo exchanges       *)
(* A rank computes a field on its own points, then exchanges halos with    *)
(* its neighbours, and runs ahead of them in between.  No later step       *)
(* writes a field's own points again, so what a rank receives is what its  *)
(* neighbour still holds.                                                  *)
(***************************************************************************)
EXTENDS Integers

CONSTANTS
    NI, NJ,          \* NIGLOBAL, NJGLOBAL
    XParts, YParts,  \* the intervals <<lo, hi>> that cut the domain into boxes
    NIHalo, NJHalo,  \* NIHALO, NJHALO
    RawDepths,       \* depths that a named topography computes for a cell
    MinDepths,       \* MINIMUM_DEPTH (even, so that its half is an integer)
    MaxDepths,       \* MAXIMUM_DEPTH
    MaskDepths,      \* MASKING_DEPTH
    Unset,           \* MASKING_DEPTH has its special default value
    Junk             \* the contents of memory nobody has set

ASSUME GridAssumption ==
    /\ NI \in Nat /\ NI > 0
    /\ NJ \in Nat /\ NJ > 0
    /\ NIHalo \in Nat /\ NJHalo \in Nat
    /\ RawDepths \subseteq Int /\ MaxDepths \subseteq Int
    /\ MinDepths \subseteq Int
    /\ \A d \in MinDepths : d % 2 = 0
    /\ MaskDepths \ {Unset} \subseteq Int
    /\ Junk \notin Int

ASSUME LayoutAssumption ==
    /\ XParts \subseteq Int \X Int /\ YParts \subseteq Int \X Int
    /\ \A x \in XParts : 0 <= x[1] /\ x[1] <= x[2] /\ x[2] < NI
    /\ \A y \in YParts : 0 <= y[1] /\ y[1] <= y[2] /\ y[2] < NJ
    /\ \A i \in 0 .. NI - 1 : \E x \in XParts : i \in x[1] .. x[2]
    /\ \A j \in 0 .. NJ - 1 : \E y \in YParts : j \in y[1] .. y[2]

Boxes == XParts \X YParts

\* Staggers, by how many points more than cells a box has in each direction.
Cell == <<0, 0>>
XFace == <<1, 0>>
YFace == <<0, 1>>
Node == <<1, 1>>

\* A box's own points at a stagger, and the same with the halo.
Valid(b, s) == (b[1][1] .. b[1][2] + s[1]) \X (b[2][1] .. b[2][2] + s[2])
Grown(b, s) == (b[1][1] - NIHalo .. b[1][2] + s[1] + NIHalo)
                   \X (b[2][1] - NJHalo .. b[2][2] + s[2] + NJHalo)

Cells == (0 .. NI - 1) \X (0 .. NJ - 1)

VARIABLES
    reentrantX, reentrantY,        \* the domain's connectivity
    raw,                           \* the depths a topography computes
    minDepth, maxDepth, maskDepth, \* the depth parameters
    pc,                            \* the step each rank is at
    bathyT, mask2dT, mask2dCu, mask2dCv, mask2dBu   \* per box, its array

inputs == <<reentrantX, reentrantY, raw, minDepth, maxDepth, maskDepth>>
fields == <<bathyT, mask2dT, mask2dCu, mask2dCv, mask2dBu>>
vars == <<inputs, pc, fields>>

Steps == <<"topography", "pass_bathyT", "zero_masks", "mask2dT", "pass_mask2dT", "face_masks",
           "pass_face_masks", "mask2dBu", "pass_mask2dBu">>
Done == 10
Failed == 0
At(b, name) == pc[b] \in 1 .. 9 /\ Steps[pc[b]] = name
Advance(b) == pc' = [pc EXCEPT ![b] = @ + 1]

Uninitialised(s) == [b \in Boxes |-> [p \in Grown(b, s) |-> Junk]]

Init ==
    /\ reentrantX \in BOOLEAN /\ reentrantY \in BOOLEAN
    /\ raw \in [Cells -> RawDepths]
    /\ minDepth \in MinDepths /\ maxDepth \in MaxDepths /\ maskDepth \in MaskDepths
    /\ pc = [b \in Boxes |-> 1]
    /\ bathyT = Uninitialised(Cell)
    /\ mask2dT = Uninitialised(Cell)
    /\ mask2dCu = Uninitialised(XFace)
    /\ mask2dCv = Uninitialised(YFace)
    /\ mask2dBu = Uninitialised(Node)

(***************************************************************************)
(* Halo exchange: Domain::pass_var, through TIM to AMReX's FillBoundary.   *)
(***************************************************************************)
\* Where else in the periodic plane a point lies; conn says which directions
\* are reentrant.
Connectivities == BOOLEAN \X BOOLEAN
Shifts(extent, reentrant) == IF reentrant THEN {-extent, 0, extent} ELSE {0}
Images(p, conn) ==
    {<<p[1] + a, p[2] + b>> : a \in Shifts(NI, conn[1]), b \in Shifts(NJ, conn[2])}

\* The boxes that own a point or an image of it, for every point of a box.
Staggers == {Cell, XFace, YFace, Node}
Owners ==
    [conn \in Connectivities |-> [s \in Staggers |-> [b \in Boxes |-> [p \in Grown(b, s) |->
        {o \in Boxes \X Images(p, conn) : o[2] \in Valid(o[1], s)}]]]]

\* Where the exchange takes a point from: a halo point from one of its owners,
\* and any other point, or one without an owner, from itself.
Source ==
    [conn \in Connectivities |-> [s \in Staggers |-> [b \in Boxes |-> [p \in Grown(b, s) |->
        LET owners == Owners[conn][s][b][p]
        IN  IF p \in Valid(b, s) \/ owners = {} THEN <<b, p>>
            ELSE CHOOSE o \in owners : TRUE]]]]

Neighbours ==
    [conn \in Connectivities |-> [s \in Staggers |-> [b \in Boxes |->
        {o[1] : o \in UNION {Owners[conn][s][b][p] : p \in Grown(b, s) \ Valid(b, s)}}]]]

Connectivity == <<reentrantX, reentrantY>>

Filled(f, b, s) ==
    [p \in DOMAIN f[b] |-> LET o == Source[Connectivity][s][b][p] IN f[o[1]][o[2]]]

\* A rank's exchange ends when its neighbours have reached theirs.
Heard(b, s) == \A c \in Neighbours[Connectivity][s][b] : pc[c] >= pc[b]

(***************************************************************************)
(* The depth.                                                              *)
(***************************************************************************)
Larger(x, y) == IF x >= y THEN x ELSE y
Smaller(x, y) == IF x <= y THEN x ELSE y

\* initialize_topography_named: its safety clamp, on a box's own cells.
Named(d) ==
    LET val == Smaller(d, maxDepth)
    IN  IF val < minDepth THEN minDepth \div 2 ELSE val

\* Mutant of Limited: a masking depth leaves shallow ocean as it is.
LimitedKeepsShallow(d) ==
    IF maskDepth = Unset THEN Smaller(Larger(d, minDepth \div 2), maxDepth)
    ELSE IF d > Smaller(minDepth, maskDepth) THEN Smaller(d, maxDepth)
    ELSE Smaller(minDepth, maskDepth)

\* limit_topography, on the halo too.
Limited(d) ==
    IF maskDepth = Unset THEN Smaller(Larger(d, minDepth \div 2), maxDepth)
    ELSE IF d > Smaller(minDepth, maskDepth)
    THEN Smaller(Larger(d, minDepth), maxDepth)
    ELSE Smaller(minDepth, maskDepth)

\* initialize_topography up to the exchange.  The halo of a new field is zero.
InitializeTopography(b) ==
    /\ At(b, "topography")
    /\ IF maxDepth <= 0 \/ (maskDepth = Unset /\ minDepth < 0)
       THEN pc' = [pc EXCEPT ![b] = Failed] /\ UNCHANGED fields
       ELSE /\ Advance(b)
            /\ bathyT' = [bathyT EXCEPT ![b] =
                             [p \in Grown(b, Cell) |->
                                 Limited(IF p \in Valid(b, Cell) THEN Named(raw[p]) ELSE 0)]]
            /\ UNCHANGED <<mask2dT, mask2dCu, mask2dCv, mask2dBu>>
    /\ UNCHANGED inputs

PassBathyT(b) ==
    /\ At(b, "pass_bathyT")
    /\ Heard(b, Cell)
    /\ Advance(b)
    /\ bathyT' = [bathyT EXCEPT ![b] = Filled(bathyT, b, Cell)]
    /\ UNCHANGED <<inputs, mask2dT, mask2dCu, mask2dCv, mask2dBu>>

(***************************************************************************)
(* set_masks.                                                              *)
(***************************************************************************)
\* Mutant of Zeroed: setVal leaves the halo alone.
ZeroedWithoutHalo(b, s) == [p \in Grown(b, s) |-> IF p \in Valid(b, s) THEN 0 ELSE Junk]

Zeroed(b, s) == [p \in Grown(b, s) |-> 0]

ZeroMasks(b) ==
    /\ At(b, "zero_masks")
    /\ Advance(b)
    /\ mask2dT' = [mask2dT EXCEPT ![b] = Zeroed(b, Cell)]
    /\ mask2dCu' = [mask2dCu EXCEPT ![b] = Zeroed(b, XFace)]
    /\ mask2dCv' = [mask2dCv EXCEPT ![b] = Zeroed(b, YFace)]
    /\ mask2dBu' = [mask2dBu EXCEPT ![b] = Zeroed(b, Node)]
    /\ UNCHANGED <<inputs, bathyT>>

\* initialize_masks: MINIMUM_DEPTH stands in for an unset MASKING_DEPTH.
LandDepth == IF maskDepth = Unset THEN minDepth ELSE maskDepth

Product(values) == IF Junk \in values THEN Junk ELSE IF 0 \in values THEN 0 ELSE 1

\* Sets a field of a box on its own points, and leaves its halo.
OnValid(f, b, s, Value(_)) ==
    [f EXCEPT ![b] = [p \in DOMAIN f[b] |-> IF p \in Valid(b, s) THEN Value(p) ELSE f[b][p]]]

MaskCells(b) ==
    /\ At(b, "mask2dT")
    /\ Advance(b)
    /\ LET Wet(p) == IF bathyT[b][p] <= LandDepth THEN 0 ELSE 1
       IN  mask2dT' = OnValid(mask2dT, b, Cell, Wet)
    /\ UNCHANGED <<inputs, bathyT, mask2dCu, mask2dCv, mask2dBu>>

PassMaskT(b) ==
    /\ At(b, "pass_mask2dT")
    /\ Heard(b, Cell)
    /\ Advance(b)
    /\ mask2dT' = [mask2dT EXCEPT ![b] = Filled(mask2dT, b, Cell)]
    /\ UNCHANGED <<inputs, bathyT, mask2dCu, mask2dCv, mask2dBu>>

\* An array read: beyond the halo there is memory that is not the array's.
Read(f, b, p) == IF p \in DOMAIN f[b] THEN f[b][p] ELSE Junk

West(p) == <<p[1] - 1, p[2]>>
South(p) == <<p[1], p[2] - 1>>

\* A face is open when the cells on its two sides are ocean.
MaskFaces(b) ==
    /\ At(b, "face_masks")
    /\ Advance(b)
    /\ LET T(p) == Read(mask2dT, b, p)
           OpenX(p) == Product({T(West(p)), T(p)})
           OpenY(p) == Product({T(South(p)), T(p)})
       IN  /\ mask2dCu' = OnValid(mask2dCu, b, XFace, OpenX)
           /\ mask2dCv' = OnValid(mask2dCv, b, YFace, OpenY)
    /\ UNCHANGED <<inputs, bathyT, mask2dT, mask2dBu>>

\* Mutant of PassFaces: only one of the two exchanges is made.
PassFacesOnlyU(b) ==
    /\ At(b, "pass_face_masks")
    /\ Heard(b, XFace)
    /\ Advance(b)
    /\ mask2dCu' = [mask2dCu EXCEPT ![b] = Filled(mask2dCu, b, XFace)]
    /\ UNCHANGED <<inputs, bathyT, mask2dT, mask2dCv, mask2dBu>>

\* pass_vars.
PassFaces(b) ==
    /\ At(b, "pass_face_masks")
    /\ Heard(b, XFace) /\ Heard(b, YFace)
    /\ Advance(b)
    /\ mask2dCu' = [mask2dCu EXCEPT ![b] = Filled(mask2dCu, b, XFace)]
    /\ mask2dCv' = [mask2dCv EXCEPT ![b] = Filled(mask2dCv, b, YFace)]
    /\ UNCHANGED <<inputs, bathyT, mask2dT, mask2dBu>>

\* A vertex is open when the four faces that meet at it are.
MaskVertices(b) ==
    /\ At(b, "mask2dBu")
    /\ Advance(b)
    /\ LET U(p) == Read(mask2dCu, b, p)
           V(p) == Read(mask2dCv, b, p)
           Open(p) == Product({U(South(p)), U(p), V(West(p)), V(p)})
       IN  mask2dBu' = OnValid(mask2dBu, b, Node, Open)
    /\ UNCHANGED <<inputs, bathyT, mask2dT, mask2dCu, mask2dCv>>

PassMaskBu(b) ==
    /\ At(b, "pass_mask2dBu")
    /\ Heard(b, Node)
    /\ Advance(b)
    /\ mask2dBu' = [mask2dBu EXCEPT ![b] = Filled(mask2dBu, b, Node)]
    /\ UNCHANGED <<inputs, bathyT, mask2dT, mask2dCu, mask2dCv>>

Finished == (\A b \in Boxes : pc[b] \in {Done, Failed}) /\ UNCHANGED vars

RankStep(b) ==
    \/ InitializeTopography(b) \/ PassBathyT(b)
    \/ ZeroMasks(b) \/ MaskCells(b) \/ PassMaskT(b)
    \/ MaskFaces(b) \/ PassFaces(b)
    \/ MaskVertices(b) \/ PassMaskBu(b)

Next == (\E b \in Boxes : RankStep(b)) \/ Finished

Spec == Init /\ [][Next]_vars

-----------------------------------------------------------------------------
(* The type of the fields: no point of the depth, halo included, holds     *)
(* memory nobody has set once the topography is there, and no point of a   *)
(* mask once the masks are zeroed, so that no stencil reads such memory.   *)
DepthsOf(b) == IF pc[b] > 1 THEN Int ELSE Int \cup {Junk}
MasksOf(b) == IF pc[b] > 3 THEN {0, 1} ELSE {Junk}
GridTypeOK ==
    /\ pc \in [Boxes -> 0 .. Done]
    /\ \A b \in Boxes :
          /\ bathyT[b] \in [Grown(b, Cell) -> DepthsOf(b)]
          /\ mask2dT[b] \in [Grown(b, Cell) -> MasksOf(b)]
          /\ mask2dCu[b] \in [Grown(b, XFace) -> MasksOf(b)]
          /\ mask2dCv[b] \in [Grown(b, YFace) -> MasksOf(b)]
          /\ mask2dBu[b] \in [Grown(b, Node) -> MasksOf(b)]

(***************************************************************************)
(* What the whole grid should be, without boxes, ranks or halos: the plane *)
(* is the domain, repeated where it is reentrant and land elsewhere.       *)
(***************************************************************************)
Plane == (-NIHalo - 1 .. NI + NIHalo) \X (-NJHalo - 1 .. NJ + NJHalo)
Outside == <<NI, NJ>>
Home == [conn \in Connectivities |-> [p \in Plane |->
            IF \E q \in Images(p, conn) : q \in Cells THEN CHOOSE q \in Images(p, conn) : q \in Cells
            ELSE Outside]]
InDomain(p) == Home[Connectivity][p] # Outside

Depth(p) == Limited(IF InDomain(p) THEN Named(raw[Home[Connectivity][p]]) ELSE 0)
Ocean(p) == InDomain(p) /\ Depth(p) > LandDepth
AsMask(open) == IF open THEN 1 ELSE 0

(* DESIGN.md's layout independence, for the grid: whatever boxes the       *)
(* domain is cut into, and however the ranks interleave, every rank ends   *)
(* with the depth and the masks of the uncut domain on every point it      *)
(* holds, halo included: a face is open when both its cells are ocean and  *)
(* a vertex when all four are, across box edges and across the seam of a   *)
(* reentrant direction, and everything beyond a closed edge is land.       *)
LayoutIndependent ==
    \A b \in Boxes : pc[b] = Done =>
        /\ \A p \in Grown(b, Cell) :
              bathyT[b][p] = Depth(p) /\ mask2dT[b][p] = AsMask(Ocean(p))
        /\ \A p \in Grown(b, XFace) :
              mask2dCu[b][p] = AsMask(Ocean(West(p)) /\ Ocean(p))
        /\ \A p \in Grown(b, YFace) :
              mask2dCv[b][p] = AsMask(Ocean(South(p)) /\ Ocean(p))
        /\ \A p \in Grown(b, Node) :
              mask2dBu[b][p] = AsMask(/\ Ocean(p) /\ Ocean(West(p))
                                      /\ Ocean(South(p)) /\ Ocean(South(West(p))))

(* Ocean is at least MINIMUM_DEPTH and at most MAXIMUM_DEPTH deep, however *)
(* MASKING_DEPTH lies to them, so long as the minimum is below the maximum *)
(* (which nothing in the code checks).                                     *)
OceanDepthInBounds ==
    minDepth <= maxDepth =>
        \A b \in Boxes : pc[b] = Done =>
            \A p \in Valid(b, Cell) :
                mask2dT[b][p] = 1 => minDepth <= bathyT[b][p] /\ bathyT[b][p] <= maxDepth
=============================================================================
