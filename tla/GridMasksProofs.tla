-------------------------- MODULE GridMasksProofs --------------------------
(***************************************************************************)
(* Proofs about GridMasks, for any grid, any cut of it into boxes, any     *)
(* connectivity, any parameters, and ranks interleaved in any way.         *)
(*                                                                         *)
(* A step of a rank writes its own arrays only (RankStepFrame), so that an *)
(* invariant made of a conjunct per box has to be shown for the box that   *)
(* steps.  Ranks meet in the exchanges.  A rank reads there a neighbour    *)
(* that has come as far as the exchange, or beyond it: what the neighbour  *)
(* holds on its own points no later step changes, and that is what         *)
(* BoxLayout says of each field, step by step: right on own points once    *)
(* they are set, right everywhere once it is exchanged.                    *)
(***************************************************************************)
EXTENDS GridMasks, TLAPS

-----------------------------------------------------------------------------
\* Arrays and steps

\* A function over a box's points at a stagger and their halo
Over(v, b, s) == v = [p \in Grown(b, s) |-> v[p]]

\* One array per box, over the box's points at a stagger and their halo
Array(f, s) ==
    /\ DOMAIN f = Boxes
    /\ \A b \in Boxes : Over(f[b], b, s)

Arrays ==
    /\ Array(bathyT, Cell) /\ Array(mask2dT, Cell)
    /\ Array(mask2dCu, XFace) /\ Array(mask2dCv, YFace) /\ Array(mask2dBu, Node)

Inputs ==
    /\ reentrantX \in BOOLEAN /\ reentrantY \in BOOLEAN
    /\ raw \in [Cells -> RawDepths]
    /\ minDepth \in MinDepths /\ maxDepth \in MaxDepths /\ maskDepth \in MaskDepths

\* g is f with another array in box b
Changed(f, g, b, s) ==
    /\ DOMAIN g = Boxes
    /\ Over(g[b], b, s)
    /\ \A c \in Boxes \ {b} : g[c] = f[c]

LEMMA StaggersAre == Cell \in Staggers /\ XFace \in Staggers /\ YFace \in Staggers /\ Node \in Staggers
BY DEF Staggers

LEMMA ConnectivityType == ASSUME Inputs PROVE Connectivity \in Connectivities
BY DEF Inputs, Connectivity, Connectivities

LEMMA BoxType ==
    ASSUME NEW b \in Boxes
    PROVE  /\ b[1][1] \in Int /\ b[1][2] \in Int /\ b[2][1] \in Int /\ b[2][2] \in Int
           /\ 0 <= b[1][1] /\ b[1][1] <= b[1][2] /\ b[1][2] < NI
           /\ 0 <= b[2][1] /\ b[2][1] <= b[2][2] /\ b[2][2] < NJ
BY LayoutAssumption DEF Boxes

LEMMA ValidInGrown ==
    ASSUME NEW b \in Boxes, NEW s \in Staggers
    PROVE  Valid(b, s) \subseteq Grown(b, s)
BY BoxType, GridAssumption DEF Valid, Grown, Staggers, Cell, XFace, YFace, Node

-----------------------------------------------------------------------------
\* The exchange

LEMMA OwnersAt ==
    ASSUME NEW conn \in Connectivities, NEW s \in Staggers, NEW b \in Boxes, NEW p \in Grown(b, s)
    PROVE  Owners[conn][s][b][p] = {o \in Boxes \X Images(p, conn) : o[2] \in Valid(o[1], s)}
BY DEF Owners

LEMMA SourceAt ==
    ASSUME NEW conn \in Connectivities, NEW s \in Staggers, NEW b \in Boxes, NEW p \in Grown(b, s)
    PROVE  LET owners == Owners[conn][s][b][p]
               source == Source[conn][s][b][p]
           IN  /\ p \in Valid(b, s) \/ owners = {} => source = <<b, p>>
               /\ ~(p \in Valid(b, s) \/ owners = {}) => source \in owners
<1> DEFINE owners == Owners[conn][s][b][p]
           any == CHOOSE o \in owners : TRUE
<1>1. Source[conn][s][b][p] = IF p \in Valid(b, s) \/ owners = {} THEN <<b, p>> ELSE any
    BY DEF Source
<1>2. owners # {} => any \in owners
    OBVIOUS
<1> HIDE DEF any
<1> QED
    BY <1>1, <1>2

LEMMA NeighboursAt ==
    ASSUME NEW conn \in Connectivities, NEW s \in Staggers, NEW b \in Boxes
    PROVE  Neighbours[conn][s][b] = {o[1] : o \in UNION {Owners[conn][s][b][p] : p \in Grown(b, s) \ Valid(b, s)}}
BY DEF Neighbours

\* Where a point is taken from: from itself, or, in the halo, from an own point of
\* a neighbour that is an image of it.
LEMMA SourceOf ==
    ASSUME NEW conn \in Connectivities, NEW s \in Staggers, NEW b \in Boxes, NEW p \in Grown(b, s)
    PROVE  LET o == Source[conn][s][b][p]
           IN  \/ o = <<b, p>> /\ (p \in Valid(b, s) \/ Owners[conn][s][b][p] = {})
               \/ /\ p \notin Valid(b, s)
                  /\ o[1] \in Neighbours[conn][s][b] /\ o[1] \in Boxes
                  /\ o[2] \in Valid(o[1], s) /\ o[2] \in Images(p, conn)
<1> DEFINE owners == Owners[conn][s][b][p]
           o == Source[conn][s][b][p]
<1>1. CASE p \in Valid(b, s) \/ owners = {}
    BY <1>1, SourceAt
<1>2. CASE p \notin Valid(b, s) /\ owners # {}
  <2>1. o \in owners
      BY <1>2, SourceAt
  <2>2. o[1] \in Boxes /\ o[2] \in Images(p, conn) /\ o[2] \in Valid(o[1], s)
      BY <2>1, OwnersAt
  <2>3. o[1] \in Neighbours[conn][s][b]
      BY <1>2, <2>1, NeighboursAt
  <2> QED
      BY <1>2, <2>2, <2>3
<1> QED
    BY <1>1, <1>2

\* What an exchange leaves on a point: what it held, or what a neighbour holds on
\* one of its own.
LEMMA FilledPoint ==
    ASSUME Inputs, NEW f, NEW s \in Staggers, NEW b \in Boxes, Array(f, s), NEW p \in Grown(b, s)
    PROVE  \/ /\ Filled(f, b, s)[p] = f[b][p]
              /\ p \in Valid(b, s) \/ Owners[Connectivity][s][b][p] = {}
           \/ /\ p \notin Valid(b, s)
              /\ \E c \in Neighbours[Connectivity][s][b] \cap Boxes : \E q \in Valid(c, s) :
                    q \in Images(p, Connectivity) /\ Filled(f, b, s)[p] = f[c][q]
<1> DEFINE o == Source[Connectivity][s][b][p]
<1>1. DOMAIN f[b] = Grown(b, s)
    BY DEF Array, Over
<1>2. Filled(f, b, s)[p] = f[o[1]][o[2]]
    BY <1>1 DEF Filled
<1>3. Connectivity \in Connectivities
    BY ConnectivityType
<1>4. CASE o = <<b, p>> /\ (p \in Valid(b, s) \/ Owners[Connectivity][s][b][p] = {})
    BY <1>2, <1>4
<1>5. CASE /\ p \notin Valid(b, s)
           /\ o[1] \in Neighbours[Connectivity][s][b] /\ o[1] \in Boxes
           /\ o[2] \in Valid(o[1], s) /\ o[2] \in Images(p, Connectivity)
  <2>1. o[1] \in Neighbours[Connectivity][s][b] \cap Boxes
      BY <1>5
  <2> QED
      BY <1>2, <1>5, <2>1
<1> HIDE DEF o
<1> QED
    BY <1>3, <1>4, <1>5, SourceOf DEF o

LEMMA FilledArray ==
    ASSUME NEW f, NEW s \in Staggers, NEW b \in Boxes, Array(f, s)
    PROVE  Over(Filled(f, b, s), b, s)
BY DEF Filled, Array, Over

-----------------------------------------------------------------------------
\* The effect of each step

Steady == Arrays /\ pc \in [Boxes -> 0 .. Done]

LEMMA NewArray ==
    ASSUME NEW f, NEW s, Array(f, s), NEW b \in Boxes, NEW v, Over(v, b, s),
           NEW g, g = [f EXCEPT ![b] = v]
    PROVE  Array(g, s) /\ Changed(f, g, b, s)
BY DEF Array, Changed

\* A rank goes from step k to the next
Moves(b, k) == pc[b] = k /\ pc' = [pc EXCEPT ![b] = k + 1] /\ UNCHANGED inputs

LEMMA StepNames ==
    ASSUME Steady, NEW b \in Boxes
    PROVE  /\ At(b, "topography") => pc[b] = 1
           /\ At(b, "pass_bathyT") => pc[b] = 2
           /\ At(b, "zero_masks") => pc[b] = 3
           /\ At(b, "mask2dT") => pc[b] = 4
           /\ At(b, "pass_mask2dT") => pc[b] = 5
           /\ At(b, "face_masks") => pc[b] = 6
           /\ At(b, "pass_face_masks") => pc[b] = 7
           /\ At(b, "mask2dBu") => pc[b] = 8
           /\ At(b, "pass_mask2dBu") => pc[b] = 9
BY DEF At, Steps

LEMMA TopographyEffect ==
    ASSUME Steady, NEW b \in Boxes, InitializeTopography(b)
    PROVE  \/ /\ pc[b] = 1 /\ pc' = [pc EXCEPT ![b] = Failed]
              /\ UNCHANGED <<inputs, fields>>
           \/ /\ Moves(b, 1)
              /\ Array(bathyT', Cell) /\ Changed(bathyT, bathyT', b, Cell)
              /\ \A p \in Grown(b, Cell) :
                    bathyT'[b][p] = Limited(IF p \in Valid(b, Cell) THEN Named(raw[p]) ELSE 0)
              /\ UNCHANGED <<mask2dT, mask2dCu, mask2dCv, mask2dBu>>
<1>1. pc[b] = 1
    BY StepNames DEF InitializeTopography
<1>2. CASE maxDepth <= 0 \/ (maskDepth = Unset /\ minDepth < 0)
    BY <1>1, <1>2 DEF InitializeTopography
<1>3. CASE ~(maxDepth <= 0 \/ (maskDepth = Unset /\ minDepth < 0))
  <2> DEFINE v == [p \in Grown(b, Cell) |-> Limited(IF p \in Valid(b, Cell) THEN Named(raw[p]) ELSE 0)]
  <2>1. /\ Advance(b) /\ bathyT' = [bathyT EXCEPT ![b] = v]
        /\ UNCHANGED <<inputs, mask2dT, mask2dCu, mask2dCv, mask2dBu>>
      BY <1>3 DEF InitializeTopography
  <2>2. Over(v, b, Cell)
      BY DEF Over
  <2>3. Array(bathyT', Cell) /\ Changed(bathyT, bathyT', b, Cell) /\ bathyT'[b] = v
    <3> HIDE DEF v
    <3>1. Array(bathyT', Cell) /\ Changed(bathyT, bathyT', b, Cell)
        BY <2>1, <2>2, NewArray DEF Steady, Arrays
    <3> QED
        BY <2>1, <3>1 DEF Steady, Arrays, Array
  <2>4. Moves(b, 1)
      BY <1>1, <2>1 DEF Moves, Advance
  <2> QED
      BY <2>1, <2>3, <2>4
<1> QED
    BY <1>2, <1>3

\* What an exchange of a field does
Exchanged(f, g, b, s) ==
    Array(g, s) /\ Changed(f, g, b, s) /\ \A p \in Grown(b, s) : g[b][p] = Filled(f, b, s)[p]

LEMMA Exchange ==
    ASSUME NEW f, NEW s \in Staggers, Array(f, s), NEW b \in Boxes, NEW g, g = [f EXCEPT ![b] = Filled(f, b, s)]
    PROVE  Exchanged(f, g, b, s)
<1>1. Over(Filled(f, b, s), b, s)
    BY FilledArray
<1>2. Array(g, s) /\ Changed(f, g, b, s)
    BY <1>1, NewArray
<1>3. g[b] = Filled(f, b, s)
    BY DEF Array
<1> QED
    BY <1>2, <1>3 DEF Exchanged

LEMMA PassBathyTEffect ==
    ASSUME Steady, NEW b \in Boxes, PassBathyT(b)
    PROVE  /\ Moves(b, 2) /\ Heard(b, Cell)
           /\ Exchanged(bathyT, bathyT', b, Cell)
           /\ UNCHANGED <<mask2dT, mask2dCu, mask2dCv, mask2dBu>>
<1>1. pc[b] = 2
    BY StepNames DEF PassBathyT
<1> QED
    BY <1>1, Exchange, StaggersAre DEF PassBathyT, Steady, Arrays, Moves, Advance

\* What zeroing a field does
Wiped(f, g, b, s) == Array(g, s) /\ Changed(f, g, b, s) /\ \A p \in Grown(b, s) : g[b][p] = 0

LEMMA Wipe ==
    ASSUME NEW f, NEW s, Array(f, s), NEW b \in Boxes, NEW g, g = [f EXCEPT ![b] = Zeroed(b, s)]
    PROVE  Wiped(f, g, b, s)
<1>1. Over(Zeroed(b, s), b, s) /\ \A p \in Grown(b, s) : Zeroed(b, s)[p] = 0
    BY DEF Zeroed, Over
<1>2. Array(g, s) /\ Changed(f, g, b, s)
    BY <1>1, NewArray
<1>3. g[b] = Zeroed(b, s)
    BY DEF Array
<1> QED
    BY <1>1, <1>2, <1>3 DEF Wiped

LEMMA ZeroMasksEffect ==
    ASSUME Steady, NEW b \in Boxes, ZeroMasks(b)
    PROVE  /\ Moves(b, 3)
           /\ Wiped(mask2dT, mask2dT', b, Cell)
           /\ Wiped(mask2dCu, mask2dCu', b, XFace)
           /\ Wiped(mask2dCv, mask2dCv', b, YFace)
           /\ Wiped(mask2dBu, mask2dBu', b, Node)
           /\ UNCHANGED bathyT
<1>1. pc[b] = 3
    BY StepNames DEF ZeroMasks
<1>2. Moves(b, 3) /\ UNCHANGED bathyT
    BY <1>1 DEF ZeroMasks, Moves, Advance
<1>3. Wiped(mask2dT, mask2dT', b, Cell)
    BY Wipe DEF ZeroMasks, Steady, Arrays
<1>4. Wiped(mask2dCu, mask2dCu', b, XFace)
    BY Wipe DEF ZeroMasks, Steady, Arrays
<1>5. Wiped(mask2dCv, mask2dCv', b, YFace)
    BY Wipe DEF ZeroMasks, Steady, Arrays
<1>6. Wiped(mask2dBu, mask2dBu', b, Node)
    BY Wipe DEF ZeroMasks, Steady, Arrays
<1> QED
    BY <1>2, <1>3, <1>4, <1>5, <1>6

\* A field set on own points to the values of another array, its halo left alone
SetOwn(f, g, b, s, value) ==
    /\ Array(g, s) /\ Changed(f, g, b, s)
    /\ \A p \in Grown(b, s) : g[b][p] = IF p \in Valid(b, s) THEN value[p] ELSE f[b][p]

LEMMA OwnPoints ==
    ASSUME NEW f, NEW s \in Staggers, Array(f, s), NEW b \in Boxes, NEW value, NEW g,
           g = [f EXCEPT ![b] = [p \in DOMAIN f[b] |-> IF p \in Valid(b, s) THEN value[p] ELSE f[b][p]]]
    PROVE  SetOwn(f, g, b, s, value)
<1> DEFINE v == [p \in Grown(b, s) |-> IF p \in Valid(b, s) THEN value[p] ELSE f[b][p]]
<1>1. DOMAIN f[b] = Grown(b, s)
    BY DEF Array, Over
<1>2. Over(v, b, s) /\ \A p \in Grown(b, s) : v[p] = IF p \in Valid(b, s) THEN value[p] ELSE f[b][p]
    BY DEF Over
<1>3. g = [f EXCEPT ![b] = v]
    BY <1>1
<1> HIDE DEF v
<1>4. Array(g, s) /\ Changed(f, g, b, s)
    BY <1>2, <1>3, NewArray
<1>5. g[b] = v
    BY <1>3 DEF Array
<1> QED
    BY <1>2, <1>4, <1>5 DEF SetOwn

\* What each masking step computes for a point
CellMask(b) == [p \in Grown(b, Cell) |-> IF bathyT[b][p] <= LandDepth THEN 0 ELSE 1]
UFaceMask(b) == [p \in Grown(b, XFace) |-> Product({Read(mask2dT, b, West(p)), Read(mask2dT, b, p)})]
VFaceMask(b) == [p \in Grown(b, YFace) |-> Product({Read(mask2dT, b, South(p)), Read(mask2dT, b, p)})]
VertexMask(b) ==
    [p \in Grown(b, Node) |->
        Product({Read(mask2dCu, b, South(p)), Read(mask2dCu, b, p),
                 Read(mask2dCv, b, West(p)), Read(mask2dCv, b, p)})]

LEMMA MaskCellsEffect ==
    ASSUME Steady, NEW b \in Boxes, MaskCells(b)
    PROVE  /\ Moves(b, 4)
           /\ SetOwn(mask2dT, mask2dT', b, Cell, CellMask(b))
           /\ UNCHANGED <<bathyT, mask2dCu, mask2dCv, mask2dBu>>
<1>1. pc[b] = 4
    BY StepNames DEF MaskCells
<1>2. Moves(b, 4) /\ UNCHANGED <<bathyT, mask2dCu, mask2dCv, mask2dBu>>
    BY <1>1 DEF MaskCells, Moves, Advance
<1>3. DOMAIN mask2dT[b] = Grown(b, Cell)
    BY DEF Steady, Arrays, Array, Over
<1>4. [p \in DOMAIN mask2dT[b] |-> IF p \in Valid(b, Cell)
                                   THEN IF bathyT[b][p] <= LandDepth THEN 0 ELSE 1
                                   ELSE mask2dT[b][p]]
      = [p \in DOMAIN mask2dT[b] |-> IF p \in Valid(b, Cell) THEN CellMask(b)[p] ELSE mask2dT[b][p]]
    BY <1>3 DEF CellMask
<1>5. mask2dT' = [mask2dT EXCEPT ![b] =
                     [p \in DOMAIN mask2dT[b] |-> IF p \in Valid(b, Cell) THEN CellMask(b)[p] ELSE mask2dT[b][p]]]
    BY <1>4 DEF MaskCells, OnValid
<1> QED
    BY <1>2, <1>5, OwnPoints, StaggersAre DEF Steady, Arrays

LEMMA PassMaskTEffect ==
    ASSUME Steady, NEW b \in Boxes, PassMaskT(b)
    PROVE  /\ Moves(b, 5) /\ Heard(b, Cell)
           /\ Exchanged(mask2dT, mask2dT', b, Cell)
           /\ UNCHANGED <<bathyT, mask2dCu, mask2dCv, mask2dBu>>
<1>1. pc[b] = 5
    BY StepNames DEF PassMaskT
<1> QED
    BY <1>1, Exchange, StaggersAre DEF PassMaskT, Steady, Arrays, Moves, Advance

LEMMA MaskFacesEffect ==
    ASSUME Steady, NEW b \in Boxes, MaskFaces(b)
    PROVE  /\ Moves(b, 6)
           /\ SetOwn(mask2dCu, mask2dCu', b, XFace, UFaceMask(b))
           /\ SetOwn(mask2dCv, mask2dCv', b, YFace, VFaceMask(b))
           /\ UNCHANGED <<bathyT, mask2dT, mask2dBu>>
<1>1. pc[b] = 6
    BY StepNames DEF MaskFaces
<1>2. Moves(b, 6) /\ UNCHANGED <<bathyT, mask2dT, mask2dBu>>
    BY <1>1 DEF MaskFaces, Moves, Advance
<1>3. DOMAIN mask2dCu[b] = Grown(b, XFace) /\ DOMAIN mask2dCv[b] = Grown(b, YFace)
    BY DEF Steady, Arrays, Array, Over
<1>4. [p \in DOMAIN mask2dCu[b] |-> IF p \in Valid(b, XFace)
                                    THEN Product({Read(mask2dT, b, West(p)), Read(mask2dT, b, p)})
                                    ELSE mask2dCu[b][p]]
      = [p \in DOMAIN mask2dCu[b] |-> IF p \in Valid(b, XFace) THEN UFaceMask(b)[p] ELSE mask2dCu[b][p]]
    BY <1>3 DEF UFaceMask
<1>5. mask2dCu' = [mask2dCu EXCEPT ![b] =
                     [p \in DOMAIN mask2dCu[b] |-> IF p \in Valid(b, XFace) THEN UFaceMask(b)[p] ELSE mask2dCu[b][p]]]
    BY <1>4 DEF MaskFaces, OnValid
<1>6. [p \in DOMAIN mask2dCv[b] |-> IF p \in Valid(b, YFace)
                                    THEN Product({Read(mask2dT, b, South(p)), Read(mask2dT, b, p)})
                                    ELSE mask2dCv[b][p]]
      = [p \in DOMAIN mask2dCv[b] |-> IF p \in Valid(b, YFace) THEN VFaceMask(b)[p] ELSE mask2dCv[b][p]]
    BY <1>3 DEF VFaceMask
<1>7. mask2dCv' = [mask2dCv EXCEPT ![b] =
                     [p \in DOMAIN mask2dCv[b] |-> IF p \in Valid(b, YFace) THEN VFaceMask(b)[p] ELSE mask2dCv[b][p]]]
    BY <1>6 DEF MaskFaces, OnValid
<1>8. SetOwn(mask2dCu, mask2dCu', b, XFace, UFaceMask(b))
    BY <1>5, OwnPoints, StaggersAre DEF Steady, Arrays
<1>9. SetOwn(mask2dCv, mask2dCv', b, YFace, VFaceMask(b))
    BY <1>7, OwnPoints, StaggersAre DEF Steady, Arrays
<1> QED
    BY <1>2, <1>8, <1>9

LEMMA PassFacesEffect ==
    ASSUME Steady, NEW b \in Boxes, PassFaces(b)
    PROVE  /\ Moves(b, 7) /\ Heard(b, XFace) /\ Heard(b, YFace)
           /\ Exchanged(mask2dCu, mask2dCu', b, XFace)
           /\ Exchanged(mask2dCv, mask2dCv', b, YFace)
           /\ UNCHANGED <<bathyT, mask2dT, mask2dBu>>
<1>1. pc[b] = 7
    BY StepNames DEF PassFaces
<1>2. Exchanged(mask2dCu, mask2dCu', b, XFace)
    BY Exchange, StaggersAre DEF PassFaces, Steady, Arrays
<1>3. Exchanged(mask2dCv, mask2dCv', b, YFace)
    BY Exchange, StaggersAre DEF PassFaces, Steady, Arrays
<1> QED
    BY <1>1, <1>2, <1>3 DEF PassFaces, Moves, Advance

LEMMA MaskVerticesEffect ==
    ASSUME Steady, NEW b \in Boxes, MaskVertices(b)
    PROVE  /\ Moves(b, 8)
           /\ SetOwn(mask2dBu, mask2dBu', b, Node, VertexMask(b))
           /\ UNCHANGED <<bathyT, mask2dT, mask2dCu, mask2dCv>>
<1>1. pc[b] = 8
    BY StepNames DEF MaskVertices
<1>2. Moves(b, 8) /\ UNCHANGED <<bathyT, mask2dT, mask2dCu, mask2dCv>>
    BY <1>1 DEF MaskVertices, Moves, Advance
<1>3. DOMAIN mask2dBu[b] = Grown(b, Node)
    BY DEF Steady, Arrays, Array, Over
<1>4. [p \in DOMAIN mask2dBu[b] |-> IF p \in Valid(b, Node)
                                    THEN Product({Read(mask2dCu, b, South(p)), Read(mask2dCu, b, p),
                                                  Read(mask2dCv, b, West(p)), Read(mask2dCv, b, p)})
                                    ELSE mask2dBu[b][p]]
      = [p \in DOMAIN mask2dBu[b] |-> IF p \in Valid(b, Node) THEN VertexMask(b)[p] ELSE mask2dBu[b][p]]
    BY <1>3 DEF VertexMask
<1>5. mask2dBu' = [mask2dBu EXCEPT ![b] =
                     [p \in DOMAIN mask2dBu[b] |-> IF p \in Valid(b, Node) THEN VertexMask(b)[p] ELSE mask2dBu[b][p]]]
    BY <1>4 DEF MaskVertices, OnValid
<1> QED
    BY <1>2, <1>5, OwnPoints, StaggersAre DEF Steady, Arrays

LEMMA PassMaskBuEffect ==
    ASSUME Steady, NEW b \in Boxes, PassMaskBu(b)
    PROVE  /\ Moves(b, 9) /\ Heard(b, Node)
           /\ Exchanged(mask2dBu, mask2dBu', b, Node)
           /\ UNCHANGED <<bathyT, mask2dT, mask2dCu, mask2dCv>>
<1>1. pc[b] = 9
    BY StepNames DEF PassMaskBu
<1> QED
    BY <1>1, Exchange, StaggersAre DEF PassMaskBu, Steady, Arrays, Moves, Advance

\* A step of a rank touches its own arrays only
Apart(b) ==
    \A c \in Boxes \ {b} :
        /\ pc'[c] = pc[c] /\ bathyT'[c] = bathyT[c] /\ mask2dT'[c] = mask2dT[c]
        /\ mask2dCu'[c] = mask2dCu[c] /\ mask2dCv'[c] = mask2dCv[c] /\ mask2dBu'[c] = mask2dBu[c]

LEMMA MovesFrame ==
    ASSUME Steady, NEW b \in Boxes, NEW k \in 1 .. 9, Moves(b, k)
    PROVE  /\ pc[b] = k /\ pc'[b] = k + 1
           /\ pc' \in [Boxes -> 0 .. Done]
           /\ \A c \in Boxes \ {b} : pc'[c] = pc[c]
           /\ UNCHANGED inputs
BY DEF Moves, Steady, Done

LEMMA RankStepFrame ==
    ASSUME Steady, NEW b \in Boxes, RankStep(b)
    PROVE  Apart(b) /\ Steady' /\ UNCHANGED inputs
<1> USE DEF Exchanged, Wiped, SetOwn, Changed
<1>1. CASE InitializeTopography(b)
  <2>1. CASE pc' = [pc EXCEPT ![b] = Failed] /\ UNCHANGED <<inputs, fields>>
      BY <2>1 DEF Apart, Steady, Arrays, fields, inputs, Failed, Done
  <2>2. CASE /\ Moves(b, 1)
             /\ Array(bathyT', Cell) /\ Changed(bathyT, bathyT', b, Cell)
             /\ UNCHANGED <<mask2dT, mask2dCu, mask2dCv, mask2dBu>>
      BY <2>2, MovesFrame DEF Apart, Steady, Arrays
  <2> QED
      BY <1>1, <2>1, <2>2, TopographyEffect
<1>2. CASE PassBathyT(b)
    BY <1>2, PassBathyTEffect, MovesFrame DEF Apart, Steady, Arrays
<1>3. CASE ZeroMasks(b)
    BY <1>3, ZeroMasksEffect, MovesFrame DEF Apart, Steady, Arrays
<1>4. CASE MaskCells(b)
    BY <1>4, MaskCellsEffect, MovesFrame DEF Apart, Steady, Arrays
<1>5. CASE PassMaskT(b)
    BY <1>5, PassMaskTEffect, MovesFrame DEF Apart, Steady, Arrays
<1>6. CASE MaskFaces(b)
    BY <1>6, MaskFacesEffect, MovesFrame DEF Apart, Steady, Arrays
<1>7. CASE PassFaces(b)
    BY <1>7, PassFacesEffect, MovesFrame DEF Apart, Steady, Arrays
<1>8. CASE MaskVertices(b)
    BY <1>8, MaskVerticesEffect, MovesFrame DEF Apart, Steady, Arrays
<1>9. CASE PassMaskBu(b)
    BY <1>9, PassMaskBuEffect, MovesFrame DEF Apart, Steady, Arrays
<1> QED
    BY <1>1, <1>2, <1>3, <1>4, <1>5, <1>6, <1>7, <1>8, <1>9 DEF RankStep

LEMMA SteadyInit == Init => Steady /\ Inputs
<1> SUFFICES ASSUME Init PROVE Steady /\ Inputs
    OBVIOUS
<1>1. Inputs
    BY DEF Init, Inputs
<1>2. ASSUME NEW s PROVE Array(Uninitialised(s), s)
    BY DEF Array, Uninitialised, Over
<1>3. pc \in [Boxes -> 0 .. Done]
    BY DEF Init, Done
<1>4. Arrays
    BY <1>2 DEF Init, Arrays
<1> QED
    BY <1>1, <1>3, <1>4 DEF Steady

LEMMA SteadyStep ==
    ASSUME Steady, Inputs, [Next]_vars
    PROVE  Steady' /\ Inputs'
<1>1. CASE UNCHANGED vars
    BY <1>1 DEF vars, inputs, fields, Steady, Arrays, Inputs
<1>2. ASSUME NEW b \in Boxes, RankStep(b)
      PROVE  Steady' /\ Inputs'
    BY <1>2, RankStepFrame DEF Inputs, inputs
<1> QED
    BY <1>1, <1>2 DEF Next, Finished

LEMMA SteadyAlways == Spec => [](Steady /\ Inputs)
BY SteadyInit, SteadyStep, PTL DEF Spec

-----------------------------------------------------------------------------
\* The types of the fields

LEMMA OwnCells ==
    ASSUME NEW b \in Boxes
    PROVE  Valid(b, Cell) \subseteq Cells
BY BoxType, GridAssumption DEF Valid, Cell, Cells

LEMMA DepthTypes ==
    ASSUME Inputs
    PROVE  /\ minDepth \in Int /\ maxDepth \in Int /\ minDepth \div 2 \in Int
           /\ maskDepth # Unset => maskDepth \in Int
           /\ \A p \in Cells : raw[p] \in Int
<1>1. minDepth \in Int /\ maxDepth \in Int
    BY GridAssumption DEF Inputs
<1>2. minDepth \div 2 \in Int
    BY <1>1
<1>3. maskDepth # Unset => maskDepth \in Int
    BY GridAssumption DEF Inputs
<1>4. \A p \in Cells : raw[p] \in Int
    BY GridAssumption DEF Inputs
<1> QED
    BY <1>1, <1>2, <1>3, <1>4

LEMMA NamedType ==
    ASSUME Inputs, NEW d \in Int
    PROVE  Named(d) \in Int
<1>1. minDepth \in Int /\ maxDepth \in Int /\ minDepth \div 2 \in Int
    BY DepthTypes
<1> QED
    BY <1>1 DEF Named, Smaller

LEMMA LimitedType ==
    ASSUME Inputs, NEW d \in Int
    PROVE  Limited(d) \in Int
<1>1. minDepth \in Int /\ maxDepth \in Int /\ minDepth \div 2 \in Int /\ (maskDepth # Unset => maskDepth \in Int)
    BY DepthTypes
<1> DEFINE half == minDepth \div 2
<1> HIDE DEF half
<1>2. half \in Int /\ Limited(d) = IF maskDepth = Unset THEN Smaller(Larger(d, half), maxDepth)
                                   ELSE IF d > Smaller(minDepth, maskDepth)
                                   THEN Smaller(Larger(d, minDepth), maxDepth)
                                   ELSE Smaller(minDepth, maskDepth)
    BY <1>1 DEF Limited, half
<1> QED
    BY <1>1, <1>2 DEF Smaller, Larger

\* The types of one box's fields
TypedBox(b) ==
    /\ bathyT[b] \in [Grown(b, Cell) -> DepthsOf(b)]
    /\ mask2dT[b] \in [Grown(b, Cell) -> MasksOf(b)]
    /\ mask2dCu[b] \in [Grown(b, XFace) -> MasksOf(b)]
    /\ mask2dCv[b] \in [Grown(b, YFace) -> MasksOf(b)]
    /\ mask2dBu[b] \in [Grown(b, Node) -> MasksOf(b)]

TypeInv == Steady /\ Inputs /\ GridTypeOK

LEMMA ArrayType ==
    ASSUME NEW f, NEW s, Array(f, s), NEW b \in Boxes, NEW S, \A p \in Grown(b, s) : f[b][p] \in S
    PROVE  f[b] \in [Grown(b, s) -> S]
BY DEF Array, Over

\* A stencil that stays within the halo reads what the halo holds
LEMMA ReadType ==
    ASSUME NEW f, NEW s, NEW b \in Boxes, NEW S, f[b] \in [Grown(b, s) -> S], NEW p \in Grown(b, s)
    PROVE  Read(f, b, p) \in S /\ Read(f, b, p) = f[b][p]
BY DEF Read

LEMMA ProductType ==
    ASSUME NEW values, values \subseteq {0, 1}
    PROVE  Product(values) \in {0, 1}
BY DEF Product

WideHalos == NIHalo >= 1 /\ NJHalo >= 1

\* With a halo every own point's western and southern neighbours are held
LEMMA StencilHeld ==
    ASSUME WideHalos, NEW b \in Boxes
    PROVE  /\ \A p \in Valid(b, XFace) : p \in Grown(b, Cell) /\ West(p) \in Grown(b, Cell)
           /\ \A p \in Valid(b, YFace) : p \in Grown(b, Cell) /\ South(p) \in Grown(b, Cell)
           /\ \A p \in Valid(b, Node) : /\ p \in Grown(b, XFace) /\ South(p) \in Grown(b, XFace)
                                        /\ p \in Grown(b, YFace) /\ West(p) \in Grown(b, YFace)
<1>1. /\ b[1][1] \in Int /\ b[1][2] \in Int /\ b[2][1] \in Int /\ b[2][2] \in Int
      /\ NIHalo \in Int /\ NJHalo \in Int
    BY BoxType, GridAssumption
<1>2. \A p \in Valid(b, XFace) : p \in Grown(b, Cell) /\ West(p) \in Grown(b, Cell)
    BY <1>1 DEF WideHalos, Valid, Grown, Cell, XFace, West
<1>3. \A p \in Valid(b, YFace) : p \in Grown(b, Cell) /\ South(p) \in Grown(b, Cell)
    BY <1>1 DEF WideHalos, Valid, Grown, Cell, YFace, South
<1>4. \A p \in Valid(b, Node) : p \in Grown(b, XFace) /\ South(p) \in Grown(b, XFace)
    BY <1>1 DEF WideHalos, Valid, Grown, Node, XFace, South
<1>5. \A p \in Valid(b, Node) : p \in Grown(b, YFace) /\ West(p) \in Grown(b, YFace)
    BY <1>1 DEF WideHalos, Valid, Grown, Node, YFace, West
<1> QED
    BY <1>2, <1>3, <1>4, <1>5

\* An exchange brings no value its neighbours do not hold
LEMMA ExchangedType ==
    ASSUME Inputs, NEW f, NEW g, NEW s \in Staggers, NEW b \in Boxes, Array(f, s), Exchanged(f, g, b, s), NEW S,
           f[b] \in [Grown(b, s) -> S],
           \A c \in Neighbours[Connectivity][s][b] \cap Boxes : f[c] \in [Grown(c, s) -> S]
    PROVE  g[b] \in [Grown(b, s) -> S]
<1>1. ASSUME NEW p \in Grown(b, s) PROVE g[b][p] \in S
  <2>1. g[b][p] = Filled(f, b, s)[p]
      BY DEF Exchanged
  <2>2. CASE Filled(f, b, s)[p] = f[b][p]
      BY <2>1, <2>2
  <2>3. ASSUME NEW c \in Neighbours[Connectivity][s][b] \cap Boxes, NEW q \in Valid(c, s), Filled(f, b, s)[p] = f[c][q]
        PROVE  g[b][p] \in S
    <3>1. q \in Grown(c, s)
        BY ValidInGrown
    <3> QED
        BY <2>1, <2>3, <3>1
  <2> QED
      BY <2>2, <2>3, FilledPoint
<1> QED
    BY <1>1, ArrayType DEF Exchanged

LEMMA TypedStep ==
    ASSUME WideHalos, TypeInv, NEW b \in Boxes, RankStep(b)
    PROVE  TypedBox(b)'
<1> USE DEF TypeInv
<1>1. TypedBox(b) /\ pc[b] \in 0 .. Done /\ \A c \in Boxes : TypedBox(c)
    BY DEF GridTypeOK, TypedBox
<1>2. CASE InitializeTopography(b)
  <2>1. CASE pc[b] = 1 /\ pc' = [pc EXCEPT ![b] = Failed] /\ UNCHANGED <<inputs, fields>>
    <3>1. DepthsOf(b)' = DepthsOf(b) /\ MasksOf(b)' = MasksOf(b)
        BY <2>1 DEF DepthsOf, MasksOf, Failed, Steady
    <3> QED
        BY <1>1, <2>1, <3>1 DEF TypedBox, fields
  <2>2. CASE /\ Moves(b, 1) /\ Array(bathyT', Cell)
             /\ \A p \in Grown(b, Cell) :
                    bathyT'[b][p] = Limited(IF p \in Valid(b, Cell) THEN Named(raw[p]) ELSE 0)
             /\ UNCHANGED <<mask2dT, mask2dCu, mask2dCv, mask2dBu>>
    <3>1. DepthsOf(b)' = Int /\ MasksOf(b)' = MasksOf(b)
        BY <2>2, MovesFrame DEF DepthsOf, MasksOf
    <3>2. ASSUME NEW p \in Grown(b, Cell) PROVE bathyT'[b][p] \in Int
      <4>1. CASE p \in Valid(b, Cell)
          BY <2>2, <4>1, OwnCells, DepthTypes, NamedType, LimitedType
      <4>2. CASE p \notin Valid(b, Cell)
          BY <2>2, <4>2, LimitedType
      <4> QED
          BY <4>1, <4>2
    <3>3. bathyT'[b] \in [Grown(b, Cell) -> Int]
        BY <2>2, <3>2, ArrayType
    <3> QED
        BY <1>1, <2>2, <3>1, <3>3 DEF TypedBox
  <2> QED
      BY <1>2, <2>1, <2>2, TopographyEffect
<1>3. CASE PassBathyT(b)
  <2>1. Moves(b, 2) /\ Heard(b, Cell) /\ Exchanged(bathyT, bathyT', b, Cell)
        /\ UNCHANGED <<mask2dT, mask2dCu, mask2dCv, mask2dBu>>
      BY <1>3, PassBathyTEffect
  <2>2. pc[b] = 2 /\ DepthsOf(b) = Int /\ DepthsOf(b)' = Int /\ MasksOf(b)' = MasksOf(b)
      BY <2>1, MovesFrame DEF DepthsOf, MasksOf
  <2>3. ASSUME NEW c \in Neighbours[Connectivity][Cell][b] \cap Boxes
        PROVE  bathyT[c] \in [Grown(c, Cell) -> Int]
    <3>1. pc[c] > 1
        BY <2>1, <2>2 DEF Heard, Steady
    <3> QED
        BY <1>1, <3>1 DEF TypedBox, DepthsOf
  <2>4. bathyT'[b] \in [Grown(b, Cell) -> Int]
      BY <1>1, <2>1, <2>2, <2>3, ExchangedType, StaggersAre DEF TypedBox, Steady, Arrays
  <2> QED
      BY <1>1, <2>1, <2>2, <2>4 DEF TypedBox
<1>4. CASE ZeroMasks(b)
  <2>1. Moves(b, 3) /\ UNCHANGED bathyT
      BY <1>4, ZeroMasksEffect
  <2>2. DepthsOf(b)' = DepthsOf(b) /\ MasksOf(b)' = {0, 1}
      BY <2>1, MovesFrame DEF DepthsOf, MasksOf
  <2>3. ASSUME NEW f, NEW g, NEW s, Wiped(f, g, b, s) PROVE g[b] \in [Grown(b, s) -> {0, 1}]
      BY <2>3, ArrayType DEF Wiped
  <2>4. mask2dT'[b] \in [Grown(b, Cell) -> {0, 1}] /\ mask2dCu'[b] \in [Grown(b, XFace) -> {0, 1}]
      BY <1>4, <2>3, ZeroMasksEffect
  <2>5. mask2dCv'[b] \in [Grown(b, YFace) -> {0, 1}] /\ mask2dBu'[b] \in [Grown(b, Node) -> {0, 1}]
      BY <1>4, <2>3, ZeroMasksEffect
  <2> QED
      BY <1>1, <2>1, <2>2, <2>4, <2>5 DEF TypedBox
<1>5. ASSUME NEW k \in 4 .. 9, Moves(b, k)
      PROVE  /\ DepthsOf(b)' = DepthsOf(b) /\ MasksOf(b)' = {0, 1} /\ MasksOf(b) = {0, 1}
             /\ pc[b] = k
      BY <1>5, MovesFrame DEF DepthsOf, MasksOf
<1>6. ASSUME NEW f, NEW g, NEW s, NEW value, SetOwn(f, g, b, s, value), f[b] \in [Grown(b, s) -> {0, 1}],
             \A p \in Valid(b, s) : value[p] \in {0, 1}
      PROVE  g[b] \in [Grown(b, s) -> {0, 1}]
  <2>1. \A p \in Grown(b, s) : g[b][p] \in {0, 1}
      BY <1>6 DEF SetOwn
  <2> QED
      BY <1>6, <2>1, ArrayType DEF SetOwn
<1>7. ASSUME NEW k \in 4 .. 9, Moves(b, k), NEW s, NEW c \in Neighbours[Connectivity][s][b] \cap Boxes, Heard(b, s)
      PROVE  MasksOf(c) = {0, 1}
    BY <1>7, <1>5 DEF Heard, MasksOf, Steady
<1>8. CASE MaskCells(b)
  <2>1. \A p \in Valid(b, Cell) : CellMask(b)[p] \in {0, 1}
      BY ValidInGrown, StaggersAre DEF CellMask
  <2>2. mask2dT'[b] \in [Grown(b, Cell) -> {0, 1}]
      BY <1>1, <1>5, <1>6, <1>8, <2>1, MaskCellsEffect DEF TypedBox
  <2> QED
      BY <1>1, <1>5, <1>8, <2>2, MaskCellsEffect DEF TypedBox
<1>9. CASE PassMaskT(b)
  <2>1. Moves(b, 5) /\ Heard(b, Cell) /\ Exchanged(mask2dT, mask2dT', b, Cell)
        /\ UNCHANGED <<bathyT, mask2dCu, mask2dCv, mask2dBu>>
      BY <1>9, PassMaskTEffect
  <2>2. \A c \in Neighbours[Connectivity][Cell][b] \cap Boxes : mask2dT[c] \in [Grown(c, Cell) -> {0, 1}]
      BY <1>1, <1>7, <2>1 DEF TypedBox
  <2>3. mask2dT[b] \in [Grown(b, Cell) -> {0, 1}]
      BY <1>1, <1>5, <2>1 DEF TypedBox
  <2>4. mask2dT'[b] \in [Grown(b, Cell) -> {0, 1}]
      BY <2>1, <2>2, <2>3, ExchangedType, StaggersAre DEF Steady, Arrays
  <2> QED
      BY <1>1, <1>5, <2>1, <2>4 DEF TypedBox
<1>10. CASE MaskFaces(b)
  <2>1. Moves(b, 6) /\ UNCHANGED <<bathyT, mask2dT, mask2dBu>>
        /\ SetOwn(mask2dCu, mask2dCu', b, XFace, UFaceMask(b))
        /\ SetOwn(mask2dCv, mask2dCv', b, YFace, VFaceMask(b))
      BY <1>10, MaskFacesEffect
  <2>2. mask2dT[b] \in [Grown(b, Cell) -> {0, 1}]
      BY <1>1, <1>5, <2>1 DEF TypedBox
  <2>3. ASSUME NEW p \in Valid(b, XFace) PROVE UFaceMask(b)[p] \in {0, 1}
    <3>1. p \in Grown(b, XFace)
        BY ValidInGrown, StaggersAre
    <3>2. Read(mask2dT, b, West(p)) \in {0, 1} /\ Read(mask2dT, b, p) \in {0, 1}
        BY <2>2, StencilHeld, ReadType
    <3>3. {Read(mask2dT, b, West(p)), Read(mask2dT, b, p)} \subseteq {0, 1}
        BY <3>2
    <3> QED
        BY <3>1, <3>3, ProductType DEF UFaceMask
  <2>4. ASSUME NEW p \in Valid(b, YFace) PROVE VFaceMask(b)[p] \in {0, 1}
    <3>1. p \in Grown(b, YFace)
        BY ValidInGrown, StaggersAre
    <3>2. Read(mask2dT, b, South(p)) \in {0, 1} /\ Read(mask2dT, b, p) \in {0, 1}
        BY <2>2, StencilHeld, ReadType
    <3>3. {Read(mask2dT, b, South(p)), Read(mask2dT, b, p)} \subseteq {0, 1}
        BY <3>2
    <3> QED
        BY <3>1, <3>3, ProductType DEF VFaceMask
  <2>5. mask2dCu'[b] \in [Grown(b, XFace) -> {0, 1}]
      BY <1>1, <1>5, <1>6, <2>1, <2>3 DEF TypedBox
  <2>6. mask2dCv'[b] \in [Grown(b, YFace) -> {0, 1}]
      BY <1>1, <1>5, <1>6, <2>1, <2>4 DEF TypedBox
  <2> QED
      BY <1>1, <1>5, <2>1, <2>5, <2>6 DEF TypedBox
<1>11. CASE PassFaces(b)
  <2>1. Moves(b, 7) /\ Heard(b, XFace) /\ Heard(b, YFace) /\ UNCHANGED <<bathyT, mask2dT, mask2dBu>>
        /\ Exchanged(mask2dCu, mask2dCu', b, XFace) /\ Exchanged(mask2dCv, mask2dCv', b, YFace)
      BY <1>11, PassFacesEffect
  <2>2. \A c \in Neighbours[Connectivity][XFace][b] \cap Boxes : mask2dCu[c] \in [Grown(c, XFace) -> {0, 1}]
      BY <1>1, <1>7, <2>1 DEF TypedBox
  <2>3. \A c \in Neighbours[Connectivity][YFace][b] \cap Boxes : mask2dCv[c] \in [Grown(c, YFace) -> {0, 1}]
      BY <1>1, <1>7, <2>1 DEF TypedBox
  <2>4. mask2dCu[b] \in [Grown(b, XFace) -> {0, 1}] /\ mask2dCv[b] \in [Grown(b, YFace) -> {0, 1}]
      BY <1>1, <1>5, <2>1 DEF TypedBox
  <2>5. mask2dCu'[b] \in [Grown(b, XFace) -> {0, 1}]
    <3>1. Array(mask2dCu, XFace) /\ Exchanged(mask2dCu, mask2dCu', b, XFace)
        BY <2>1 DEF Steady, Arrays
    <3> QED
        BY <2>2, <2>4, <3>1, ExchangedType, StaggersAre
  <2>6. mask2dCv'[b] \in [Grown(b, YFace) -> {0, 1}]
      BY <2>1, <2>3, <2>4, ExchangedType, StaggersAre DEF Steady, Arrays
  <2> QED
      BY <1>1, <1>5, <2>1, <2>5, <2>6 DEF TypedBox
<1>12. CASE MaskVertices(b)
  <2>1. Moves(b, 8) /\ UNCHANGED <<bathyT, mask2dT, mask2dCu, mask2dCv>>
        /\ SetOwn(mask2dBu, mask2dBu', b, Node, VertexMask(b))
      BY <1>12, MaskVerticesEffect
  <2>2. mask2dCu[b] \in [Grown(b, XFace) -> {0, 1}] /\ mask2dCv[b] \in [Grown(b, YFace) -> {0, 1}]
      BY <1>1, <1>5, <2>1 DEF TypedBox
  <2>3. ASSUME NEW p \in Valid(b, Node) PROVE VertexMask(b)[p] \in {0, 1}
    <3> DEFINE values == {Read(mask2dCu, b, South(p)), Read(mask2dCu, b, p),
                          Read(mask2dCv, b, West(p)), Read(mask2dCv, b, p)}
    <3>1. p \in Grown(b, Node)
        BY ValidInGrown, StaggersAre
    <3>2. Read(mask2dCu, b, South(p)) \in {0, 1} /\ Read(mask2dCu, b, p) \in {0, 1}
        BY <2>2, StencilHeld, ReadType
    <3>3. Read(mask2dCv, b, West(p)) \in {0, 1} /\ Read(mask2dCv, b, p) \in {0, 1}
        BY <2>2, StencilHeld, ReadType
    <3>4. values \subseteq {0, 1}
        BY <3>2, <3>3
    <3>5. VertexMask(b)[p] = Product(values)
        BY <3>1 DEF VertexMask
    <3> QED
        BY <3>4, <3>5, ProductType
  <2>4. mask2dBu'[b] \in [Grown(b, Node) -> {0, 1}]
      BY <1>1, <1>5, <1>6, <2>1, <2>3 DEF TypedBox
  <2> QED
      BY <1>1, <1>5, <2>1, <2>4 DEF TypedBox
<1>13. CASE PassMaskBu(b)
  <2>1. Moves(b, 9) /\ Heard(b, Node) /\ Exchanged(mask2dBu, mask2dBu', b, Node)
        /\ UNCHANGED <<bathyT, mask2dT, mask2dCu, mask2dCv>>
      BY <1>13, PassMaskBuEffect
  <2>2. \A c \in Neighbours[Connectivity][Node][b] \cap Boxes : mask2dBu[c] \in [Grown(c, Node) -> {0, 1}]
      BY <1>1, <1>7, <2>1 DEF TypedBox
  <2>3. mask2dBu[b] \in [Grown(b, Node) -> {0, 1}]
      BY <1>1, <1>5, <2>1 DEF TypedBox
  <2>4. mask2dBu'[b] \in [Grown(b, Node) -> {0, 1}]
      BY <2>1, <2>2, <2>3, ExchangedType, StaggersAre DEF Steady, Arrays
  <2> QED
      BY <1>1, <1>5, <2>1, <2>4 DEF TypedBox
<1> QED
    BY <1>2, <1>3, <1>4, <1>8, <1>9, <1>10, <1>11, <1>12, <1>13 DEF RankStep

LEMMA TypeInit == Init => GridTypeOK
BY DEF Init, GridTypeOK, Uninitialised, DepthsOf, MasksOf, Done

LEMMA TypeStep ==
    ASSUME WideHalos, TypeInv, [Next]_vars
    PROVE  TypeInv'
<1>1. Steady' /\ Inputs'
    BY SteadyStep DEF TypeInv
<1>2. CASE UNCHANGED vars
    BY <1>1, <1>2 DEF vars, fields, TypeInv, GridTypeOK, DepthsOf, MasksOf
<1>3. ASSUME NEW b \in Boxes, RankStep(b)
      PROVE  GridTypeOK'
  <2>1. TypedBox(b)'
      BY <1>3, TypedStep
  <2>2. ASSUME NEW c \in Boxes \ {b} PROVE TypedBox(c)'
    <3>1. TypedBox(c)
        BY DEF TypeInv, GridTypeOK, TypedBox
    <3> QED
        BY <1>3, <3>1, RankStepFrame DEF TypeInv, Apart, TypedBox, DepthsOf, MasksOf
  <2> QED
      BY <1>1, <2>1, <2>2 DEF GridTypeOK, TypedBox, Steady
<1> QED
    BY <1>1, <1>2, <1>3 DEF Next, Finished, TypeInv

\* With a halo of at least one cell no step reads memory that nobody has set, on any
\* rank, however the ranks interleave.
THEOREM GridTypes == ASSUME WideHalos PROVE Spec => []GridTypeOK
<1>1. Init => TypeInv
    BY SteadyInit, TypeInit DEF TypeInv
<1>2. TypeInv /\ [Next]_vars => TypeInv'
    BY TypeStep
<1>3. TypeInv => GridTypeOK
    BY DEF TypeInv
<1> QED
    BY <1>1, <1>2, <1>3, PTL DEF Spec

-----------------------------------------------------------------------------
\* The depth of the ocean

\* A depth the limits let through as ocean lies between them
LEMMA LimitsHold ==
    ASSUME Inputs, minDepth <= maxDepth, NEW d \in Int, Limited(d) > LandDepth
    PROVE  minDepth <= Limited(d) /\ Limited(d) <= maxDepth
<1> DEFINE half == minDepth \div 2
<1>1. minDepth \in Int /\ maxDepth \in Int /\ half \in Int /\ (maskDepth # Unset => maskDepth \in Int)
    BY DepthTypes
<1> HIDE DEF half
<1>2. CASE maskDepth = Unset
  <2>1. Limited(d) = Smaller(Larger(d, half), maxDepth) /\ LandDepth = minDepth
      BY <1>2 DEF Limited, LandDepth, half
  <2> QED
      BY <1>1, <2>1 DEF Smaller, Larger
<1>3. CASE maskDepth # Unset
  <2>1. Limited(d) = (IF d > Smaller(minDepth, maskDepth) THEN Smaller(Larger(d, minDepth), maxDepth)
                      ELSE Smaller(minDepth, maskDepth)) /\ LandDepth = maskDepth
      BY <1>3 DEF Limited, LandDepth
  <2> QED
      BY <1>1, <1>3, <2>1 DEF Smaller, Larger
<1> QED
    BY <1>2, <1>3

\* A box's own cells: the limited depth, and ocean where that is below land
OwnDepths(b) ==
    /\ pc[b] > 1 => \A p \in Valid(b, Cell) : bathyT[b][p] = Limited(Named(raw[p]))
    /\ pc[b] > 4 => \A p \in Valid(b, Cell) : mask2dT[b][p] = IF bathyT[b][p] <= LandDepth THEN 0 ELSE 1

DepthInv == \A b \in Boxes : OwnDepths(b)

LEMMA InputsFixed ==
    ASSUME UNCHANGED inputs
    PROVE  /\ \A d : Limited(d)' = Limited(d)
           /\ \A d : Named(d)' = Named(d)
           /\ LandDepth' = LandDepth
           /\ Connectivity' = Connectivity
BY DEF inputs, Limited, Named, LandDepth, Connectivity

\* An exchange leaves own points as they are
LEMMA ExchangeKeepsOwn ==
    ASSUME Inputs, NEW f, NEW g, NEW s \in Staggers, NEW b \in Boxes, Array(f, s), Exchanged(f, g, b, s)
    PROVE  \A p \in Valid(b, s) : g[b][p] = f[b][p]
BY FilledPoint, ValidInGrown DEF Exchanged

LEMMA OwnDepthsStep ==
    ASSUME Steady, Inputs, NEW b \in Boxes, OwnDepths(b), RankStep(b)
    PROVE  OwnDepths(b)'
<1> DEFINE v == Valid(b, Cell)
<1>1. UNCHANGED inputs /\ pc[b] \in 0 .. Done
    BY RankStepFrame DEF Steady
<1>2. v \subseteq Grown(b, Cell) /\ v \subseteq Cells
    BY ValidInGrown, StaggersAre, OwnCells
<1>3. ASSUME UNCHANGED <<bathyT, mask2dT>>, pc'[b] > 1 => pc[b] > 1, pc'[b] > 4 => pc[b] > 4
      PROVE  OwnDepths(b)'
    BY <1>1, <1>3, InputsFixed DEF OwnDepths, inputs
<1>4. CASE InitializeTopography(b)
  <2>1. CASE pc[b] = 1 /\ pc' = [pc EXCEPT ![b] = Failed] /\ UNCHANGED <<inputs, fields>>
      BY <1>3, <2>1 DEF fields, Failed, Steady
  <2>2. CASE /\ Moves(b, 1)
             /\ \A p \in Grown(b, Cell) :
                    bathyT'[b][p] = Limited(IF p \in Valid(b, Cell) THEN Named(raw[p]) ELSE 0)
    <3>1. \A p \in v : bathyT'[b][p] = Limited(Named(raw[p]))
        BY <1>2, <2>2
    <3>2. pc'[b] = 2
        BY <2>2, MovesFrame
    <3>3. UNCHANGED raw
        BY <1>1 DEF inputs
    <3> QED
        BY <1>1, <3>1, <3>2, <3>3, InputsFixed DEF OwnDepths
  <2> QED
      BY <1>4, <2>1, <2>2, TopographyEffect
<1>5. CASE PassBathyT(b)
  <2>1. Moves(b, 2) /\ Exchanged(bathyT, bathyT', b, Cell)
      BY <1>5, PassBathyTEffect
  <2>2. pc[b] = 2 /\ pc'[b] = 3
      BY <2>1, MovesFrame
  <2>3. \A p \in v : bathyT'[b][p] = bathyT[b][p]
      BY <2>1, ExchangeKeepsOwn, StaggersAre DEF Steady, Arrays
  <2> QED
      BY <1>1, <2>2, <2>3, InputsFixed DEF OwnDepths, inputs
<1>6. CASE ZeroMasks(b)
  <2>1. pc[b] = 3 /\ pc'[b] = 4 /\ UNCHANGED bathyT
      BY <1>6, ZeroMasksEffect, MovesFrame
  <2> QED
      BY <1>1, <2>1, InputsFixed DEF OwnDepths, inputs
<1>7. CASE MaskCells(b)
  <2>1. Moves(b, 4) /\ UNCHANGED bathyT /\ SetOwn(mask2dT, mask2dT', b, Cell, CellMask(b))
      BY <1>7, MaskCellsEffect
  <2>2. pc[b] = 4 /\ pc'[b] = 5
      BY <2>1, MovesFrame
  <2>3. \A p \in v : mask2dT'[b][p] = IF bathyT[b][p] <= LandDepth THEN 0 ELSE 1
      BY <1>2, <2>1 DEF SetOwn, CellMask
  <2> QED
      BY <1>1, <2>1, <2>2, <2>3, InputsFixed DEF OwnDepths, inputs
<1>8. CASE PassMaskT(b)
  <2>1. Moves(b, 5) /\ UNCHANGED bathyT /\ Exchanged(mask2dT, mask2dT', b, Cell)
      BY <1>8, PassMaskTEffect
  <2>2. pc[b] = 5 /\ pc'[b] = 6
      BY <2>1, MovesFrame
  <2>3. \A p \in v : mask2dT'[b][p] = mask2dT[b][p]
      BY <2>1, ExchangeKeepsOwn, StaggersAre DEF Steady, Arrays
  <2> QED
      BY <1>1, <2>1, <2>2, <2>3, InputsFixed DEF OwnDepths, inputs
<1>9. ASSUME NEW k \in 6 .. 9, Moves(b, k), UNCHANGED <<bathyT, mask2dT>>
      PROVE  OwnDepths(b)'
    BY <1>3, <1>9, MovesFrame
<1>10. CASE MaskFaces(b)
    BY <1>9, <1>10, MaskFacesEffect
<1>11. CASE PassFaces(b)
    BY <1>9, <1>11, PassFacesEffect
<1>12. CASE MaskVertices(b)
    BY <1>9, <1>12, MaskVerticesEffect
<1>13. CASE PassMaskBu(b)
    BY <1>9, <1>13, PassMaskBuEffect
<1> QED
    BY <1>4, <1>5, <1>6, <1>7, <1>8, <1>10, <1>11, <1>12, <1>13 DEF RankStep

LEMMA DepthInvStep ==
    ASSUME Steady, Inputs, DepthInv, [Next]_vars
    PROVE  DepthInv'
<1>1. CASE UNCHANGED vars
    BY <1>1, InputsFixed DEF vars, fields, inputs, DepthInv, OwnDepths
<1>2. ASSUME NEW b \in Boxes, RankStep(b)
      PROVE  DepthInv'
  <2>1. OwnDepths(b)'
      BY <1>2, OwnDepthsStep DEF DepthInv
  <2>2. ASSUME NEW c \in Boxes \ {b} PROVE OwnDepths(c)'
    <3>1. OwnDepths(c)
        BY DEF DepthInv
    <3>2. UNCHANGED inputs /\ pc'[c] = pc[c] /\ bathyT'[c] = bathyT[c] /\ mask2dT'[c] = mask2dT[c]
        BY <1>2, RankStepFrame DEF Apart
    <3> QED
        BY <3>1, <3>2, InputsFixed DEF OwnDepths, inputs
  <2> QED
      BY <2>1, <2>2 DEF DepthInv
<1> QED
    BY <1>1, <1>2 DEF Next, Finished

LEMMA DepthInvBounds ==
    ASSUME Inputs, DepthInv
    PROVE  OceanDepthInBounds
<1> SUFFICES ASSUME minDepth <= maxDepth, NEW b \in Boxes, pc[b] = Done,
                    NEW p \in Valid(b, Cell), mask2dT[b][p] = 1
             PROVE  minDepth <= bathyT[b][p] /\ bathyT[b][p] <= maxDepth
    BY DEF OceanDepthInBounds
<1> DEFINE d == Named(raw[p])
<1>1. bathyT[b][p] = Limited(d) /\ mask2dT[b][p] = IF bathyT[b][p] <= LandDepth THEN 0 ELSE 1
    BY DEF DepthInv, OwnDepths, Done
<1>2. d \in Int /\ Limited(d) \in Int
    BY OwnCells, DepthTypes, NamedType, LimitedType
<1>3. LandDepth \in Int
    BY DepthTypes DEF LandDepth
<1>4. Limited(d) > LandDepth
    BY <1>1, <1>2, <1>3
<1> HIDE DEF d
<1> QED
    BY <1>1, <1>2, <1>4, LimitsHold

\* Ocean is as deep as was asked on every rank that is done: the limits of the depth
\* and the threshold of the mask fit together.
THEOREM OceanDepths == Spec => []OceanDepthInBounds
<1>1. Init => Steady /\ Inputs /\ DepthInv
    BY SteadyInit DEF Init, DepthInv, OwnDepths
<1>2. Steady /\ Inputs /\ DepthInv /\ [Next]_vars => (Steady /\ Inputs /\ DepthInv)'
    BY SteadyStep, DepthInvStep
<1>3. Steady /\ Inputs /\ DepthInv => OceanDepthInBounds
    BY DepthInvBounds
<1> QED
    BY <1>1, <1>2, <1>3, PTL DEF Spec

-----------------------------------------------------------------------------
\* Where points lie in the periodic plane

\* A halo that is there, and narrower than the grid
HalosFit == NIHalo \in 1 .. NI - 1 /\ NJHalo \in 1 .. NJ - 1

LEMMA ShiftsAre ==
    ASSUME NEW N \in Nat, NEW r \in BOOLEAN, NEW a \in Shifts(N, r)
    PROVE  a \in Int /\ (a = 0 \/ (r /\ (a = N \/ a = -N)))
BY DEF Shifts

LEMMA ShiftBy ==
    ASSUME NEW N \in Nat, NEW r \in BOOLEAN, NEW a \in Int
    PROVE  a \in Shifts(N, r) <=> (a = 0 \/ (r /\ (a = N \/ a = -N)))
BY DEF Shifts

LEMMA ImagesAre ==
    ASSUME NEW conn \in Connectivities, NEW p \in Int \X Int, NEW q \in Int \X Int
    PROVE  q \in Images(p, conn) <=>
              /\ q[1] - p[1] \in Shifts(NI, conn[1])
              /\ q[2] - p[2] \in Shifts(NJ, conn[2])
<1>1. conn[1] \in BOOLEAN /\ conn[2] \in BOOLEAN /\ NI \in Nat /\ NJ \in Nat
    BY GridAssumption DEF Connectivities
<1>2. ASSUME q \in Images(p, conn)
      PROVE  q[1] - p[1] \in Shifts(NI, conn[1]) /\ q[2] - p[2] \in Shifts(NJ, conn[2])
  <2>1. PICK a \in Shifts(NI, conn[1]), b \in Shifts(NJ, conn[2]) : q = <<p[1] + a, p[2] + b>>
      BY <1>2 DEF Images
  <2>2. a \in Int /\ b \in Int
      BY <1>1, ShiftsAre
  <2>3. q[1] - p[1] = a /\ q[2] - p[2] = b
      BY <2>1, <2>2
  <2> QED
      BY <2>3
<1>3. ASSUME q[1] - p[1] \in Shifts(NI, conn[1]), q[2] - p[2] \in Shifts(NJ, conn[2])
      PROVE  q \in Images(p, conn)
  <2> DEFINE a == q[1] - p[1]
             b == q[2] - p[2]
  <2>1. q = <<p[1] + a, p[2] + b>>
      OBVIOUS
  <2> HIDE DEF a, b
  <2> QED
      BY <1>3, <2>1 DEF Images, a, b
<1> QED
    BY <1>2, <1>3

\* Two images of a point within the grid are the same
LEMMA OneHome ==
    ASSUME NEW conn \in Connectivities, NEW p \in Int \X Int,
           NEW q \in Images(p, conn) \cap Cells, NEW r \in Images(p, conn) \cap Cells
    PROVE  q = r
<1>1. conn[1] \in BOOLEAN /\ conn[2] \in BOOLEAN /\ NI \in Nat /\ NJ \in Nat /\ NI > 0 /\ NJ > 0
    BY GridAssumption DEF Connectivities
<1>2. q \in (0 .. NI - 1) \X (0 .. NJ - 1) /\ r \in (0 .. NI - 1) \X (0 .. NJ - 1)
    BY DEF Cells
<1>3. /\ q[1] - p[1] \in Shifts(NI, conn[1]) /\ q[2] - p[2] \in Shifts(NJ, conn[2])
      /\ r[1] - p[1] \in Shifts(NI, conn[1]) /\ r[2] - p[2] \in Shifts(NJ, conn[2])
    BY <1>1, <1>2, ImagesAre
<1>4. ASSUME NEW N \in Nat, N > 0, NEW i \in Int, NEW j \in 0 .. N - 1, NEW k \in 0 .. N - 1, NEW re \in BOOLEAN,
             j - i \in Shifts(N, re), k - i \in Shifts(N, re)
      PROVE  j = k
  <2>1. /\ j - i = 0 \/ j - i = N \/ j - i = -N
        /\ k - i = 0 \/ k - i = N \/ k - i = -N
      BY <1>4, ShiftsAre
  <2> QED
      BY <1>4, <2>1
<1>5. q[1] = r[1]
    BY <1>1, <1>2, <1>3, <1>4
<1>6. q[2] = r[2]
    BY <1>1, <1>2, <1>3, <1>4
<1> QED
    BY <1>2, <1>5, <1>6

LEMMA HomeIs ==
    ASSUME NEW conn \in Connectivities, NEW p \in Plane
    PROVE  /\ \A q \in Images(p, conn) \cap Cells : Home[conn][p] = q
           /\ Images(p, conn) \cap Cells = {} => Home[conn][p] = Outside
           /\ Home[conn][p] # Outside => Home[conn][p] \in Images(p, conn) \cap Cells
<1> DEFINE home == CHOOSE q \in Images(p, conn) : q \in Cells
<1>1. Home[conn][p] = IF \E q \in Images(p, conn) : q \in Cells THEN home ELSE Outside
    BY DEF Home
<1>2. (\E q \in Images(p, conn) : q \in Cells) => home \in Images(p, conn) \cap Cells
    OBVIOUS
<1> HIDE DEF home
<1>3. p \in Int \X Int
    BY GridAssumption DEF Plane
<1>4. ASSUME NEW q \in Images(p, conn) \cap Cells PROVE Home[conn][p] = q
  <2>1. home \in Images(p, conn) \cap Cells /\ Home[conn][p] = home
      BY <1>1, <1>2
  <2> QED
      BY <1>3, <2>1, OneHome
<1>5. Images(p, conn) \cap Cells = {} => Home[conn][p] = Outside
    BY <1>1
<1>6. Home[conn][p] # Outside => Home[conn][p] \in Images(p, conn) \cap Cells
    BY <1>1, <1>2
<1> QED
    BY <1>4, <1>5, <1>6

LEMMA OutsideIs == Outside \notin Cells
BY GridAssumption DEF Outside, Cells

\* Points within one grid's width of the grid that are images of each other lie
\* over the same cell of the grid, if over any
LEMMA SameHome ==
    ASSUME HalosFit, NEW conn \in Connectivities, NEW x \in Plane, NEW y \in Plane, y \in Images(x, conn)
    PROVE  Home[conn][x] = Home[conn][y]
<1>1. conn[1] \in BOOLEAN /\ conn[2] \in BOOLEAN /\ NI \in Nat /\ NJ \in Nat /\ NI > 0 /\ NJ > 0
    BY GridAssumption DEF Connectivities
<1>2. x \in (-NI .. 2 * NI - 1) \X (-NJ .. 2 * NJ - 1) /\ y \in (-NI .. 2 * NI - 1) \X (-NJ .. 2 * NJ - 1)
    BY <1>1 DEF Plane, HalosFit
<1>3. x \in Int \X Int /\ y \in Int \X Int
    BY <1>1, <1>2
<1>4. y[1] - x[1] \in Shifts(NI, conn[1]) /\ y[2] - x[2] \in Shifts(NJ, conn[2])
    BY <1>3, ImagesAre
<1>5. ASSUME NEW N \in Nat, N > 0, NEW i \in -N .. 2 * N - 1, NEW j \in -N .. 2 * N - 1, NEW re \in BOOLEAN,
             j - i \in Shifts(N, re), NEW k \in 0 .. N - 1
      PROVE  k - i \in Shifts(N, re) <=> k - j \in Shifts(N, re)
  <2>1. j - i = 0 \/ (re /\ (j - i = N \/ j - i = -N))
      BY <1>5, ShiftsAre
  <2>2. k - i \in Int /\ k - j \in Int
      OBVIOUS
  <2>3. /\ k - i \in Shifts(N, re) <=> (k - i = 0 \/ (re /\ (k - i = N \/ k - i = -N)))
        /\ k - j \in Shifts(N, re) <=> (k - j = 0 \/ (re /\ (k - j = N \/ k - j = -N)))
      BY <2>2, ShiftBy
  <2>4. CASE ~re
      BY <2>1, <2>3, <2>4
  <2>5. CASE re
    <3>1. (k - i = 0 \/ k - i = N \/ k - i = -N) <=> (k - j = 0 \/ k - j = N \/ k - j = -N)
        BY <1>5, <2>1
    <3> QED
        BY <2>3, <2>5, <3>1
  <2> QED
      BY <2>4, <2>5
<1>6. ASSUME NEW q \in Cells PROVE q \in Images(x, conn) <=> q \in Images(y, conn)
  <2>1. q \in Int \X Int /\ q[1] \in 0 .. NI - 1 /\ q[2] \in 0 .. NJ - 1
      BY DEF Cells
  <2>2. q[1] - x[1] \in Shifts(NI, conn[1]) <=> q[1] - y[1] \in Shifts(NI, conn[1])
      BY <1>1, <1>2, <1>4, <1>5, <2>1
  <2>3. q[2] - x[2] \in Shifts(NJ, conn[2]) <=> q[2] - y[2] \in Shifts(NJ, conn[2])
    <3>1. x[2] \in -NJ .. 2 * NJ - 1 /\ y[2] \in -NJ .. 2 * NJ - 1
        BY <1>2
    <3>2. NJ \in Nat /\ NJ > 0 /\ conn[2] \in BOOLEAN /\ y[2] - x[2] \in Shifts(NJ, conn[2]) /\ q[2] \in 0 .. NJ - 1
        BY <1>1, <1>4, <2>1
    <3> DEFINE N == NJ
               re == conn[2]
               i == x[2]
               j == y[2]
               k == q[2]
    <3>3. /\ N \in Nat /\ N > 0 /\ re \in BOOLEAN /\ j - i \in Shifts(N, re) /\ k \in 0 .. N - 1
          /\ i \in -N .. 2 * N - 1 /\ j \in -N .. 2 * N - 1
        BY <3>1, <3>2
    <3> HIDE DEF N, re, i, j, k
    <3>4. k - i \in Shifts(N, re) <=> k - j \in Shifts(N, re)
        BY <1>5, <3>3
    <3> QED
        BY <3>4 DEF N, re, i, j, k
  <2> QED
      BY <1>3, <2>1, <2>2, <2>3, ImagesAre
<1>7. CASE \E q \in Cells : q \in Images(x, conn)
    BY <1>6, <1>7, HomeIs
<1>8. CASE ~ \E q \in Cells : q \in Images(x, conn)
  <2>1. Images(x, conn) \cap Cells = {} /\ Images(y, conn) \cap Cells = {}
      BY <1>6, <1>8
  <2> QED
      BY <2>1, HomeIs
<1> QED
    BY <1>7, <1>8

\* The neighbours of images are images of each other
LEMMA NeighbourImages ==
    ASSUME NEW conn \in Connectivities, NEW p \in Int \X Int, NEW q \in Int \X Int, q \in Images(p, conn)
    PROVE  /\ West(q) \in Images(West(p), conn)
           /\ South(q) \in Images(South(p), conn)
           /\ South(West(q)) \in Images(South(West(p)), conn)
<1>1. q[1] - p[1] \in Shifts(NI, conn[1]) /\ q[2] - p[2] \in Shifts(NJ, conn[2])
    BY ImagesAre
<1>2. /\ West(p) \in Int \X Int /\ South(p) \in Int \X Int /\ South(West(p)) \in Int \X Int
      /\ West(q) \in Int \X Int /\ South(q) \in Int \X Int /\ South(West(q)) \in Int \X Int
    BY DEF West, South
<1>3. /\ West(q)[1] - West(p)[1] = q[1] - p[1] /\ West(q)[2] - West(p)[2] = q[2] - p[2]
      /\ South(q)[1] - South(p)[1] = q[1] - p[1] /\ South(q)[2] - South(p)[2] = q[2] - p[2]
      /\ South(West(q))[1] - South(West(p))[1] = q[1] - p[1]
      /\ South(West(q))[2] - South(West(p))[2] = q[2] - p[2]
    BY DEF West, South
<1> QED
    BY <1>1, <1>2, <1>3, ImagesAre

-----------------------------------------------------------------------------
\* The whole grid's fields, and how far a box has come with its own

\* The points some box holds, and the whole grid's fields on them
Around == (-NIHalo .. NI + NIHalo) \X (-NJHalo .. NJ + NJHalo)
WholeDepth == [p \in Around |-> Depth(p)]
WholeT == [p \in Around |-> AsMask(Ocean(p))]
WholeCu == [p \in Around |-> AsMask(Ocean(West(p)) /\ Ocean(p))]
WholeCv == [p \in Around |-> AsMask(Ocean(South(p)) /\ Ocean(p))]
WholeBu ==
    [p \in Around |-> AsMask(/\ Ocean(p) /\ Ocean(West(p)) /\ Ocean(South(p)) /\ Ocean(South(West(p))))]

\* A box's field: right everywhere; or on its own points, one value on the halo; or zero
Right(f, b, s, whole) == \A p \in Grown(b, s) : f[b][p] = whole[p]
OwnRight(f, b, s, whole, beyond) ==
    \A p \in Grown(b, s) : f[b][p] = IF p \in Valid(b, s) THEN whole[p] ELSE beyond
IsZero(f, b, s) == \A p \in Grown(b, s) : f[b][p] = 0

\* How far each field of a box has come
BoxLayout(b) ==
    /\ pc[b] = 2 => OwnRight(bathyT, b, Cell, WholeDepth, Limited(0))
    /\ pc[b] > 2 => Right(bathyT, b, Cell, WholeDepth)
    /\ pc[b] = 4 => IsZero(mask2dT, b, Cell)
    /\ pc[b] = 5 => OwnRight(mask2dT, b, Cell, WholeT, 0)
    /\ pc[b] > 5 => Right(mask2dT, b, Cell, WholeT)
    /\ pc[b] \in 4 .. 6 => IsZero(mask2dCu, b, XFace) /\ IsZero(mask2dCv, b, YFace)
    /\ pc[b] = 7 => /\ OwnRight(mask2dCu, b, XFace, WholeCu, 0)
                    /\ OwnRight(mask2dCv, b, YFace, WholeCv, 0)
    /\ pc[b] > 7 => /\ Right(mask2dCu, b, XFace, WholeCu)
                    /\ Right(mask2dCv, b, YFace, WholeCv)
    /\ pc[b] \in 4 .. 8 => IsZero(mask2dBu, b, Node)
    /\ pc[b] = 9 => OwnRight(mask2dBu, b, Node, WholeBu, 0)
    /\ pc[b] > 9 => Right(mask2dBu, b, Node, WholeBu)

LayoutInv == \A b \in Boxes : BoxLayout(b)

LEMMA HeldPoints ==
    ASSUME HalosFit, NEW b \in Boxes, NEW s \in Staggers, NEW p \in Grown(b, s)
    PROVE  /\ p \in Around /\ p \in Int \X Int
           /\ p \in Plane /\ West(p) \in Plane /\ South(p) \in Plane /\ South(West(p)) \in Plane
<1>1. /\ b[1][1] \in Int /\ b[1][2] \in Int /\ b[2][1] \in Int /\ b[2][2] \in Int
      /\ 0 <= b[1][1] /\ b[1][2] < NI /\ 0 <= b[2][1] /\ b[2][2] < NJ
    BY BoxType
<1>2. NI \in Int /\ NJ \in Int /\ NIHalo \in Int /\ NJHalo \in Int
    BY GridAssumption
<1>3. s[1] \in {0, 1} /\ s[2] \in {0, 1}
    BY DEF Staggers, Cell, XFace, YFace, Node
<1>4. p \in Around /\ p \in Int \X Int
    BY <1>1, <1>2, <1>3 DEF Grown, Around
<1>5. p \in Plane /\ West(p) \in Plane /\ South(p) \in Plane /\ South(West(p)) \in Plane
    BY <1>2, <1>4 DEF Around, Plane, West, South
<1> QED
    BY <1>4, <1>5

\* A point over a cell of the grid has an owner, at every stagger
LEMMA Owned ==
    ASSUME HalosFit, NEW conn \in Connectivities, NEW s \in Staggers, NEW b \in Boxes, NEW p \in Grown(b, s),
           Home[conn][p] # Outside
    PROVE  Owners[conn][s][b][p] # {}
<1> DEFINE q == Home[conn][p]
<1>1. q \in Images(p, conn) /\ q \in Cells
    BY HeldPoints, HomeIs
<1> HIDE DEF q
<1>2. q[1] \in 0 .. NI - 1 /\ q[2] \in 0 .. NJ - 1 /\ q = <<q[1], q[2]>>
    BY <1>1 DEF Cells
<1>3. PICK x \in XParts : q[1] \in x[1] .. x[2]
    BY <1>2, LayoutAssumption
<1>4. PICK y \in YParts : q[2] \in y[1] .. y[2]
    BY <1>2, LayoutAssumption
<1>5. <<x, y>> \in Boxes
    BY DEF Boxes
<1>6. x[1] \in Int /\ x[2] \in Int /\ y[1] \in Int /\ y[2] \in Int
    BY LayoutAssumption
<1>7. s[1] \in {0, 1} /\ s[2] \in {0, 1}
    BY DEF Staggers, Cell, XFace, YFace, Node
<1>8. q[1] \in x[1] .. x[2] + s[1] /\ q[2] \in y[1] .. y[2] + s[2]
    BY <1>3, <1>4, <1>6, <1>7
<1>9. q \in Valid(<<x, y>>, s)
    BY <1>2, <1>8 DEF Valid
<1>10. <<<<x, y>>, q>> \in Owners[conn][s][b][p]
    BY <1>1, <1>5, <1>9, OwnersAt
<1> QED
    BY <1>10

\* Images of a point over the same cell have the same depth
LEMMA SameDepth ==
    ASSUME NEW x, NEW y, Home[Connectivity][x] = Home[Connectivity][y]
    PROVE  Depth(x) = Depth(y) /\ (Ocean(x) <=> Ocean(y))
BY DEF Depth, Ocean, InDomain

\* Nowhere is no ocean
LEMMA LandOutside ==
    ASSUME NEW x, Home[Connectivity][x] = Outside
    PROVE  Depth(x) = Limited(0) /\ ~Ocean(x)
BY DEF Depth, Ocean, InDomain

\* What an exchange needs of a field: the same on images, and beyond the grid what
\* the halo held before
Repeats(s, whole) ==
    \A b \in Boxes, c \in Boxes : \A p \in Grown(b, s) : \A q \in Valid(c, s) :
        q \in Images(p, Connectivity) => whole[q] = whole[p]
Ends(s, whole, beyond) ==
    \A b \in Boxes : \A p \in Grown(b, s) : Owners[Connectivity][s][b][p] = {} => whole[p] = beyond

LEMMA ExchangeCompletes ==
    ASSUME Inputs, NEW f, NEW g, NEW s \in Staggers, NEW b \in Boxes, NEW whole, NEW beyond,
           Array(f, s), Exchanged(f, g, b, s), Repeats(s, whole), Ends(s, whole, beyond),
           OwnRight(f, b, s, whole, beyond),
           \A c \in Neighbours[Connectivity][s][b] \cap Boxes : \A q \in Valid(c, s) : f[c][q] = whole[q]
    PROVE  Right(g, b, s, whole)
<1> SUFFICES ASSUME NEW p \in Grown(b, s) PROVE g[b][p] = whole[p]
    BY DEF Right
<1>1. g[b][p] = Filled(f, b, s)[p]
    BY DEF Exchanged
<1>2. CASE Filled(f, b, s)[p] = f[b][p] /\ (p \in Valid(b, s) \/ Owners[Connectivity][s][b][p] = {})
    BY <1>1, <1>2 DEF OwnRight, Ends
<1>3. ASSUME NEW c \in Neighbours[Connectivity][s][b] \cap Boxes, NEW q \in Valid(c, s),
             q \in Images(p, Connectivity), Filled(f, b, s)[p] = f[c][q]
      PROVE  g[b][p] = whole[p]
    BY <1>1, <1>3 DEF Repeats
<1> QED
    BY <1>2, <1>3, FilledPoint

LEMMA WholesRepeat ==
    ASSUME HalosFit, Inputs
    PROVE  /\ Repeats(Cell, WholeDepth) /\ Ends(Cell, WholeDepth, Limited(0))
           /\ Repeats(Cell, WholeT) /\ Ends(Cell, WholeT, 0)
           /\ Repeats(XFace, WholeCu) /\ Ends(XFace, WholeCu, 0)
           /\ Repeats(YFace, WholeCv) /\ Ends(YFace, WholeCv, 0)
           /\ Repeats(Node, WholeBu) /\ Ends(Node, WholeBu, 0)
<1> DEFINE home(x) == Home[Connectivity][x]
<1>1. Connectivity \in Connectivities
    BY ConnectivityType
<1>2. ASSUME NEW s \in Staggers, NEW b \in Boxes, NEW c \in Boxes, NEW p \in Grown(b, s), NEW q \in Valid(c, s),
             q \in Images(p, Connectivity)
      PROVE  /\ p \in Around /\ q \in Around
             /\ home(q) = home(p) /\ home(West(q)) = home(West(p)) /\ home(South(q)) = home(South(p))
             /\ home(South(West(q))) = home(South(West(p)))
  <2>1. q \in Grown(c, s)
      BY ValidInGrown
  <2>2. /\ p \in Around /\ p \in Int \X Int
        /\ p \in Plane /\ West(p) \in Plane /\ South(p) \in Plane /\ South(West(p)) \in Plane
      BY HeldPoints
  <2>3. /\ q \in Around /\ q \in Int \X Int
        /\ q \in Plane /\ West(q) \in Plane /\ South(q) \in Plane /\ South(West(q)) \in Plane
      BY <2>1, HeldPoints
  <2>4. /\ West(q) \in Images(West(p), Connectivity)
        /\ South(q) \in Images(South(p), Connectivity)
        /\ South(West(q)) \in Images(South(West(p)), Connectivity)
      BY <1>1, <1>2, <2>2, <2>3, NeighbourImages
  <2> QED
      BY <1>1, <1>2, <2>2, <2>3, <2>4, SameHome
<1>3. ASSUME NEW s \in Staggers, NEW b \in Boxes, NEW c \in Boxes, NEW p \in Grown(b, s), NEW q \in Valid(c, s),
             q \in Images(p, Connectivity)
      PROVE  /\ p \in Around /\ q \in Around /\ Depth(q) = Depth(p)
             /\ Ocean(q) <=> Ocean(p)
             /\ Ocean(West(q)) <=> Ocean(West(p))
             /\ Ocean(South(q)) <=> Ocean(South(p))
             /\ Ocean(South(West(q))) <=> Ocean(South(West(p)))
    BY <1>2, <1>3, SameDepth
<1>4. ASSUME NEW s \in Staggers, NEW b \in Boxes, NEW p \in Grown(b, s), Owners[Connectivity][s][b][p] = {}
      PROVE  p \in Around /\ Depth(p) = Limited(0) /\ ~Ocean(p)
  <2>1. Home[Connectivity][p] = Outside
      BY <1>1, <1>4, Owned
  <2> QED
      BY <2>1, LandOutside, HeldPoints
<1>5. Repeats(Cell, WholeDepth) /\ Ends(Cell, WholeDepth, Limited(0))
    BY <1>3, <1>4, StaggersAre DEF Repeats, Ends, WholeDepth
<1>6. Repeats(Cell, WholeT) /\ Ends(Cell, WholeT, 0)
    BY <1>3, <1>4, StaggersAre DEF Repeats, Ends, WholeT, AsMask
<1>7. Repeats(XFace, WholeCu) /\ Ends(XFace, WholeCu, 0)
    BY <1>3, <1>4, StaggersAre DEF Repeats, Ends, WholeCu, AsMask
<1>8. Repeats(YFace, WholeCv) /\ Ends(YFace, WholeCv, 0)
    BY <1>3, <1>4, StaggersAre DEF Repeats, Ends, WholeCv, AsMask
<1>9. Repeats(Node, WholeBu) /\ Ends(Node, WholeBu, 0)
    BY <1>3, <1>4, StaggersAre DEF Repeats, Ends, WholeBu, AsMask
<1> QED
    BY <1>5, <1>6, <1>7, <1>8, <1>9

LEMMA WholesFixed ==
    ASSUME UNCHANGED inputs
    PROVE  /\ WholeDepth' = WholeDepth /\ WholeT' = WholeT /\ WholeCu' = WholeCu
           /\ WholeCv' = WholeCv /\ WholeBu' = WholeBu
<1>1. UNCHANGED raw /\ Connectivity' = Connectivity /\ LandDepth' = LandDepth
    BY DEF inputs, Connectivity, LandDepth
<1>2. ASSUME NEW p PROVE InDomain(p)' <=> InDomain(p)
    BY <1>1 DEF InDomain
<1>3. ASSUME NEW p PROVE Depth(p)' = Depth(p)
    BY <1>1, <1>2, InputsFixed DEF Depth
<1>4. ASSUME NEW p PROVE Ocean(p)' <=> Ocean(p)
    BY <1>1, <1>2, <1>3 DEF Ocean
<1>5. WholeDepth' = WholeDepth
    BY <1>3 DEF WholeDepth
<1>6. WholeT' = WholeT
    BY <1>4 DEF WholeT, AsMask
<1>7. WholeCu' = WholeCu
    BY <1>4 DEF WholeCu, AsMask
<1>8. WholeCv' = WholeCv
    BY <1>4 DEF WholeCv, AsMask
<1>9. WholeBu' = WholeBu
    BY <1>4 DEF WholeBu, AsMask
<1> QED
    BY <1>5, <1>6, <1>7, <1>8, <1>9

\* A box's own cells are their own home
LEMMA OwnHome ==
    ASSUME HalosFit, Inputs, NEW b \in Boxes, NEW p \in Valid(b, Cell)
    PROVE  /\ p \in Grown(b, Cell) /\ p \in Around /\ InDomain(p)
           /\ Depth(p) = Limited(Named(raw[p])) /\ Depth(p) \in Int
<1>1. p \in Cells /\ p \in Grown(b, Cell)
    BY OwnCells, ValidInGrown, StaggersAre
<1>2. p \in Around /\ p \in Int \X Int /\ p \in Plane
    BY <1>1, HeldPoints, StaggersAre
<1>3. Connectivity \in Connectivities
    BY ConnectivityType
<1>4. Connectivity[1] \in BOOLEAN /\ Connectivity[2] \in BOOLEAN /\ NI \in Nat /\ NJ \in Nat
    BY <1>3, GridAssumption DEF Connectivities
<1>5. p[1] - p[1] = 0 /\ p[2] - p[2] = 0
    BY <1>2
<1>6. p \in Images(p, Connectivity)
    BY <1>2, <1>3, <1>4, <1>5, ShiftBy, ImagesAre
<1>7. Home[Connectivity][p] = p
    BY <1>1, <1>2, <1>3, <1>6, HomeIs
<1>8. InDomain(p)
    BY <1>1, <1>7, OutsideIs DEF InDomain
<1>9. Depth(p) = Limited(Named(raw[p]))
    BY <1>7, <1>8 DEF Depth
<1> QED
    BY <1>1, <1>2, <1>8, <1>9, DepthTypes, NamedType, LimitedType

\* An open face or vertex among masks
LEMMA ProductOfMasks ==
    ASSUME NEW a \in BOOLEAN, NEW b \in BOOLEAN
    PROVE  Product({AsMask(a), AsMask(b)}) = AsMask(a /\ b)
BY GridAssumption DEF Product, AsMask

LEMMA ProductOfFaces ==
    ASSUME NEW a \in BOOLEAN, NEW b \in BOOLEAN, NEW c \in BOOLEAN, NEW d \in BOOLEAN
    PROVE  Product({AsMask(a), AsMask(b), AsMask(c), AsMask(d)}) = AsMask(a /\ b /\ c /\ d)
BY GridAssumption DEF Product, AsMask

LEMMA OwnRightThere ==
    ASSUME NEW f, NEW s \in Staggers, NEW c \in Boxes, NEW whole, NEW beyond,
           OwnRight(f, c, s, whole, beyond) \/ Right(f, c, s, whole)
    PROVE  \A q \in Valid(c, s) : f[c][q] = whole[q]
BY ValidInGrown DEF OwnRight, Right

LEMMA SetOwnRight ==
    ASSUME NEW f, NEW g, NEW s \in Staggers, NEW b \in Boxes, NEW value, NEW whole,
           SetOwn(f, g, b, s, value), IsZero(f, b, s),
           \A p \in Valid(b, s) : value[p] = whole[p]
    PROVE  OwnRight(g, b, s, whole, 0)
BY DEF SetOwn, IsZero, OwnRight

LEMMA CellsRight ==
    ASSUME HalosFit, Inputs, NEW b \in Boxes, Right(bathyT, b, Cell, WholeDepth)
    PROVE  \A p \in Valid(b, Cell) : CellMask(b)[p] = WholeT[p]
<1> SUFFICES ASSUME NEW p \in Valid(b, Cell) PROVE CellMask(b)[p] = WholeT[p]
    OBVIOUS
<1>1. p \in Grown(b, Cell) /\ p \in Around /\ InDomain(p) /\ Depth(p) \in Int
    BY OwnHome
<1>2. bathyT[b][p] = Depth(p)
    BY <1>1 DEF Right, WholeDepth
<1>3. LandDepth \in Int
    BY DepthTypes DEF LandDepth
<1>4. Depth(p) <= LandDepth <=> ~(Depth(p) > LandDepth)
    BY <1>1, <1>3
<1> QED
    BY <1>1, <1>2, <1>4 DEF CellMask, WholeT, AsMask, Ocean

LEMMA FacesRight ==
    ASSUME HalosFit, Inputs, NEW b \in Boxes, Right(mask2dT, b, Cell, WholeT), Array(mask2dT, Cell)
    PROVE  /\ \A p \in Valid(b, XFace) : UFaceMask(b)[p] = WholeCu[p]
           /\ \A p \in Valid(b, YFace) : VFaceMask(b)[p] = WholeCv[p]
<1>1. WideHalos
    BY GridAssumption DEF HalosFit, WideHalos
<1>2. ASSUME NEW p \in Grown(b, Cell) PROVE Read(mask2dT, b, p) = AsMask(Ocean(p))
  <2>1. p \in Around
      BY HeldPoints, StaggersAre
  <2>2. Read(mask2dT, b, p) = mask2dT[b][p]
      BY DEF Read, Array, Over
  <2> QED
      BY <2>1, <2>2 DEF Right, WholeT
<1>3. ASSUME NEW p PROVE Ocean(p) \in BOOLEAN
    BY DEF Ocean
<1>4. ASSUME NEW p \in Valid(b, XFace) PROVE UFaceMask(b)[p] = WholeCu[p]
  <2>1. p \in Grown(b, XFace) /\ p \in Around
      BY ValidInGrown, StaggersAre, HeldPoints
  <2>2. p \in Grown(b, Cell) /\ West(p) \in Grown(b, Cell)
      BY <1>1, StencilHeld
  <2>3. UFaceMask(b)[p] = Product({AsMask(Ocean(West(p))), AsMask(Ocean(p))})
      BY <1>2, <2>1, <2>2 DEF UFaceMask
  <2>4. WholeCu[p] = AsMask(Ocean(West(p)) /\ Ocean(p))
      BY <2>1 DEF WholeCu
  <2> QED
      BY <1>3, <2>3, <2>4, ProductOfMasks
<1>5. ASSUME NEW p \in Valid(b, YFace) PROVE VFaceMask(b)[p] = WholeCv[p]
  <2>1. p \in Grown(b, YFace) /\ p \in Around
      BY ValidInGrown, StaggersAre, HeldPoints
  <2>2. p \in Grown(b, Cell) /\ South(p) \in Grown(b, Cell)
      BY <1>1, StencilHeld
  <2>3. VFaceMask(b)[p] = Product({AsMask(Ocean(South(p))), AsMask(Ocean(p))})
      BY <1>2, <2>1, <2>2 DEF VFaceMask
  <2>4. WholeCv[p] = AsMask(Ocean(South(p)) /\ Ocean(p))
      BY <2>1 DEF WholeCv
  <2> QED
      BY <1>3, <2>3, <2>4, ProductOfMasks
<1> QED
    BY <1>4, <1>5

LEMMA VerticesRight ==
    ASSUME HalosFit, Inputs, NEW b \in Boxes, Array(mask2dCu, XFace), Array(mask2dCv, YFace),
           Right(mask2dCu, b, XFace, WholeCu), Right(mask2dCv, b, YFace, WholeCv)
    PROVE  \A p \in Valid(b, Node) : VertexMask(b)[p] = WholeBu[p]
<1> SUFFICES ASSUME NEW p \in Valid(b, Node) PROVE VertexMask(b)[p] = WholeBu[p]
    OBVIOUS
<1> DEFINE o == Ocean(p)
           w == Ocean(West(p))
           s == Ocean(South(p))
           sw == Ocean(South(West(p)))
<1>1. WideHalos
    BY GridAssumption DEF HalosFit, WideHalos
<1>2. ASSUME NEW q \in Grown(b, XFace) PROVE Read(mask2dCu, b, q) = AsMask(Ocean(West(q)) /\ Ocean(q))
  <2>1. q \in Around
      BY HeldPoints, StaggersAre
  <2>2. Read(mask2dCu, b, q) = mask2dCu[b][q]
      BY DEF Read, Array, Over
  <2> QED
      BY <2>1, <2>2 DEF Right, WholeCu
<1>3. ASSUME NEW q \in Grown(b, YFace) PROVE Read(mask2dCv, b, q) = AsMask(Ocean(South(q)) /\ Ocean(q))
  <2>1. q \in Around
      BY HeldPoints, StaggersAre
  <2>2. Read(mask2dCv, b, q) = mask2dCv[b][q]
      BY DEF Read, Array, Over
  <2> QED
      BY <2>1, <2>2 DEF Right, WholeCv
<1>4. /\ p \in Grown(b, XFace) /\ South(p) \in Grown(b, XFace)
      /\ p \in Grown(b, YFace) /\ West(p) \in Grown(b, YFace)
    BY <1>1, StencilHeld
<1>5. p \in Grown(b, Node) /\ p \in Around /\ p \in Int \X Int
    BY ValidInGrown, StaggersAre, HeldPoints
<1>6. West(South(p)) = South(West(p))
    BY <1>5 DEF West, South
<1>7. /\ Read(mask2dCu, b, South(p)) = AsMask(sw /\ s) /\ Read(mask2dCu, b, p) = AsMask(w /\ o)
      /\ Read(mask2dCv, b, West(p)) = AsMask(sw /\ w) /\ Read(mask2dCv, b, p) = AsMask(s /\ o)
    BY <1>2, <1>3, <1>4, <1>6
<1>8. VertexMask(b)[p] = Product({AsMask(sw /\ s), AsMask(w /\ o), AsMask(sw /\ w), AsMask(s /\ o)})
    BY <1>5, <1>7 DEF VertexMask
<1>9. WholeBu[p] = AsMask(o /\ w /\ s /\ sw)
    BY <1>5 DEF WholeBu
<1>10. Product({AsMask(sw /\ s), AsMask(w /\ o), AsMask(sw /\ w), AsMask(s /\ o)})
         = AsMask((sw /\ s) /\ (w /\ o) /\ (sw /\ w) /\ (s /\ o))
    BY ProductOfFaces
<1>11. ((sw /\ s) /\ (w /\ o) /\ (sw /\ w) /\ (s /\ o)) <=> (o /\ w /\ s /\ sw)
    OBVIOUS
<1> QED
    BY <1>8, <1>9, <1>10, <1>11 DEF AsMask

LEMMA LayoutStep ==
    ASSUME HalosFit, Steady, Inputs, LayoutInv, NEW b \in Boxes, RankStep(b)
    PROVE  BoxLayout(b)'
<1>1. /\ UNCHANGED inputs /\ pc[b] \in 0 .. Done /\ BoxLayout(b)
      /\ \A c \in Boxes : BoxLayout(c) /\ pc[c] \in 0 .. Done
    BY RankStepFrame DEF Steady, LayoutInv
<1>2. /\ WholeDepth' = WholeDepth /\ WholeT' = WholeT /\ WholeCu' = WholeCu
      /\ WholeCv' = WholeCv /\ WholeBu' = WholeBu /\ Limited(0)' = Limited(0)
    BY <1>1, WholesFixed, InputsFixed
<1>3. /\ Repeats(Cell, WholeDepth) /\ Ends(Cell, WholeDepth, Limited(0))
      /\ Repeats(Cell, WholeT) /\ Ends(Cell, WholeT, 0)
      /\ Repeats(XFace, WholeCu) /\ Ends(XFace, WholeCu, 0)
      /\ Repeats(YFace, WholeCv) /\ Ends(YFace, WholeCv, 0)
      /\ Repeats(Node, WholeBu) /\ Ends(Node, WholeBu, 0)
    BY WholesRepeat
<1>4. CASE InitializeTopography(b)
  <2>1. CASE pc[b] = 1 /\ pc' = [pc EXCEPT ![b] = Failed]
    <3>1. pc'[b] = 0
        BY <2>1 DEF Failed, Steady
    <3> QED
        BY <3>1 DEF BoxLayout
  <2>2. CASE /\ Moves(b, 1)
             /\ \A p \in Grown(b, Cell) :
                    bathyT'[b][p] = Limited(IF p \in Valid(b, Cell) THEN Named(raw[p]) ELSE 0)
    <3>1. pc'[b] = 2
        BY <2>2, MovesFrame
    <3>2. ASSUME NEW p \in Grown(b, Cell)
          PROVE  bathyT'[b][p] = IF p \in Valid(b, Cell) THEN WholeDepth[p] ELSE Limited(0)
      <4>1. CASE p \in Valid(b, Cell)
          BY <2>2, <4>1, OwnHome DEF WholeDepth
      <4>2. CASE p \notin Valid(b, Cell)
          BY <2>2, <4>2
      <4> QED
          BY <4>1, <4>2
    <3>3. OwnRight(bathyT', b, Cell, WholeDepth, Limited(0))
        BY <3>2 DEF OwnRight
    <3> QED
        BY <1>2, <3>1, <3>3 DEF BoxLayout, OwnRight
  <2> QED
      BY <1>4, <2>1, <2>2, TopographyEffect
<1>5. CASE PassBathyT(b)
  <2>1. Moves(b, 2) /\ Heard(b, Cell) /\ Exchanged(bathyT, bathyT', b, Cell)
      BY <1>5, PassBathyTEffect
  <2>2. pc[b] = 2 /\ pc'[b] = 3
      BY <2>1, MovesFrame
  <2>3. OwnRight(bathyT, b, Cell, WholeDepth, Limited(0))
      BY <1>1, <2>2 DEF BoxLayout
  <2>4. ASSUME NEW c \in Neighbours[Connectivity][Cell][b] \cap Boxes
        PROVE  \A q \in Valid(c, Cell) : bathyT[c][q] = WholeDepth[q]
    <3>1. pc[c] >= 2
        BY <2>1, <2>2 DEF Heard
    <3>2. OwnRight(bathyT, c, Cell, WholeDepth, Limited(0)) \/ Right(bathyT, c, Cell, WholeDepth)
        BY <1>1, <3>1 DEF BoxLayout
    <3> QED
        BY <3>2, OwnRightThere, StaggersAre
  <2>5. Array(bathyT, Cell)
      BY DEF Steady, Arrays
  <2>6. Right(bathyT', b, Cell, WholeDepth)
      BY <1>3, <2>1, <2>3, <2>4, <2>5, ExchangeCompletes, StaggersAre
  <2> QED
      BY <1>2, <2>2, <2>6 DEF BoxLayout, Right
<1>6. CASE ZeroMasks(b)
  <2>1. /\ Moves(b, 3) /\ UNCHANGED bathyT /\ Wiped(mask2dT, mask2dT', b, Cell)
        /\ Wiped(mask2dCu, mask2dCu', b, XFace) /\ Wiped(mask2dCv, mask2dCv', b, YFace)
        /\ Wiped(mask2dBu, mask2dBu', b, Node)
      BY <1>6, ZeroMasksEffect
  <2>2. pc[b] = 3 /\ pc'[b] = 4
      BY <2>1, MovesFrame
  <2>3. Right(bathyT', b, Cell, WholeDepth)
      BY <1>1, <2>1, <2>2 DEF BoxLayout
  <2>4. /\ IsZero(mask2dT', b, Cell) /\ IsZero(mask2dCu', b, XFace) /\ IsZero(mask2dCv', b, YFace)
        /\ IsZero(mask2dBu', b, Node)
      BY <2>1 DEF Wiped, IsZero
  <2> QED
      BY <1>2, <2>2, <2>3, <2>4 DEF BoxLayout, Right, IsZero
<1>7. CASE MaskCells(b)
  <2>1. Moves(b, 4) /\ SetOwn(mask2dT, mask2dT', b, Cell, CellMask(b)) /\ UNCHANGED <<bathyT, mask2dCu, mask2dCv, mask2dBu>>
      BY <1>7, MaskCellsEffect
  <2>2. pc[b] = 4 /\ pc'[b] = 5
      BY <2>1, MovesFrame
  <2>3. /\ Right(bathyT, b, Cell, WholeDepth) /\ IsZero(mask2dT, b, Cell)
        /\ IsZero(mask2dCu, b, XFace) /\ IsZero(mask2dCv, b, YFace) /\ IsZero(mask2dBu, b, Node)
      BY <1>1, <2>2 DEF BoxLayout
  <2>4. \A p \in Valid(b, Cell) : CellMask(b)[p] = WholeT[p]
      BY <2>3, CellsRight
  <2>5. OwnRight(mask2dT', b, Cell, WholeT, 0)
      BY <2>1, <2>3, <2>4, SetOwnRight, StaggersAre
  <2> QED
      BY <1>2, <2>1, <2>2, <2>3, <2>5 DEF BoxLayout, Right, OwnRight, IsZero
<1>8. CASE PassMaskT(b)
  <2>1. /\ Moves(b, 5) /\ Heard(b, Cell) /\ Exchanged(mask2dT, mask2dT', b, Cell)
        /\ UNCHANGED <<bathyT, mask2dCu, mask2dCv, mask2dBu>>
      BY <1>8, PassMaskTEffect
  <2>2. pc[b] = 5 /\ pc'[b] = 6
      BY <2>1, MovesFrame
  <2>3. /\ Right(bathyT, b, Cell, WholeDepth) /\ OwnRight(mask2dT, b, Cell, WholeT, 0)
        /\ IsZero(mask2dCu, b, XFace) /\ IsZero(mask2dCv, b, YFace) /\ IsZero(mask2dBu, b, Node)
      BY <1>1, <2>2 DEF BoxLayout
  <2>4. ASSUME NEW c \in Neighbours[Connectivity][Cell][b] \cap Boxes
        PROVE  \A q \in Valid(c, Cell) : mask2dT[c][q] = WholeT[q]
    <3>1. pc[c] >= 5
        BY <2>1, <2>2 DEF Heard
    <3>2. OwnRight(mask2dT, c, Cell, WholeT, 0) \/ Right(mask2dT, c, Cell, WholeT)
        BY <1>1, <3>1 DEF BoxLayout
    <3> QED
        BY <3>2, OwnRightThere, StaggersAre
  <2>5. Array(mask2dT, Cell)
      BY DEF Steady, Arrays
  <2>6. Right(mask2dT', b, Cell, WholeT)
      BY <1>3, <2>1, <2>3, <2>4, <2>5, ExchangeCompletes, StaggersAre
  <2> QED
      BY <1>2, <2>1, <2>2, <2>3, <2>6 DEF BoxLayout, Right, IsZero
<1>9. CASE MaskFaces(b)
  <2>1. /\ Moves(b, 6) /\ UNCHANGED <<bathyT, mask2dT, mask2dBu>>
        /\ SetOwn(mask2dCu, mask2dCu', b, XFace, UFaceMask(b))
        /\ SetOwn(mask2dCv, mask2dCv', b, YFace, VFaceMask(b))
      BY <1>9, MaskFacesEffect
  <2>2. pc[b] = 6 /\ pc'[b] = 7
      BY <2>1, MovesFrame
  <2>3. /\ Right(bathyT, b, Cell, WholeDepth) /\ Right(mask2dT, b, Cell, WholeT)
        /\ IsZero(mask2dCu, b, XFace) /\ IsZero(mask2dCv, b, YFace) /\ IsZero(mask2dBu, b, Node)
      BY <1>1, <2>2 DEF BoxLayout
  <2>4. /\ \A p \in Valid(b, XFace) : UFaceMask(b)[p] = WholeCu[p]
        /\ \A p \in Valid(b, YFace) : VFaceMask(b)[p] = WholeCv[p]
      BY <2>3, FacesRight DEF Steady, Arrays
  <2>5. OwnRight(mask2dCu', b, XFace, WholeCu, 0)
      BY <2>1, <2>3, <2>4, SetOwnRight, StaggersAre
  <2>6. OwnRight(mask2dCv', b, YFace, WholeCv, 0)
      BY <2>1, <2>3, <2>4, SetOwnRight, StaggersAre
  <2> QED
      BY <1>2, <2>1, <2>2, <2>3, <2>5, <2>6 DEF BoxLayout, Right, OwnRight, IsZero
<1>10. CASE PassFaces(b)
  <2>1. /\ Moves(b, 7) /\ Heard(b, XFace) /\ Heard(b, YFace) /\ UNCHANGED <<bathyT, mask2dT, mask2dBu>>
        /\ Exchanged(mask2dCu, mask2dCu', b, XFace) /\ Exchanged(mask2dCv, mask2dCv', b, YFace)
      BY <1>10, PassFacesEffect
  <2>2. pc[b] = 7 /\ pc'[b] = 8
      BY <2>1, MovesFrame
  <2>3. /\ Right(bathyT, b, Cell, WholeDepth) /\ Right(mask2dT, b, Cell, WholeT)
        /\ OwnRight(mask2dCu, b, XFace, WholeCu, 0) /\ OwnRight(mask2dCv, b, YFace, WholeCv, 0)
        /\ IsZero(mask2dBu, b, Node)
      BY <1>1, <2>2 DEF BoxLayout
  <2>4. ASSUME NEW c \in Neighbours[Connectivity][XFace][b] \cap Boxes
        PROVE  \A q \in Valid(c, XFace) : mask2dCu[c][q] = WholeCu[q]
    <3>1. pc[c] >= 7
        BY <2>1, <2>2 DEF Heard
    <3>2. OwnRight(mask2dCu, c, XFace, WholeCu, 0) \/ Right(mask2dCu, c, XFace, WholeCu)
        BY <1>1, <3>1 DEF BoxLayout
    <3> QED
        BY <3>2, OwnRightThere, StaggersAre
  <2>5. ASSUME NEW c \in Neighbours[Connectivity][YFace][b] \cap Boxes
        PROVE  \A q \in Valid(c, YFace) : mask2dCv[c][q] = WholeCv[q]
    <3>1. pc[c] >= 7
        BY <2>1, <2>2 DEF Heard
    <3>2. OwnRight(mask2dCv, c, YFace, WholeCv, 0) \/ Right(mask2dCv, c, YFace, WholeCv)
        BY <1>1, <3>1 DEF BoxLayout
    <3> QED
        BY <3>2, OwnRightThere, StaggersAre
  <2>6. Array(mask2dCu, XFace) /\ Array(mask2dCv, YFace)
      BY DEF Steady, Arrays
  <2>7. Right(mask2dCu', b, XFace, WholeCu)
      BY <1>3, <2>1, <2>3, <2>4, <2>6, ExchangeCompletes, StaggersAre
  <2>8. Right(mask2dCv', b, YFace, WholeCv)
      BY <1>3, <2>1, <2>3, <2>5, <2>6, ExchangeCompletes, StaggersAre
  <2> QED
      BY <1>2, <2>1, <2>2, <2>3, <2>7, <2>8 DEF BoxLayout, Right, IsZero
<1>11. CASE MaskVertices(b)
  <2>1. /\ Moves(b, 8) /\ UNCHANGED <<bathyT, mask2dT, mask2dCu, mask2dCv>>
        /\ SetOwn(mask2dBu, mask2dBu', b, Node, VertexMask(b))
      BY <1>11, MaskVerticesEffect
  <2>2. pc[b] = 8 /\ pc'[b] = 9
      BY <2>1, MovesFrame
  <2>3. /\ Right(bathyT, b, Cell, WholeDepth) /\ Right(mask2dT, b, Cell, WholeT)
        /\ Right(mask2dCu, b, XFace, WholeCu) /\ Right(mask2dCv, b, YFace, WholeCv)
        /\ IsZero(mask2dBu, b, Node)
      BY <1>1, <2>2 DEF BoxLayout
  <2>4. \A p \in Valid(b, Node) : VertexMask(b)[p] = WholeBu[p]
      BY <2>3, VerticesRight DEF Steady, Arrays
  <2>5. OwnRight(mask2dBu', b, Node, WholeBu, 0)
      BY <2>1, <2>3, <2>4, SetOwnRight, StaggersAre
  <2> QED
      BY <1>2, <2>1, <2>2, <2>3, <2>5 DEF BoxLayout, Right, OwnRight
<1>12. CASE PassMaskBu(b)
  <2>1. /\ Moves(b, 9) /\ Heard(b, Node) /\ Exchanged(mask2dBu, mask2dBu', b, Node)
        /\ UNCHANGED <<bathyT, mask2dT, mask2dCu, mask2dCv>>
      BY <1>12, PassMaskBuEffect
  <2>2. pc[b] = 9 /\ pc'[b] = 10
      BY <2>1, MovesFrame
  <2>3. /\ Right(bathyT, b, Cell, WholeDepth) /\ Right(mask2dT, b, Cell, WholeT)
        /\ Right(mask2dCu, b, XFace, WholeCu) /\ Right(mask2dCv, b, YFace, WholeCv)
        /\ OwnRight(mask2dBu, b, Node, WholeBu, 0)
      BY <1>1, <2>2 DEF BoxLayout
  <2>4. ASSUME NEW c \in Neighbours[Connectivity][Node][b] \cap Boxes
        PROVE  \A q \in Valid(c, Node) : mask2dBu[c][q] = WholeBu[q]
    <3>1. pc[c] >= 9
        BY <2>1, <2>2 DEF Heard
    <3>2. OwnRight(mask2dBu, c, Node, WholeBu, 0) \/ Right(mask2dBu, c, Node, WholeBu)
        BY <1>1, <3>1 DEF BoxLayout
    <3> QED
        BY <3>2, OwnRightThere, StaggersAre
  <2>5. Array(mask2dBu, Node)
      BY DEF Steady, Arrays
  <2>6. Right(mask2dBu', b, Node, WholeBu)
      BY <1>3, <2>1, <2>3, <2>4, <2>5, ExchangeCompletes, StaggersAre
  <2> QED
      BY <1>2, <2>1, <2>2, <2>3, <2>6 DEF BoxLayout, Right
<1> QED
    BY <1>4, <1>5, <1>6, <1>7, <1>8, <1>9, <1>10, <1>11, <1>12 DEF RankStep

LEMMA LayoutInvStep ==
    ASSUME HalosFit, Steady, Inputs, LayoutInv, [Next]_vars
    PROVE  LayoutInv'
<1>1. ASSUME UNCHANGED inputs, NEW c \in Boxes, UNCHANGED <<pc[c], bathyT[c], mask2dT[c], mask2dCu[c], mask2dCv[c], mask2dBu[c]>>
      PROVE  BoxLayout(c)'
  <2>1. BoxLayout(c)
      BY DEF LayoutInv
  <2>2. /\ WholeDepth' = WholeDepth /\ WholeT' = WholeT /\ WholeCu' = WholeCu
        /\ WholeCv' = WholeCv /\ WholeBu' = WholeBu /\ Limited(0)' = Limited(0)
      BY <1>1, WholesFixed, InputsFixed
  <2> QED
      BY <1>1, <2>1, <2>2 DEF BoxLayout, Right, OwnRight, IsZero
<1>2. CASE UNCHANGED vars
    BY <1>1, <1>2 DEF vars, fields, inputs, LayoutInv
<1>3. ASSUME NEW b \in Boxes, RankStep(b)
      PROVE  LayoutInv'
  <2>1. BoxLayout(b)'
      BY <1>3, LayoutStep
  <2>2. ASSUME NEW c \in Boxes \ {b} PROVE BoxLayout(c)'
      BY <1>1, <1>3, RankStepFrame DEF Apart
  <2> QED
      BY <2>1, <2>2 DEF LayoutInv
<1> QED
    BY <1>2, <1>3 DEF Next, Finished

LEMMA LayoutInvEnough ==
    ASSUME HalosFit, LayoutInv
    PROVE  LayoutIndependent
<1> SUFFICES ASSUME NEW b \in Boxes, pc[b] = Done
             PROVE  /\ \A p \in Grown(b, Cell) :
                          bathyT[b][p] = Depth(p) /\ mask2dT[b][p] = AsMask(Ocean(p))
                    /\ \A p \in Grown(b, XFace) :
                          mask2dCu[b][p] = AsMask(Ocean(West(p)) /\ Ocean(p))
                    /\ \A p \in Grown(b, YFace) :
                          mask2dCv[b][p] = AsMask(Ocean(South(p)) /\ Ocean(p))
                    /\ \A p \in Grown(b, Node) :
                          mask2dBu[b][p] = AsMask(/\ Ocean(p) /\ Ocean(West(p))
                                                  /\ Ocean(South(p)) /\ Ocean(South(West(p))))
    BY DEF LayoutIndependent
<1>1. /\ Right(bathyT, b, Cell, WholeDepth) /\ Right(mask2dT, b, Cell, WholeT)
      /\ Right(mask2dCu, b, XFace, WholeCu) /\ Right(mask2dCv, b, YFace, WholeCv)
      /\ Right(mask2dBu, b, Node, WholeBu)
    BY DEF LayoutInv, BoxLayout, Done
<1>2. ASSUME NEW s \in Staggers, NEW p \in Grown(b, s) PROVE p \in Around
    BY HeldPoints
<1>3. ASSUME NEW p \in Grown(b, Cell) PROVE bathyT[b][p] = Depth(p) /\ mask2dT[b][p] = AsMask(Ocean(p))
    BY <1>1, <1>2, StaggersAre DEF Right, WholeDepth, WholeT
<1>4. ASSUME NEW p \in Grown(b, XFace) PROVE mask2dCu[b][p] = AsMask(Ocean(West(p)) /\ Ocean(p))
    BY <1>1, <1>2, StaggersAre DEF Right, WholeCu
<1>5. ASSUME NEW p \in Grown(b, YFace) PROVE mask2dCv[b][p] = AsMask(Ocean(South(p)) /\ Ocean(p))
    BY <1>1, <1>2, StaggersAre DEF Right, WholeCv
<1>6. ASSUME NEW p \in Grown(b, Node)
      PROVE  mask2dBu[b][p] = AsMask(/\ Ocean(p) /\ Ocean(West(p))
                                     /\ Ocean(South(p)) /\ Ocean(South(West(p))))
    BY <1>1, <1>2, StaggersAre DEF Right, WholeBu
<1> QED
    BY <1>3, <1>4, <1>5, <1>6

\* However the domain is cut into boxes, and however the ranks interleave, each ends
\* with the depth and masks of the uncut domain, if the halo is there and narrower
\* than the grid.
THEOREM LayoutDoesNotMatter == ASSUME HalosFit PROVE Spec => []LayoutIndependent
<1>1. Init => Steady /\ Inputs /\ LayoutInv
    BY SteadyInit DEF Init, LayoutInv, BoxLayout
<1>2. Steady /\ Inputs /\ LayoutInv /\ [Next]_vars => (Steady /\ Inputs /\ LayoutInv)'
    BY SteadyStep, LayoutInvStep
<1>3. Steady /\ Inputs /\ LayoutInv => LayoutIndependent
    BY LayoutInvEnough
<1> QED
    BY <1>1, <1>2, <1>3, PTL DEF Spec
====
