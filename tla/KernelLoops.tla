----------------------------- MODULE KernelLoops -----------------------------
(***************************************************************************)
(* What the dynamical-core kernels do to memory.  A kernel of              *)
(* src/src/mom_kernels is a sequence of AMReX ParallelFor loops.  Each one *)
(* runs one body for every cell of a box, in no particular order, reading  *)
(* arrays at fixed offsets from the cell and writing arrays at the cell    *)
(* itself.  Whether the kernel is correct for every grid hangs on which    *)
(* boxes the loops run over: one cell too few and the next loop reads      *)
(* memory nobody set, one too many and it runs off the allocation.         *)
(*                                                                         *)
(* The arithmetic of a body is left out.  What is kept of a value is its   *)
(* provenance: the input cells it was computed from, as offsets.           *)
(*                                                                         *)
(* A box is written as the margins by which it exceeds the core box bx0 on *)
(* its four sides, so nothing here depends on the size of the grid.        *)
(***************************************************************************)
EXTENDS Integers, Sequences, FiniteSets, SequencesExt

Margins == [w : Int, e : Int, s : Int, n : Int]

bx0 == [w |-> 0, e |-> 0, s |-> 0, n |-> 0]

\* amrex::grow(box, dim, n), for dim 0 and 1, and growLo and growHi by one
GrowX(box, n) == [box EXCEPT !.w = @ + n, !.e = @ + n]
GrowY(box, n) == [box EXCEPT !.s = @ + n, !.n = @ + n]
GrowLoX(box) == [box EXCEPT !.w = @ + 1]
GrowLoY(box) == [box EXCEPT !.s = @ + 1]
GrowHiX(box) == [box EXCEPT !.e = @ + 1]
GrowHiY(box) == [box EXCEPT !.n = @ + 1]

\* The boxes the caller's arrays have: isd .. ied for cells, and in symmetric
\* memory one point more at the start for faces and corners
DataBox(cfg) == GrowX(GrowY(bx0, cfg.halo), cfg.halo)
UBox(cfg) == IF cfg.symmetric THEN GrowLoX(DataBox(cfg)) ELSE DataBox(cfg)
VBox(cfg) == IF cfg.symmetric THEN GrowLoY(DataBox(cfg)) ELSE DataBox(cfg)
CornerBox(cfg) == IF cfg.symmetric THEN GrowLoX(GrowLoY(DataBox(cfg))) ELSE DataBox(cfg)

\* The iteration boxes of a tile: corners and faces from IscB, JscB on
bxQ(cfg) == IF cfg.symmetric THEN GrowLoX(GrowLoY(bx0)) ELSE bx0
bxU(cfg) == IF cfg.symmetric THEN GrowLoX(bx0) ELSE bx0
bxV(cfg) == IF cfg.symmetric THEN GrowLoY(bx0) ELSE bx0

\* Every side of a box at least as far out as the same side of another
Within(box, outer) ==
    /\ box.w <= outer.w
    /\ box.e <= outer.e
    /\ box.s <= outer.s
    /\ box.n <= outer.n

\* The cells of an nx by ny core box grown by these margins
Cells(box, nx, ny) ==
    {c \in Int \X Int : /\ 1 - box.w <= c[1] /\ c[1] <= nx + box.e
                        /\ 1 - box.s <= c[2] /\ c[2] <= ny + box.n}

\* The cells a loop over box reads when its body reads offset o
ReadAt(box, o) ==
    [w |-> box.w - o[1], e |-> box.e + o[1], s |-> box.s - o[2], n |-> box.n + o[2]]

\* The cell at offset o from cell c
Moved(c, o) == <<c[1] + o[1], c[2] + o[2]>>

-----------------------------------------------------------------------------
\* Loops

Here == {<<0, 0>>}
East == {<<1, 0>>}
West == {<<-1, 0>>}
North == {<<0, 1>>}
South == {<<0, -1>>}

\* The arrays, each read at each of the offsets
At(arrays, offsets) == arrays \X offsets

\* What a body sets some arrays to: it computes them from these reads
Set(arrays, reads) == [writes |-> arrays, reads |-> reads]

\* One ParallelFor: its box and all that its body sets
Loop(box, sets) == [op |-> "loop", box |-> box, sets |-> sets]

Writes(loop) == UNION {x.writes : x \in loop.sets}
Reads(loop) == UNION {x.reads : x \in loop.sets}

\* Scratch arrays allocated over a box, their contents unset
Scratch(box, arrays) == [op |-> "scratch", box |-> box, sets |-> {Set(arrays, {})}]

When(condition, arrays) == IF condition THEN arrays ELSE {}

\* The options of a call, and the arrays it is given, where the caller may leave
\* them out
On(cfg, option) == option \in cfg.on
Wanted(cfg, a) == a \in cfg.given

\* The loop that sets one array, and the one that changes it in place, each run
\* only under a condition
Sets(condition, box, a, reads) ==
    IF condition THEN <<Loop(box, {Set({a}, reads)})>> ELSE <<>>
Changes(condition, box, a, reads) ==
    Sets(condition, box, a, reads \cup At({a}, Here))

\* A body that is run for all cells at once may not read another cell of an
\* array it writes
RaceFree(loop) == \A r \in Reads(loop) : r[1] \in Writes(loop) => r[2] = <<0, 0>>

-----------------------------------------------------------------------------
\* Memory: alloc is the box an array is allocated on; content its layers, the
\* newest first.  A layer is a box that was written in one loop and the input
\* cells its values come from.

Layer(box, from) == [box |-> box, from |-> from]

\* An array that holds its own initial values everywhere
Initial(a, box) == <<Layer(box, At({a}, Here))>>

\* How many layers one has to look through to find the whole of a box
DepthOf(layers, box) ==
    CHOOSE k \in DOMAIN layers :
        /\ Within(box, layers[k].box)
        /\ \A l \in 1 .. k - 1 : ~Within(box, layers[l].box)

IsSet(mem, a, box) ==
    \E k \in DOMAIN mem.content[a] : Within(box, mem.content[a][k].box)

\* A layer is seen unless a newer one covers all of it
Seen(layers, k) == \A l \in 1 .. k - 1 : ~Within(layers[k].box, layers[l].box)

\* The origins of the values an array holds on a box
Origins(mem, a, box) ==
    IF IsSet(mem, a, box)
    THEN LET layers == mem.content[a] IN
         UNION {layers[k].from : k \in {l \in 1 .. DepthOf(layers, box) : Seen(layers, l)}}
    ELSE {}

MovedBy(from, o) == {<<r[1], Moved(r[2], o)>> : r \in from}

Provenance(mem, box, reads) ==
    UNION {MovedBy(Origins(mem, r[1], ReadAt(box, r[2])), r[2]) : r \in reads}

ReadsSet(mem, loop) ==
    \A r \in Reads(loop) : IsSet(mem, r[1], ReadAt(loop.box, r[2]))

WritesInside(mem, loop) == \A a \in Writes(loop) : Within(loop.box, mem.alloc[a])

SetBy(loop, a) == CHOOSE x \in loop.sets : a \in x.writes

AfterLoop(mem, loop) ==
    [mem EXCEPT !.content = [a \in DOMAIN @ |->
        IF a \in Writes(loop)
        THEN <<Layer(loop.box, Provenance(mem, loop.box, SetBy(loop, a).reads))>> \o @[a]
        ELSE @[a]]]

AfterScratch(mem, step) ==
    [alloc |-> [a \in DOMAIN mem.alloc |->
                  IF a \in Writes(step) THEN step.box ELSE mem.alloc[a]],
     content |-> [a \in DOMAIN mem.content |->
                  IF a \in Writes(step) THEN <<>> ELSE mem.content[a]]]
=============================================================================
