---------------------------- MODULE KernelProofs ----------------------------
(***************************************************************************)
(* Proofs about the loops of the kernels and about calls of the kernels.   *)
(*                                                                         *)
(* Loops: why the margins of KernelLoops say something about every grid.   *)
(* The runs compare margins; the theorems turn each comparison into a fact *)
(* about all cells of a core box of any size, and RaceFree into a fact     *)
(* about any two cells that run at the same time.                          *)
(*                                                                         *)
(* Calls: for every call the kernels take, no loop races and the host's    *)
(* arrays come back as they should. Both follow from the text of each      *)
(* kernel: its parts are shown, one by one, to be sequences of loops that  *)
(* read other cells only of arrays they do not write, and that write only  *)
(* the call's outputs and the kernel's own scratch arrays (KernelFits).    *)
(* The transposed call is one the kernels take too (MirroredOK).           *)
(*                                                                         *)
(* Claims: a table says of each array on which box it is set and how far   *)
(* its values come from, and each loop of continuity leads from claims     *)
(* that are true to claims that are true, so that its kernels keep what    *)
(* they promise. KernelValuesProofs goes on with the other kernels, and    *)
(* shows which cells are set when they are read, and from what.            *)
(***************************************************************************)
EXTENDS KernelCalls, WellFoundedInduction, SequenceTheorems, TLAPS

-----------------------------------------------------------------------------
\* Loops on every grid

Offsets == Int \X Int

\* Smaller margins are fewer cells, on every grid: what a loop wrote over one box
\* is there for every cell of a box within it (the test IsSet makes).
THEOREM WithinOnEveryGrid ==
    ASSUME NEW box \in Margins, NEW outer \in Margins, Within(box, outer),
           NEW nx \in Nat, NEW ny \in Nat
    PROVE  Cells(box, nx, ny) \subseteq Cells(outer, nx, ny)
<1> SUFFICES ASSUME NEW c \in Cells(box, nx, ny)
             PROVE  c \in Cells(outer, nx, ny)
    OBVIOUS
<1>1. /\ c \in Int \X Int
      /\ 1 - box.w <= c[1] /\ c[1] <= nx + box.e
      /\ 1 - box.s <= c[2] /\ c[2] <= ny + box.n
    BY DEF Cells
<1>2. /\ box.w \in Int /\ box.e \in Int /\ box.s \in Int /\ box.n \in Int
      /\ outer.w \in Int /\ outer.e \in Int /\ outer.s \in Int /\ outer.n \in Int
    BY DEF Margins
<1>3. box.w <= outer.w /\ box.e <= outer.e /\ box.s <= outer.s /\ box.n <= outer.n
    BY DEF Within
<1>4. c[1] \in Int /\ c[2] \in Int
    BY <1>1
<1>5. 1 - outer.w <= c[1] /\ c[1] <= nx + outer.e
    BY <1>1, <1>2, <1>3, <1>4
<1>6. 1 - outer.s <= c[2] /\ c[2] <= ny + outer.n
    BY <1>1, <1>2, <1>3, <1>4
<1> QED
    BY <1>1, <1>5, <1>6 DEF Cells

\* ReadAt(box, o) is exactly where the cells of the box find their neighbour at
\* offset o.
LEMMA NeighboursAreRead ==
    ASSUME NEW box \in Margins, NEW o \in Offsets, NEW nx \in Nat, NEW ny \in Nat
    PROVE  \A c \in Int \X Int :
              c \in Cells(box, nx, ny) <=> Moved(c, o) \in Cells(ReadAt(box, o), nx, ny)
<1> SUFFICES ASSUME NEW c \in Int \X Int
             PROVE  c \in Cells(box, nx, ny) <=> Moved(c, o) \in Cells(ReadAt(box, o), nx, ny)
    OBVIOUS
<1> DEFINE d == Moved(c, o)
<1>1. c[1] \in Int /\ c[2] \in Int /\ o[1] \in Int /\ o[2] \in Int
    BY DEF Offsets
<1>2. box.w \in Int /\ box.e \in Int /\ box.s \in Int /\ box.n \in Int
    BY DEF Margins
<1>3. d \in Int \X Int /\ d[1] = c[1] + o[1] /\ d[2] = c[2] + o[2]
    BY <1>1 DEF Moved
<1>4. /\ ReadAt(box, o).w = box.w - o[1] /\ ReadAt(box, o).e = box.e + o[1]
      /\ ReadAt(box, o).s = box.s - o[2] /\ ReadAt(box, o).n = box.n + o[2]
    BY DEF ReadAt
<1>5. /\ 1 - box.w <= c[1] <=> 1 - ReadAt(box, o).w <= d[1]
      /\ c[1] <= nx + box.e <=> d[1] <= nx + ReadAt(box, o).e
    BY <1>1, <1>2, <1>3, <1>4
<1>6. /\ 1 - box.s <= c[2] <=> 1 - ReadAt(box, o).s <= d[2]
      /\ c[2] <= ny + box.n <=> d[2] <= ny + ReadAt(box, o).n
    BY <1>1, <1>2, <1>3, <1>4
<1> QED
    BY <1>3, <1>5, <1>6 DEF Cells

\* The region a loop reads at one offset, as margins
LEMMA ReadAtType ==
    ASSUME NEW box \in Margins, NEW o \in Offsets
    PROVE  ReadAt(box, o) \in Margins
BY DEF Margins, Offsets, ReadAt

\* The check ReadsHoldValues makes for one read of a loop, on every grid: if the
\* region that is read lies within a box that was written, then whichever cell
\* the loop body runs for, the neighbour it reads is one of the cells written.
THEOREM ReadsHoldValuesOnEveryGrid ==
    ASSUME NEW box \in Margins, NEW written \in Margins, NEW o \in Offsets,
           Within(ReadAt(box, o), written),
           NEW nx \in Nat, NEW ny \in Nat, NEW c \in Cells(box, nx, ny)
    PROVE  Moved(c, o) \in Cells(written, nx, ny)
<1>1. c \in Int \X Int
    BY DEF Cells
<1>2. Moved(c, o) \in Cells(ReadAt(box, o), nx, ny)
    BY <1>1, NeighboursAreRead
<1>3. Cells(ReadAt(box, o), nx, ny) \subseteq Cells(written, nx, ny)
    BY ReadAtType, WithinOnEveryGrid
<1> QED
    BY <1>2, <1>3

\* The places of memory, array and cell, that the body of a loop writes and reads
\* when it runs for cell c
PlacesWritten(loop, c) == {<<a, c>> : a \in Writes(loop)}
PlacesRead(loop, c) == {<<r[1], Moved(c, r[2])>> : r \in Reads(loop)}

\* What CellsDoNotRace checks is enough: of two cells of a race-free loop that
\* run at the same time, neither reads a place the other writes, and no place is
\* written by both. The order the cells run in cannot show.
THEOREM RaceFreeCellsDoNotMeet ==
    ASSUME NEW loop, RaceFree(loop),
           NEW c \in Int \X Int, NEW d \in Int \X Int, c # d
    PROVE  /\ PlacesWritten(loop, c) \cap PlacesRead(loop, d) = {}
           /\ PlacesWritten(loop, c) \cap PlacesWritten(loop, d) = {}
<1>1. ASSUME NEW a \in Writes(loop), NEW r \in Reads(loop), <<a, c>> = <<r[1], Moved(d, r[2])>>
      PROVE  FALSE
  <2>1. r[1] \in Writes(loop)
      BY <1>1
  <2>2. r[2] = <<0, 0>>
      BY <2>1 DEF RaceFree
  <2>3. Moved(d, r[2]) = d
      BY <2>2 DEF Moved
  <2> QED
      BY <1>1, <2>3
<1>2. PlacesWritten(loop, c) \cap PlacesRead(loop, d) = {}
    BY <1>1 DEF PlacesWritten, PlacesRead
<1>3. PlacesWritten(loop, c) \cap PlacesWritten(loop, d) = {}
    BY DEF PlacesWritten
<1> QED
    BY <1>2, <1>3

-----------------------------------------------------------------------------
\* What the steps of a kernel do to memory

\* Reads that touch what is written only at the cell itself
Apart(writes, reads) == \A r \in reads : r[1] \in writes => r[2] = <<0, 0>>

\* A step that does not race: a loop that writes some of W, or the allocation of
\* some of S
Fits(step, W, S) ==
    /\ RaceFree(step)
    /\ \/ step.op = "loop" /\ Writes(step) \subseteq W
       \/ step.op = "scratch" /\ Writes(step) \subseteq S

\* A sequence of such steps
AllFit(steps, W, S) == \E X : steps \in Seq(X) /\ \A x \in X : Fits(x, W, S)

\* What the loops of one body set, each apart from all that it writes
Tame(sets, A) == \A x \in sets : x.writes \subseteq A /\ Apart(A, x.reads)

\* The two parts of Set.
LEMMA SetParts == \A A, R : Set(A, R).writes = A /\ Set(A, R).reads = R
  BY DEF Set

\* Arrays that a body does not write it may read anywhere, those it writes at its own
\* cell; and reads put together are apart when each of them is.
LEMMA ApartReads ==
    /\ \A A, arrays, offsets : (\A a \in arrays : a \notin A) => Apart(A, At(arrays, offsets))
    /\ \A A, arrays : Apart(A, At(arrays, Here))
    /\ \A A, R, Q : Apart(A, R) /\ Apart(A, Q) => Apart(A, R \cup Q)
    /\ \A A : Apart(A, {})
  BY DEF Apart, At, Here

\* The same for what is set: one Set, two collections of them, none.
LEMMA TameSets ==
    /\ \A A, B, R : B \subseteq A /\ Apart(A, R) => Tame({Set(B, R)}, A)
    /\ \A A, X, Y : Tame(X, A) /\ Tame(Y, A) => Tame(X \cup Y, A)
    /\ \A A : Tame({}, A)
  BY SetParts DEF Tame

\* A loop whose body keeps its reads apart from all that it writes does not race.
LEMMA LoopFits ==
    ASSUME NEW W, NEW S, NEW box, NEW sets, NEW A, A \subseteq W, Tame(sets, A)
    PROVE  Fits(Loop(box, sets), W, S)
  BY DEF Fits, Loop, Writes, Reads, RaceFree, Apart, Tame

\* The same for a body that sets its arrays from one set of reads.
LEMMA LoopStep ==
    ASSUME NEW W, NEW S, NEW box, NEW A, NEW R, A \subseteq W, Apart(A, R)
    PROVE  Fits(Loop(box, {Set(A, R)}), W, S)
  BY LoopFits, TameSets

\* The allocation of scratch arrays reads nothing.
LEMMA ScratchFits ==
    ASSUME NEW W, NEW S, NEW box, NEW arrays, arrays \subseteq S
    PROVE  Fits(Scratch(box, arrays), W, S)
  BY SetParts DEF Fits, Scratch, Writes, RaceFree, Reads

\* How a sequence of steps comes to fit: it is made of steps that do.
LEMMA StepsFrom ==
    ASSUME NEW W, NEW S, NEW X, NEW s \in Seq(X), \A x \in X : Fits(x, W, S)
    PROVE  AllFit(s, W, S)
  BY DEF AllFit

\* No step at all, where an option is off.
LEMMA NoSteps == \A W, S : AllFit(<<>>, W, S)
  <1> SUFFICES ASSUME NEW W, NEW S PROVE AllFit(<<>>, W, S)
    OBVIOUS
  <1> DEFINE X == {}
  <1>1. \A x \in X : Fits(x, W, S)
    OBVIOUS
  <1> HIDE DEF X
  <1>2. <<>> \in Seq(X)
    OBVIOUS
  <1> QED BY <1>1, <1>2, StepsFrom

\* Kernels as the code lists them, of one step, two, and so on up to eight.
LEMMA OneStep ==
    ASSUME NEW W, NEW S, NEW a,
           Fits(a, W, S)
    PROVE  AllFit(<<a>>, W, S)
  <1> DEFINE X == {a}
  <1>1. \A x \in X : Fits(x, W, S)
    OBVIOUS
  <1>2. a \in X
    OBVIOUS
  <1> HIDE DEF X
  <1>3. <<a>> \in Seq(X)
    BY <1>2
  <1> QED BY <1>1, <1>3, StepsFrom

\* Two steps.
LEMMA TwoSteps ==
    ASSUME NEW W, NEW S, NEW a, NEW b,
           Fits(a, W, S), Fits(b, W, S)
    PROVE  AllFit(<<a, b>>, W, S)
  <1> DEFINE X == {a, b}
  <1>1. \A x \in X : Fits(x, W, S)
    OBVIOUS
  <1>2. a \in X /\ b \in X
    OBVIOUS
  <1> HIDE DEF X
  <1>3. <<a, b>> \in Seq(X)
    BY <1>2
  <1> QED BY <1>1, <1>3, StepsFrom

\* Three steps.
LEMMA ThreeSteps ==
    ASSUME NEW W, NEW S, NEW a, NEW b, NEW c,
           Fits(a, W, S), Fits(b, W, S), Fits(c, W, S)
    PROVE  AllFit(<<a, b, c>>, W, S)
  <1> DEFINE X == {a, b, c}
  <1>1. \A x \in X : Fits(x, W, S)
    OBVIOUS
  <1>2. a \in X /\ b \in X /\ c \in X
    OBVIOUS
  <1> HIDE DEF X
  <1>3. <<a, b, c>> \in Seq(X)
    BY <1>2
  <1> QED BY <1>1, <1>3, StepsFrom

\* Four steps.
LEMMA FourSteps ==
    ASSUME NEW W, NEW S, NEW a, NEW b, NEW c, NEW d,
           Fits(a, W, S), Fits(b, W, S), Fits(c, W, S), Fits(d, W, S)
    PROVE  AllFit(<<a, b, c, d>>, W, S)
  <1> DEFINE X == {a, b, c, d}
  <1>1. \A x \in X : Fits(x, W, S)
    OBVIOUS
  <1>2. a \in X /\ b \in X /\ c \in X /\ d \in X
    OBVIOUS
  <1> HIDE DEF X
  <1>3. <<a, b, c, d>> \in Seq(X)
    BY <1>2
  <1> QED BY <1>1, <1>3, StepsFrom

\* Six steps.
LEMMA SixSteps ==
    ASSUME NEW W, NEW S, NEW a, NEW b, NEW c, NEW d, NEW e, NEW f,
           Fits(a, W, S), Fits(b, W, S), Fits(c, W, S), Fits(d, W, S), Fits(e, W, S), Fits(f, W, S)
    PROVE  AllFit(<<a, b, c, d, e, f>>, W, S)
  <1> DEFINE X == {a, b, c, d, e, f}
  <1>1. \A x \in X : Fits(x, W, S)
    OBVIOUS
  <1>2. a \in X /\ b \in X /\ c \in X /\ d \in X /\ e \in X /\ f \in X
    OBVIOUS
  <1> HIDE DEF X
  <1>3. <<a, b, c, d, e, f>> \in Seq(X)
    BY <1>2
  <1> QED BY <1>1, <1>3, StepsFrom

\* Eight steps.
LEMMA EightSteps ==
    ASSUME NEW W, NEW S, NEW a, NEW b, NEW c, NEW d, NEW e, NEW f, NEW g, NEW h,
           Fits(a, W, S), Fits(b, W, S), Fits(c, W, S), Fits(d, W, S), Fits(e, W, S), Fits(f, W, S), Fits(g, W, S), Fits(h, W, S)
    PROVE  AllFit(<<a, b, c, d, e, f, g, h>>, W, S)
  <1> DEFINE X == {a, b, c, d, e, f, g, h}
  <1>1. \A x \in X : Fits(x, W, S)
    OBVIOUS
  <1>2. a \in X /\ b \in X /\ c \in X /\ d \in X /\ e \in X /\ f \in X /\ g \in X /\ h \in X
    OBVIOUS
  <1> HIDE DEF X
  <1>3. <<a, b, c, d, e, f, g, h>> \in Seq(X)
    BY <1>2
  <1> QED BY <1>1, <1>3, StepsFrom

\* One part of a kernel after another.
LEMMA Then ==
    ASSUME NEW W, NEW S, NEW s, NEW t, AllFit(s, W, S), AllFit(t, W, S)
    PROVE  AllFit(s \o t, W, S)
  <1>1. PICK X : s \in Seq(X) /\ \A x \in X : Fits(x, W, S)
    BY DEF AllFit
  <1>2. PICK Y : t \in Seq(Y) /\ \A x \in Y : Fits(x, W, S)
    BY DEF AllFit
  <1>3. s \in Seq(X \cup Y) /\ t \in Seq(X \cup Y)
    BY <1>1, <1>2
  <1>4. s \o t \in Seq(X \cup Y)
    BY <1>3
  <1>5. \A x \in X \cup Y : Fits(x, W, S)
    BY <1>1, <1>2
  <1> QED BY <1>4, <1>5, StepsFrom

\* A part of a kernel that is one loop.
LEMMA OneLoop ==
    ASSUME NEW W, NEW S, NEW box, NEW A, NEW R, A \subseteq W, Apart(A, R)
    PROVE  AllFit(<<Loop(box, {Set(A, R)})>>, W, S)
  BY LoopStep, OneStep

\* The loop that sets one array under a condition.
LEMMA SetsFit ==
    ASSUME NEW W, NEW S, NEW box, NEW a, NEW R, NEW condition,
           condition => a \in W /\ Apart({a}, R)
    PROVE  AllFit(Sets(condition, box, a, R), W, S)
  <1>1. CASE condition
    BY <1>1, OneLoop DEF Sets
  <1>2. CASE ~condition
    BY <1>2, NoSteps DEF Sets
  <1> QED BY <1>1, <1>2

\* The loop that changes one array in place under a condition: the cell itself is all
\* it may read of it.
LEMMA ChangesFit ==
    ASSUME NEW W, NEW S, NEW box, NEW a, NEW R, NEW condition,
           condition => a \in W /\ Apart({a}, R)
    PROVE  AllFit(Changes(condition, box, a, R), W, S)
  BY SetsFit, ApartReads DEF Changes

-----------------------------------------------------------------------------
\* Continuity

ContinuityScratch ==
    {"h_W", "h_E", "h_S", "h_N", "slp", "do_I", "visc_rem_max",
     "visc_rem_u_tmp", "uh_tot_0", "duhdu_tot_0", "du_max_CFL", "du_min_CFL", "du",
     "visc_rem_v_tmp", "vh_tot_0", "dvhdv_tot_0", "dv_max_CFL", "dv_min_CFL", "dv"}

\* The edge values of the reconstruction, in both directions.
LEMMA EdgesFit ==
    ASSUME NEW W, NEW S, ContinuityScratch \subseteq W, ContinuityScratch \subseteq S,
           NEW cfg, NEW box, NEW h \in {"hin", "h"}
    PROVE  /\ AllFit(zonal_edge_thickness(box, h, cfg), W, S)
           /\ AllFit(meridional_edge_thickness(box, h, cfg), W, S)
  <1>1. AllFit(LimitPosX(GrowX(box, 1), h), W, S)
    BY OneLoop, ApartReads DEF LimitPosX, ContinuityScratch
  <1>2. AllFit(LimitPosY(GrowY(box, 1), h), W, S)
    BY OneLoop, ApartReads DEF LimitPosY, ContinuityScratch
  <1>3. AllFit(PPM_reconstruction_x(box, h, cfg), W, S)
    BY <1>1, Then, OneStep, TwoSteps, ScratchFits, LoopStep, ApartReads
       DEF PPM_reconstruction_x, ContinuityScratch, When
  <1>4. AllFit(PPM_reconstruction_y(box, h, cfg), W, S)
    BY <1>2, Then, OneStep, TwoSteps, ScratchFits, LoopStep, ApartReads
       DEF PPM_reconstruction_y, ContinuityScratch, When
  <1>5. AllFit(zonal_edge_thickness(box, h, cfg), W, S)
    BY <1>3, OneLoop, ApartReads DEF zonal_edge_thickness, ContinuityScratch
  <1>6. AllFit(meridional_edge_thickness(box, h, cfg), W, S)
    BY <1>4, OneLoop, ApartReads DEF meridional_edge_thickness, ContinuityScratch
  <1> QED BY <1>5, <1>6

\* The correction of the transports towards a target, in both directions.
LEMMA FluxAdjustFits ==
    ASSUME NEW W, NEW S, ContinuityScratch \subseteq W, NEW box, NEW h \in {"hin", "h"},
           NEW target, NEW flux, flux \subseteq W,
           flux \cap ({"u", "v", "face_u", "face_v", "cell_x", "cell_y", "hin", "h"} \cup ContinuityScratch) = {}
    PROVE  /\ AllFit(zonal_flux_adjust(box, h, target, flux), W, S)
           /\ AllFit(meridional_flux_adjust(box, h, target, flux), W, S)
  <1>1. {"du"} \cup flux \subseteq W /\ {"dv"} \cup flux \subseteq W
    BY DEF ContinuityScratch
  <1>2. Apart({"du"} \cup flux, ZonalFlux("u", h))
    BY ApartReads DEF ZonalFlux, ContinuityScratch
  <1>3. Apart({"dv"} \cup flux, MeridionalFlux("v", h))
    BY ApartReads DEF MeridionalFlux, ContinuityScratch
  <1>4. AllFit(zonal_flux_adjust(box, h, target, flux), W, S)
    BY <1>1, <1>2, OneLoop, ApartReads DEF zonal_flux_adjust
  <1>5. AllFit(meridional_flux_adjust(box, h, target, flux), W, S)
    BY <1>1, <1>3, OneLoop, ApartReads DEF meridional_flux_adjust
  <1> QED BY <1>4, <1>5

\* The face areas of the barotropic continuity type.
LEMMA BTContFits ==
    ASSUME NEW W, NEW S, ContinuityScratch \subseteq W, NEW box, NEW h \in {"hin", "h"},
           NEW given, given \cap OptionalOutputs \subseteq W
    PROVE  /\ "FA_u" \in given => AllFit(zonal_BT_cont(box, h, given), W, S)
           /\ "FA_v" \in given => AllFit(meridional_BT_cont(box, h, given), W, S)
           /\ AllFit(zonal_corrected(box, given), W, S)
           /\ AllFit(meridional_corrected(box, given), W, S)
  <1>1. AllFit(zonal_flux_adjust(box, h, {}, {}), W, S) /\ AllFit(meridional_flux_adjust(box, h, {}, {}), W, S)
    BY FluxAdjustFits
  <1>2. "FA_u" \in given => AllFit(set_zonal_BT_cont(box, h), W, S)
    BY OneLoop, ApartReads DEF set_zonal_BT_cont, ZonalFlux, OptionalOutputs
  <1>3. "FA_v" \in given => AllFit(set_merid_BT_cont(box, h), W, S)
    BY OneLoop, ApartReads DEF set_merid_BT_cont, MeridionalFlux, OptionalOutputs
  <1>4. "h_u" \in given => \A velocity \in {"u", "u_cor"} : AllFit(zonal_flux_thickness(box, velocity, h), W, S)
    BY OneLoop, ApartReads DEF zonal_flux_thickness, ZonalFlux, OptionalOutputs
  <1>5. "h_v" \in given => \A velocity \in {"v", "v_cor"} : AllFit(meridional_flux_thickness(box, velocity, h), W, S)
    BY OneLoop, ApartReads DEF meridional_flux_thickness, MeridionalFlux, OptionalOutputs
  <1>6. "FA_u" \in given => AllFit(zonal_BT_cont(box, h, given), W, S)
    BY <1>1, <1>2, <1>4, Then, NoSteps DEF zonal_BT_cont
  <1>7. "FA_v" \in given => AllFit(meridional_BT_cont(box, h, given), W, S)
    BY <1>1, <1>3, <1>5, Then, NoSteps DEF meridional_BT_cont
  <1>8. AllFit(zonal_corrected(box, given), W, S)
    <2> DEFINE sets == {Set(given \cap {"u_cor"}, At({"u", "du", "visc_rem_u_tmp"}, Here)),
                        Set(given \cap {"du_cor"}, At({"du"}, Here))}
               A == given \cap {"u_cor", "du_cor"}
    <2>1. Tame(sets, A)
      BY SetParts, ApartReads DEF Tame
    <2>2. A \subseteq W
      BY DEF OptionalOutputs
    <2> HIDE DEF A
    <2>3. AllFit(<<Loop(box, sets)>>, W, S)
      BY <2>1, <2>2, LoopFits, OneStep
    <2> QED BY <2>3, NoSteps DEF zonal_corrected
  <1>9. AllFit(meridional_corrected(box, given), W, S)
    <2> DEFINE sets == {Set(given \cap {"v_cor"}, At({"v", "dv", "visc_rem_v_tmp"}, Here)),
                        Set(given \cap {"dv_cor"}, At({"dv"}, Here))}
               A == given \cap {"v_cor", "dv_cor"}
    <2>1. Tame(sets, A)
      BY SetParts, ApartReads DEF Tame
    <2>2. A \subseteq W
      BY DEF OptionalOutputs
    <2> HIDE DEF A
    <2>3. AllFit(<<Loop(box, sets)>>, W, S)
      BY <2>1, <2>2, LoopFits, OneStep
    <2> QED BY <2>3, NoSteps DEF meridional_corrected
  <1> QED BY <1>6, <1>7, <1>8, <1>9

\* The mass fluxes of one direction with all that hangs on them.
LEMMA MassFluxFits ==
    ASSUME NEW W, NEW S, ContinuityScratch \subseteq W, ContinuityScratch \subseteq S,
           {"uh", "vh"} \subseteq W, NEW box, NEW h \in {"hin", "h"},
           NEW cfg, cfg.given \cap OptionalOutputs \subseteq W
    PROVE  /\ AllFit(zonal_mass_flux(box, h, cfg), W, S)
           /\ AllFit(meridional_mass_flux(box, h, cfg), W, S)
  <1> DEFINE given == cfg.given
  <1>1. /\ AllFit(zonal_flux_adjust(box, h, {"uhbt"}, {"uh"}), W, S)
        /\ AllFit(meridional_flux_adjust(box, h, {"vhbt"}, {"vh"}), W, S)
    BY FluxAdjustFits DEF ContinuityScratch
  <1>2. AllFit(zonal_mass_flux(box, h, cfg), W, S)
    <2> DEFINE visc_rem == At(given \cap {"visc_rem_u"}, Here)
               sums == {Set({"uh_tot_0", "duhdu_tot_0"}, ZonalFlux("u", h) \cup visc_rem),
                        Set({"du_max_CFL", "du_min_CFL"}, zonal_limits(cfg, visc_rem)),
                        Set({"visc_rem_max"}, visc_rem),
                        Set({"do_I"}, {})}
               always == {Set({"uh"}, ZonalFlux("u", h)), Set({"visc_rem_u_tmp"}, visc_rem),
                          Set(given \cap {"du_cor"}, {})}
               A == {"uh", "visc_rem_u_tmp", "uh_tot_0", "duhdu_tot_0", "du_max_CFL", "du_min_CFL",
                     "visc_rem_max", "do_I"} \cup (given \cap {"du_cor"})
    <2>1. A \subseteq W
      BY DEF ContinuityScratch, OptionalOutputs
    <2>2. Apart(A, visc_rem) /\ Apart(A, ZonalFlux("u", h)) /\ Apart(A, {})
      BY ApartReads DEF ZonalFlux
    <2>3. Apart(A, ZonalFlux("u", h) \cup visc_rem)
      BY <2>2, ApartReads
    <2>4. Apart(A, zonal_limits(cfg, visc_rem))
      BY <2>2, ApartReads DEF zonal_limits, When
    <2>5. Tame(sums, A)
      BY <2>2, <2>3, <2>4, SetParts DEF Tame
    <2>6. Tame(always, A)
      BY <2>2, SetParts DEF Tame
    <2>7. Tame(always \cup When(needs_sums(given, "uhbt", "FA_u"), sums), A)
      BY <2>5, <2>6, TameSets DEF When
    <2> HIDE DEF A, sums, always
    <2>8. Fits(Loop(GrowLoX(box), always \cup When(needs_sums(given, "uhbt", "FA_u"), sums)), W, S)
      BY <2>1, <2>7, LoopFits
    <2>9. Fits(Scratch(GrowLoX(box), {"visc_rem_u_tmp", "uh_tot_0", "duhdu_tot_0", "du_max_CFL", "du_min_CFL",
                                      "visc_rem_max", "du", "do_I"}), W, S)
      BY ScratchFits DEF ContinuityScratch
    <2>10. AllFit(zonal_corrected(GrowLoX(box), given), W, S)
      BY BTContFits
    <2>11. "FA_u" \in given => AllFit(zonal_BT_cont(box, h, given), W, S)
      BY BTContFits
    <2> QED BY <1>1, <2>8, <2>9, <2>10, <2>11, TwoSteps, Then, NoSteps DEF zonal_mass_flux, sums, always
  <1>3. AllFit(meridional_mass_flux(box, h, cfg), W, S)
    <2> DEFINE visc_rem == At({"visc_rem_v_tmp"}, Here)
               bx_visc_wide == [GrowLoY(box) EXCEPT !.w = cfg.halo, !.e = cfg.halo]
               filled == Set({"visc_rem_v_tmp"}, At(given \cap {"visc_rem_v"}, Here))
               sums == {Set({"vh_tot_0", "dvhdv_tot_0"}, MeridionalFlux("v", h) \cup visc_rem),
                        Set({"dv_max_CFL", "dv_min_CFL"}, meridional_limits(cfg, visc_rem)),
                        Set({"visc_rem_max"}, visc_rem),
                        Set({"do_I"}, {})}
               always == {Set({"vh"}, MeridionalFlux("v", h)), Set(given \cap {"dv_cor"}, {})}
               A == {"vh", "vh_tot_0", "dvhdv_tot_0", "dv_max_CFL", "dv_min_CFL",
                     "visc_rem_max", "do_I"} \cup (given \cap {"dv_cor"})
    <2>1. A \subseteq W
      BY DEF ContinuityScratch, OptionalOutputs
    <2>2. Apart(A, visc_rem) /\ Apart(A, MeridionalFlux("v", h)) /\ Apart(A, {})
      BY ApartReads DEF MeridionalFlux
    <2>3. Apart(A, MeridionalFlux("v", h) \cup visc_rem)
      BY <2>2, ApartReads
    <2>4. Apart(A, meridional_limits(cfg, visc_rem))
      BY <2>2, ApartReads DEF meridional_limits, When
    <2>5. Tame(sums, A)
      BY <2>2, <2>3, <2>4, SetParts DEF Tame
    <2>6. Tame(always, A)
      BY <2>2, SetParts DEF Tame
    <2>7. Tame(always \cup When(needs_sums(given, "vhbt", "FA_v"), sums), A)
      BY <2>5, <2>6, TameSets DEF When
    <2>8. Fits(Loop(bx_visc_wide, {filled}), W, S)
      BY LoopStep, ApartReads DEF ContinuityScratch
    <2>9. Fits(Scratch(bx_visc_wide, {"visc_rem_v_tmp"}), W, S)
      BY ScratchFits DEF ContinuityScratch
    <2>10. Fits(Scratch(GrowLoY(box), {"vh_tot_0", "dvhdv_tot_0", "dv_max_CFL", "dv_min_CFL", "visc_rem_max",
                                       "dv", "do_I"}), W, S)
      BY ScratchFits DEF ContinuityScratch
    <2> HIDE DEF A, sums, always, bx_visc_wide, filled
    <2>11. Fits(Loop(GrowLoY(box), always \cup When(needs_sums(given, "vhbt", "FA_v"), sums)), W, S)
      BY <2>1, <2>7, LoopFits
    <2>12. AllFit(meridional_corrected(GrowLoY(box), given), W, S)
      BY BTContFits
    <2>13. "FA_v" \in given => AllFit(meridional_BT_cont(box, h, given), W, S)
      BY BTContFits
    <2> DEFINE head == <<Scratch(bx_visc_wide, {"visc_rem_v_tmp"}),
                         Scratch(GrowLoY(box), {"vh_tot_0", "dvhdv_tot_0", "dv_max_CFL", "dv_min_CFL",
                                                "visc_rem_max", "dv", "do_I"}),
                         Loop(bx_visc_wide, {filled}),
                         Loop(GrowLoY(box), always \cup When(needs_sums(given, "vhbt", "FA_v"), sums))>>
               adjusted == IF "vhbt" \in given
                           THEN meridional_flux_adjust(box, h, {"vhbt"}, {"vh"})
                                \o meridional_corrected(GrowLoY(box), given)
                           ELSE <<>>
               areas == IF "FA_v" \in given THEN meridional_BT_cont(box, h, given) ELSE <<>>
    <2>14. AllFit(head, W, S)
      BY <2>8, <2>9, <2>10, <2>11, FourSteps
    <2>15. AllFit(adjusted, W, S) /\ AllFit(areas, W, S)
      BY <1>1, <2>12, <2>13, Then, NoSteps
    <2>16. meridional_mass_flux(box, h, cfg) = head \o adjusted \o areas
      BY Zenon DEF meridional_mass_flux, sums, always, bx_visc_wide, filled
    <2> HIDE DEF head, adjusted, areas
    <2> QED BY <2>14, <2>15, <2>16, Then
  <1> QED BY <1>2, <1>3

\* continuity_PPM, whichever direction is swept first.
LEMMA SweepsFit ==
    ASSUME NEW W, NEW S, ContinuityScratch \subseteq W, ContinuityScratch \subseteq S,
           {"uh", "vh", "h"} \subseteq W, NEW cfg, cfg.given \cap OptionalOutputs \subseteq W
    PROVE  \A x_first : AllFit(continuity_PPM(cfg, x_first), W, S)
  <1>1. \A box : \A h \in {"hin", "h"} : AllFit(ZonalSweep(box, h, cfg), W, S)
    <2> SUFFICES ASSUME NEW box, NEW h \in {"hin", "h"} PROVE AllFit(ZonalSweep(box, h, cfg), W, S)
      OBVIOUS
    <2>1. AllFit(<<Scratch(DataBox(cfg), {"h_W", "h_E"})>>, W, S)
      BY OneStep, ScratchFits DEF ContinuityScratch
    <2>2. AllFit(continuity_zonal_convergence(box, h), W, S)
      BY OneLoop, ApartReads DEF continuity_zonal_convergence
    <2> QED BY <2>1, <2>2, EdgesFit, MassFluxFits, Then DEF ZonalSweep
  <1>2. \A box : \A h \in {"hin", "h"} : AllFit(MeridionalSweep(box, h, cfg), W, S)
    <2> SUFFICES ASSUME NEW box, NEW h \in {"hin", "h"} PROVE AllFit(MeridionalSweep(box, h, cfg), W, S)
      OBVIOUS
    <2>1. AllFit(<<Scratch(DataBox(cfg), {"h_S", "h_N"})>>, W, S)
      BY OneStep, ScratchFits DEF ContinuityScratch
    <2>2. AllFit(continuity_meridional_convergence(box, h), W, S)
      BY OneLoop, ApartReads DEF continuity_meridional_convergence
    <2> QED BY <2>1, <2>2, EdgesFit, MassFluxFits, Then DEF MeridionalSweep
  <1> SUFFICES ASSUME NEW x_first PROVE AllFit(continuity_PPM(cfg, x_first), W, S)
    OBVIOUS
  <1>3. /\ AllFit(ZonalSweep(GrowY(bx0, cfg.stencil), "hin", cfg), W, S)
        /\ AllFit(MeridionalSweep(bx0, "h", cfg), W, S)
    BY <1>1, <1>2
  <1>4. /\ AllFit(MeridionalSweep(GrowX(bx0, cfg.stencil), "hin", cfg), W, S)
        /\ AllFit(ZonalSweep(bx0, "h", cfg), W, S)
    BY <1>1, <1>2
  <1> QED BY <1>3, <1>4, Then DEF continuity_PPM

\* continuity_PPM_2d_fluxes.
LEMMA BTFluxesFit ==
    ASSUME NEW W, NEW S, ContinuityScratch \subseteq W, ContinuityScratch \subseteq S,
           {"uhbt", "vhbt"} \subseteq W, NEW cfg
    PROVE  AllFit(continuity_PPM_2d_fluxes(cfg), W, S)
  <1>1. \A box : AllFit(zonal_BT_mass_flux(box, cfg), W, S)
    BY TwoSteps, LoopStep, ApartReads DEF zonal_BT_mass_flux, ZonalFlux
  <1>2. \A box : AllFit(meridional_BT_mass_flux(box, cfg), W, S)
    BY TwoSteps, LoopStep, ApartReads DEF meridional_BT_mass_flux, MeridionalFlux
  <1>3. AllFit(<<Scratch(DataBox(cfg), {"h_W", "h_E"})>>, W, S) /\ AllFit(<<Scratch(DataBox(cfg), {"h_S", "h_N"})>>, W, S)
    BY OneStep, ScratchFits DEF ContinuityScratch
  <1> QED BY <1>1, <1>2, <1>3, EdgesFit, Then DEF continuity_PPM_2d_fluxes

-----------------------------------------------------------------------------
\* Coriolis and momentum advection

CoriolisScratch ==
    {"Area_q", "Area_h", "q", "Ih_q", "h_q", "abs_vort", "q2", "KEx", "KEy", "KE", "uh_center", "vh_center",
     "dvdx", "dudy", "rel_vort", "hArea_u", "hArea_v", "a", "b", "c", "d", "ep_u", "ep_v",
     "uh_min", "uh_max", "vh_min", "vh_max"}

\* The gradient of the kinetic energy.
LEMMA GradKeFits ==
    ASSUME NEW W, NEW S, CoriolisScratch \subseteq W, NEW cfg
    PROVE  AllFit(gradke(cfg), W, S)
  BY ThreeSteps, LoopStep, ApartReads DEF gradke, CoriolisScratch

\* The vorticities, thicknesses and transports that every Coriolis scheme starts from.
LEMMA SetupFits ==
    ASSUME NEW W, NEW S, CoriolisScratch \subseteq W, CoriolisScratch \subseteq S,
           NEW cfg, cfg.given \subseteq W
    PROVE  AllFit(coradv_setup(cfg), W, S)
  <1> DEFINE box == bxQs(cfg)
             bxQ_gij == GrowX(GrowY(bxQ(cfg), 1), 1)
             hAreas == At({"hArea_u"}, Here \cup North) \cup At({"hArea_v"}, Here \cup East)
             diagnostic(a, reads) ==
                 IF a \in cfg.given THEN <<Loop(bxQ_gij, {Set({a}, At(reads, Here))})>> ELSE <<>>
             shears == Loop(box, {Set({"dvdx"}, At({"v", "face_v"}, Here \cup East)),
                                  Set({"dudy"}, At({"u", "face_u"}, Here \cup North))})
             thicknesses == <<Scratch(CornerBox(cfg), {"dvdx", "dudy", "rel_vort"}),
                              Scratch(UBox(cfg), {"hArea_u"}),
                              Scratch(VBox(cfg), {"hArea_v"}),
                              shears,
                              Loop(GrowHiX(box), {Set({"hArea_v"}, At({"Area_h", "h"}, Here \cup North))}),
                              Loop(GrowHiY(box), {Set({"hArea_u"}, At({"Area_h", "h"}, Here \cup East))})>>
             centred == IF cfg.En_Dis
                        THEN <<Loop(bxVx(cfg), {Set({"uh_center"}, At({"u", "face_u"}, Here) \cup At({"h"}, Here \cup East))}),
                               Loop(bxUx(cfg), {Set({"vh_center"}, At({"v", "face_v"}, Here) \cup At({"h"}, Here \cup North))})>>
                        ELSE <<>>
             vorticities == <<Loop(box, {Set({"rel_vort"}, At({"dvdx", "dudy", "corner"}, Here))}),
                              Loop(box, {Set({"abs_vort"}, At({"rel_vort", "corner"}, Here))}),
                              Loop(box, {Set({"Ih_q"}, hAreas \cup At({"Area_q"}, Here)),
                                         Set({"q"}, hAreas \cup At({"Area_q", "abs_vort"}, Here))})>>
             at_corners == IF cfg.scheme \in WenoSchemes
                           THEN <<Loop(box, {Set({"h_q"}, hAreas \cup At({"Area_q"}, Here))})>>
                           ELSE <<>>
             q2 == IF cfg.given \cap {"rv_x_u", "rv_x_v"} # {}
                   THEN <<Loop(bxQ_gij, {Set({"q2"}, At({"rel_vort", "Ih_q"}, Here))})>>
                   ELSE <<>>
  <1>1. Fits(shears, W, S)
    <2> DEFINE sets == {Set({"dvdx"}, At({"v", "face_v"}, Here \cup East)),
                        Set({"dudy"}, At({"u", "face_u"}, Here \cup North))}
    <2>1. Tame(sets, {"dvdx", "dudy"})
      BY SetParts, ApartReads DEF Tame
    <2>2. {"dvdx", "dudy"} \subseteq W
      BY DEF CoriolisScratch
    <2> HIDE DEF sets
    <2>3. Fits(Loop(box, sets), W, S)
      BY <2>1, <2>2, LoopFits
    <2> QED BY <2>3 DEF sets
  <1>2. Fits(Loop(box, {Set({"Ih_q"}, hAreas \cup At({"Area_q"}, Here)),
                        Set({"q"}, hAreas \cup At({"Area_q", "abs_vort"}, Here))}), W, S)
    <2> DEFINE sets == {Set({"Ih_q"}, hAreas \cup At({"Area_q"}, Here)),
                        Set({"q"}, hAreas \cup At({"Area_q", "abs_vort"}, Here))}
    <2>1. Apart({"Ih_q", "q"}, hAreas)
      BY ApartReads
    <2> HIDE DEF hAreas
    <2>2. Tame(sets, {"Ih_q", "q"})
      <3>1. /\ Apart({"Ih_q", "q"}, hAreas \cup At({"Area_q"}, Here))
            /\ Apart({"Ih_q", "q"}, hAreas \cup At({"Area_q", "abs_vort"}, Here))
        BY <2>1, ApartReads
      <3> QED BY <3>1, SetParts DEF Tame
    <2>3. {"Ih_q", "q"} \subseteq W
      BY DEF CoriolisScratch
    <2> HIDE DEF sets
    <2>4. Fits(Loop(box, sets), W, S)
      BY <2>2, <2>3, LoopFits
    <2> QED BY <2>4 DEF sets
  <1>3. AllFit(centred, W, S)
    BY TwoSteps, NoSteps, LoopStep, ApartReads DEF CoriolisScratch
  <1>4. AllFit(at_corners, W, S)
    BY OneLoop, NoSteps, ApartReads DEF CoriolisScratch
  <1>5. AllFit(q2, W, S)
    BY OneLoop, NoSteps, ApartReads DEF CoriolisScratch
  <1>6. AllFit(diagnostic("RV", {"rel_vort"}), W, S) /\ AllFit(diagnostic("PV", {"q"}), W, S)
    BY OneLoop, NoSteps, ApartReads
  <1>7. AllFit(vorticities, W, S)
    <2>1. /\ Fits(Loop(box, {Set({"rel_vort"}, At({"dvdx", "dudy", "corner"}, Here))}), W, S)
          /\ Fits(Loop(box, {Set({"abs_vort"}, At({"rel_vort", "corner"}, Here))}), W, S)
      BY LoopStep, ApartReads DEF CoriolisScratch
    <2> HIDE DEF hAreas, box
    <2> QED BY <1>2, <2>1, ThreeSteps
  <1>8. AllFit(thicknesses, W, S)
    <2> HIDE DEF shears, box
    <2>1. /\ Fits(Scratch(CornerBox(cfg), {"dvdx", "dudy", "rel_vort"}), W, S)
          /\ Fits(Scratch(UBox(cfg), {"hArea_u"}), W, S)
          /\ Fits(Scratch(VBox(cfg), {"hArea_v"}), W, S)
      BY ScratchFits DEF CoriolisScratch
    <2>2. /\ Fits(Loop(GrowHiX(box), {Set({"hArea_v"}, At({"Area_h", "h"}, Here \cup North))}), W, S)
          /\ Fits(Loop(GrowHiY(box), {Set({"hArea_u"}, At({"Area_h", "h"}, Here \cup East))}), W, S)
      BY LoopStep, ApartReads DEF CoriolisScratch
    <2> QED BY <1>1, <2>1, <2>2, SixSteps
  <1>9. coradv_setup(cfg) = thicknesses \o centred \o vorticities \o at_corners
                            \o diagnostic("RV", {"rel_vort"}) \o diagnostic("PV", {"q"}) \o q2
    BY Zenon DEF coradv_setup
  <1> HIDE DEF thicknesses, centred, vorticities, at_corners, diagnostic, q2
  <1> QED BY <1>3, <1>4, <1>5, <1>6, <1>7, <1>8, <1>9, Then

\* The terms that every scheme adds at the end, and the diagnostics.
LEMMA CommonTermsFit ==
    ASSUME NEW W, NEW S, {"CAu", "CAv"} \subseteq W, NEW cfg, cfg.given \subseteq W
    PROVE  AllFit(coradv_common_terms(cfg), W, S)
  <1> DEFINE energy == cfg.scheme = "SADOURNY75_ENERGY"
             qsU == Here \cup South \cup (IF energy THEN {} ELSE {<<1, 0>>, <<-1, -1>>, <<-1, 0>>, <<1, -1>>})
             qsV == Here \cup West \cup (IF energy THEN {} ELSE {<<0, 1>>, <<-1, -1>>, <<0, -1>>, <<-1, 1>>})
             loop(condition, box, a, reads) ==
                 IF condition THEN <<Loop(box, {Set({a}, reads)})>> ELSE <<>>
  <1>1. ASSUME NEW condition, NEW box, NEW a, NEW reads, condition => a \in W /\ Apart({a}, reads)
        PROVE  AllFit(loop(condition, box, a, reads), W, S)
    BY <1>1, OneLoop, NoSteps
  <1> HIDE DEF loop, qsU, qsV
  <1> DEFINE onU == loop(cfg.bound, bxU(cfg), "CAu", At({"CAu"}, Here) \cup At({"abs_vort"}, Here \cup South) \cup At({"v"}, AroundU))
             onV == loop(cfg.bound, bxV(cfg), "CAv", At({"CAv"}, Here) \cup At({"abs_vort"}, Here \cup West) \cup At({"u"}, AroundV))
             rv_u == loop("rv_x_u" \in cfg.given, bxV(cfg), "rv_x_u", At({"q2"}, qsV) \cup At({"uh"}, AroundV) \cup At({"face_v"}, Here))
             rv_v == loop("rv_x_v" \in cfg.given, bxU(cfg), "rv_x_v", At({"q2"}, qsU) \cup At({"vh"}, AroundU) \cup At({"face_u"}, Here))
  <1>2. AllFit(onU, W, S)
    BY <1>1, ApartReads
  <1>3. AllFit(onV, W, S)
    BY <1>1, ApartReads
  <1>4. AllFit(rv_u, W, S)
    BY <1>1, ApartReads
  <1>5. AllFit(rv_v, W, S)
    BY <1>1, ApartReads
  <1>6. /\ AllFit(loop(TRUE, bxU(cfg), "CAu", At({"CAu", "KEx"}, Here)), W, S)
        /\ AllFit(loop("gradKEu" \in cfg.given, bxU(cfg), "gradKEu", At({"KEx"}, Here)), W, S)
        /\ AllFit(loop(TRUE, bxV(cfg), "CAv", At({"CAv", "KEy"}, Here)), W, S)
        /\ AllFit(loop("gradKEv" \in cfg.given, bxV(cfg), "gradKEv", At({"KEy"}, Here)), W, S)
    BY <1>1, ApartReads
  <1>7. coradv_common_terms(cfg) =
            onU \o loop(TRUE, bxU(cfg), "CAu", At({"CAu", "KEx"}, Here))
            \o loop("gradKEu" \in cfg.given, bxU(cfg), "gradKEu", At({"KEx"}, Here))
            \o onV \o loop(TRUE, bxV(cfg), "CAv", At({"CAv", "KEy"}, Here))
            \o loop("gradKEv" \in cfg.given, bxV(cfg), "gradKEv", At({"KEy"}, Here)) \o rv_u \o rv_v
    BY Zenon DEF coradv_common_terms, loop, qsU, qsV
  <1> HIDE DEF onU, onV, rv_u, rv_v
  <1> QED BY <1>2, <1>3, <1>4, <1>5, <1>6, <1>7, Then

\* Each family of schemes.
LEMMA SchemesFit ==
    ASSUME NEW W, NEW S, CoriolisScratch \subseteq W, CoriolisScratch \subseteq S,
           {"CAu", "CAv"} \subseteq W, NEW cfg
    PROVE  /\ AllFit(coradv_arakawa(cfg), W, S)
           /\ AllFit(coradv_robust_enstro(cfg), W, S)
           /\ AllFit(coradv_sadourny(cfg), W, S)
           /\ AllFit(coradv_weno(cfg), W, S)
  <1>1. AllFit(coradv_robust_enstro(cfg), W, S)
    BY TwoSteps, LoopStep, ApartReads DEF coradv_robust_enstro
  <1>2. AllFit(coradv_weno(cfg), W, S)
    <2> DEFINE reach == CASE cfg.scheme = "wenovi7th" -> 4
                          [] cfg.scheme = "wenovi5th" -> 3
                          [] OTHER -> 2
               along == -reach .. reach
               upwind == -reach .. reach - 1
               onU(up, all) ==
                   Loop(bxU(cfg), {Set({"CAu"}, At({"vh"}, AroundU) \cup At({"q"}, Here \cup South)
                                       \cup At({"abs_vort", "h_q"}, up)
                                       \cup At({"face_u"} \cup When(cfg.smooth, {"u"}), all))})
               onV(up, all) ==
                   Loop(bxV(cfg), {Set({"CAv"}, At({"uh"}, AroundV) \cup At({"q"}, Here \cup West)
                                       \cup At({"abs_vort", "h_q"}, up)
                                       \cup At({"face_v"} \cup When(cfg.smooth, {"v"}), all))})
    <2>1. \A up, all : Fits(onU(up, all), W, S)
      BY LoopStep, ApartReads DEF When
    <2>2. \A up, all : Fits(onV(up, all), W, S)
      BY LoopStep, ApartReads DEF When
    <2>3. coradv_weno(cfg) = <<onU({0} \X upwind, {0} \X along), onV(upwind \X {0}, along \X {0})>>
      BY Zenon DEF coradv_weno
    <2> HIDE DEF onU, onV, along, upwind
    <2> QED BY <2>1, <2>2, <2>3, TwoSteps
  <1>3. AllFit(coradv_sadourny(cfg), W, S)
    <2> DEFINE biased == cfg.En_Dis /\ cfg.scheme = "SADOURNY75_ENERGY"
               scratch == <<Scratch(DataBox(cfg), {"uh_min", "uh_max", "vh_min", "vh_max"})>>
               bounds == IF cfg.En_Dis
                         THEN <<Loop(bxVx(cfg), {Set({"uh_min", "uh_max"}, At({"uh_center", "uh", "face_u"}, Here))}),
                                Loop(bxUx(cfg), {Set({"vh_min", "vh_max"}, At({"vh_center", "vh", "face_v"}, Here))})>>
                         ELSE <<>>
               onU == Loop(bxU(cfg), {Set({"CAu"}, At({"q"}, Here \cup South) \cup At({"face_u"} \cup When(biased, {"u"}), Here)
                                          \cup At(IF biased THEN {"vh_min", "vh_max"} ELSE {"vh"}, AroundU))})
               onV == Loop(bxV(cfg), {Set({"CAv"}, At({"q"}, Here \cup West) \cup At({"face_v"} \cup When(biased, {"v"}), Here)
                                          \cup At(IF biased THEN {"uh_min", "uh_max"} ELSE {"uh"}, AroundV))})
    <2>1. AllFit(scratch, W, S)
      BY OneStep, ScratchFits DEF CoriolisScratch
    <2>2. AllFit(bounds, W, S)
      BY TwoSteps, NoSteps, LoopStep, ApartReads DEF CoriolisScratch
    <2>3. Fits(onU, W, S)
      BY LoopStep, ApartReads
    <2>4. Fits(onV, W, S)
      BY LoopStep, ApartReads
    <2>5. coradv_sadourny(cfg) = scratch \o bounds \o <<onU, onV>>
      BY Zenon DEF coradv_sadourny
    <2> HIDE DEF scratch, bounds, onU, onV
    <2> QED BY <2>1, <2>2, <2>3, <2>4, <2>5, TwoSteps, Then
  <1>4. AllFit(coradv_arakawa(cfg), W, S)
    <2> DEFINE lamb == cfg.scheme \in {"ARAKAWA_LAMB81", "AL_BLEND"}
               weights == When(cfg.scheme = "AL_BLEND", {"Ih_q"})
               ad == {Set({"a"}, At({"q"}, {<<0, 0>>, <<1, 0>>, <<0, -1>>})),
                      Set({"d"}, At({"q"}, {<<0, 0>>, <<1, -1>>, <<0, -1>>}))}
               bc == {Set({"b"}, At({"q"}, {<<0, 0>>, <<-1, 0>>, <<0, -1>>})),
                      Set({"c"}, At({"q"}, {<<0, 0>>, <<-1, -1>>, <<0, -1>>}))}
               hsu == <<Loop(bxVx(cfg), ad), Loop(GrowHiY(bxQ(cfg)), bc)>>
               both == <<Loop(ReadAt(bxQ_pij(cfg), <<-1, 0>>), {Set({"a", "d"}, At({"q"} \cup weights, {0, 1} \X {-1, 0}))}),
                         Loop(bxQ_pij(cfg), {Set({"b", "c", "ep_u", "ep_v"}, At({"q"} \cup weights, {-1, 0} \X {-1, 0}))})>>
               extra(box, a, reads) == IF lamb THEN <<Loop(box, {Set({a}, reads \cup At({a}, Here))})>> ELSE <<>>
               scratch == <<Scratch(UBox(cfg), {"a", "b", "c", "d"}), Scratch(DataBox(cfg), {"ep_u", "ep_v"})>>
               onU == <<Loop(bxU(cfg), {Set({"CAu"}, At({"a", "b", "c", "d", "face_u"}, Here) \cup At({"vh"}, AroundU))})>>
               moreU == extra(bxU(cfg), "CAu", At({"ep_u"}, Here \cup East) \cup At({"uh"}, West \cup East) \cup At({"face_u"}, Here))
               onV == <<Loop(bxV(cfg), {Set({"CAv"}, At({"a"}, West) \cup At({"b", "face_v"}, Here) \cup At({"c"}, North)
                                          \cup At({"d"}, {<<-1, 1>>}) \cup At({"uh"}, AroundV))})>>
               moreV == extra(bxV(cfg), "CAv", At({"ep_v"}, Here \cup North) \cup At({"vh"}, South \cup North) \cup At({"face_v"}, Here))
    <2>1. AllFit(scratch, W, S)
      BY TwoSteps, ScratchFits DEF CoriolisScratch
    <2>2. AllFit(both, W, S)
      BY TwoSteps, LoopStep, ApartReads DEF CoriolisScratch, When
    <2>3. AllFit(hsu, W, S)
      <3>1. Tame(ad, {"a", "d"})
        BY SetParts, ApartReads DEF Tame
      <3>2. Tame(bc, {"b", "c"})
        BY SetParts, ApartReads DEF Tame
      <3>3. {"a", "d"} \subseteq W /\ {"b", "c"} \subseteq W
        BY DEF CoriolisScratch
      <3> HIDE DEF ad, bc
      <3> QED BY <3>1, <3>2, <3>3, LoopFits, TwoSteps
    <2>4. AllFit(onU, W, S)
      BY OneLoop, ApartReads
    <2>5. AllFit(onV, W, S)
      BY OneLoop, ApartReads
    <2>6. AllFit(moreU, W, S)
      BY OneLoop, NoSteps, ApartReads
    <2>7. AllFit(moreV, W, S)
      BY OneLoop, NoSteps, ApartReads
    <2>8. coradv_arakawa(cfg) = scratch \o (IF lamb THEN both ELSE hsu) \o onU \o moreU \o onV \o moreV
      BY Zenon DEF coradv_arakawa
    <2> HIDE DEF scratch, both, hsu, onU, onV, moreU, moreV, lamb
    <2> QED BY <2>1, <2>2, <2>3, <2>4, <2>5, <2>6, <2>7, <2>8, Then
  <1> QED BY <1>1, <1>2, <1>3, <1>4

\* coradcalc_tr with any scheme.
LEMMA CoriolisFits ==
    ASSUME NEW W, NEW S, CoriolisScratch \subseteq W, CoriolisScratch \subseteq S,
           {"CAu", "CAv"} \subseteq W, NEW cfg, cfg.given \subseteq W, cfg.scheme \in CoriolisSchemes
    PROVE  AllFit(coradcalc_tr(cfg), W, S)
  <1> DEFINE areas == <<Scratch(CornerBox(cfg), {"Area_q"}),
                        Scratch(DataBox(cfg), {"Area_h"}),
                        Loop(GrowHiX(GrowHiY(bxQs(cfg))), {Set({"Area_h"}, At({"cell"}, Here))}),
                        Loop(bxQs(cfg), {Set({"Area_q"}, At({"Area_h"}, {0, 1} \X {0, 1}))}),
                        Scratch(CornerBox(cfg), {"q", "Ih_q", "h_q", "abs_vort", "q2"}),
                        Scratch(UBox(cfg), {"KEx", "uh_center"}),
                        Scratch(VBox(cfg), {"KEy", "vh_center"}),
                        Scratch(DataBox(cfg), {"KE"})>>
             scheme == CASE cfg.scheme \in {"SADOURNY75_ENERGY", "SADOURNY75_ENSTRO"} -> coradv_sadourny(cfg)
                         [] cfg.scheme \in {"ARAKAWA_HSU90", "ARAKAWA_LAMB81", "AL_BLEND"} -> coradv_arakawa(cfg)
                         [] cfg.scheme = "ROBUST_ENSTRO" -> coradv_robust_enstro(cfg)
                         [] cfg.scheme \in WenoSchemes -> coradv_weno(cfg)
  <1>1. AllFit(areas, W, S)
    <2>1. /\ Fits(Scratch(CornerBox(cfg), {"Area_q"}), W, S)
          /\ Fits(Scratch(DataBox(cfg), {"Area_h"}), W, S)
          /\ Fits(Scratch(CornerBox(cfg), {"q", "Ih_q", "h_q", "abs_vort", "q2"}), W, S)
          /\ Fits(Scratch(UBox(cfg), {"KEx", "uh_center"}), W, S)
          /\ Fits(Scratch(VBox(cfg), {"KEy", "vh_center"}), W, S)
          /\ Fits(Scratch(DataBox(cfg), {"KE"}), W, S)
      BY ScratchFits DEF CoriolisScratch
    <2>2. /\ Fits(Loop(GrowHiX(GrowHiY(bxQs(cfg))), {Set({"Area_h"}, At({"cell"}, Here))}), W, S)
          /\ Fits(Loop(bxQs(cfg), {Set({"Area_q"}, At({"Area_h"}, {0, 1} \X {0, 1}))}), W, S)
      BY LoopStep, ApartReads DEF CoriolisScratch
    <2> QED BY <2>1, <2>2, EightSteps
  <1>2. AllFit(scheme, W, S)
    BY SchemesFit DEF CoriolisSchemes, WenoSchemes
  <1>3. coradcalc_tr(cfg) = areas \o coradv_setup(cfg) \o gradke(cfg) \o scheme \o coradv_common_terms(cfg)
    BY Zenon DEF coradcalc_tr
  <1> HIDE DEF areas, scheme
  <1> QED BY <1>1, <1>2, <1>3, SetupFits, GradKeFits, CommonTermsFit, Then

-----------------------------------------------------------------------------
\* Horizontal viscosity

HorViscScratchArrays ==
    {"h_u", "Del2u", "div_xx_dx", "vort_xy_dy", "vort_xy_dy_smooth", "h_v", "Del2v", "div_xx_dy", "vort_xy_dx",
     "vort_xy_dx_smooth", "sh_xx_smooth", "sh_xx", "dvdy", "dudx", "grad_div_mag_h", "grad_vort_mag_h", "bhstr_xx",
     "str_xx", "m_leithy", "dudy_smooth", "dvdx_smooth", "dudy", "dvdx", "sh_xy_smooth", "sh_xy", "hq",
     "grad_div_mag_q", "Del2vort_q", "grad_vort_mag_q", "vort_xy_smooth", "vort_xy", "dDel2udy", "dDel2vdx",
     "bhstr_xy", "str_xy", "visc_bound_rem", "hrat_min", "vert_vort_mag_smooth", "vert_vort_mag", "Shear_mag",
     "Kh", "Ah", "div_xx"}

\* All that the call writes
HorViscWrites(cfg, W) ==
    /\ HorViscScratchArrays \subseteq W
    /\ {"diffu", "diffv"} \subseteq W
    /\ cfg.given \subseteq W
    /\ UsedInside(cfg) \subseteq W
    /\ cfg.on \cap {"MEKE_mom_src", "MEKE_mom_src_bh"} \subseteq W
    /\ On(cfg, "EY24_EBT_BS") => LimitsAtH \cup LimitsAtQ \subseteq W
    /\ On(cfg, "skeb_use_frict") => "skeb_diss" \in W

\* The reads of the velocity gradients
LEMMA GradientReads ==
    ASSUME NEW A, A \cap {"cell", "corner", "face_u", "face_v"} = {}, NEW a, a \notin A
    PROVE  Apart(A, AlongX(a)) /\ Apart(A, AlongY(a)) /\ Apart(A, AcrossX(a)) /\ Apart(A, AcrossY(a))
  BY ApartReads DEF AlongX, AlongY, AcrossX, AcrossY

\* The strains, of the velocities and of the smoothed ones.
LEMMA StrainFits ==
    ASSUME NEW W, NEW S, NEW cfg, HorViscWrites(cfg, W)
    PROVE  AllFit(hor_visc_strain(cfg), W, S)
  <1>1. AllFit(strain_gradients(cfg), W, S)
    <2> DEFINE along == {Set({"dudx"}, AlongX("u")), Set({"dvdy"}, AlongY("v")),
                         Set({"sh_xx"}, AlongX("u") \cup AlongY("v"))}
               across == {Set({"dvdx"}, AcrossX("v")), Set({"dudy"}, AcrossY("u"))}
               smooth == {Set({"dvdx_smooth"}, AcrossX("v_smooth")), Set({"dudy_smooth"}, AcrossY("u_smooth"))}
               first == <<Loop(bxHtens(cfg), along), Loop(bxVort(cfg), across)>>
               smoothed == IF On(cfg, "use_Leithy")
                           THEN <<Loop(bxHstr(cfg), {Set({"sh_xx_smooth"}, AlongX("u_smooth") \cup AlongY("v_smooth"))}),
                                  Loop(bxQvsmooth(cfg), smooth)>>
                           ELSE <<>>
    <2>1. Tame(along, {"dudx", "dvdy", "sh_xx"})
      <3>1. /\ Apart({"dudx", "dvdy", "sh_xx"}, AlongX("u"))
            /\ Apart({"dudx", "dvdy", "sh_xx"}, AlongY("v"))
        BY GradientReads
      <3>2. Apart({"dudx", "dvdy", "sh_xx"}, AlongX("u") \cup AlongY("v"))
        BY <3>1, ApartReads
      <3> QED BY <3>1, <3>2, SetParts DEF Tame
    <2>2. Tame(across, {"dvdx", "dudy"})
      BY GradientReads, SetParts DEF Tame
    <2>3. Tame(smooth, {"dvdx_smooth", "dudy_smooth"})
      BY GradientReads, SetParts DEF Tame
    <2>4. /\ {"dudx", "dvdy", "sh_xx"} \subseteq W /\ {"dvdx", "dudy"} \subseteq W
          /\ {"dvdx_smooth", "dudy_smooth"} \subseteq W /\ {"sh_xx_smooth"} \subseteq W
      BY DEF HorViscWrites, HorViscScratchArrays
    <2>5. Fits(Loop(bxHstr(cfg), {Set({"sh_xx_smooth"}, AlongX("u_smooth") \cup AlongY("v_smooth"))}), W, S)
      BY <2>4, LoopStep, ApartReads DEF AlongX, AlongY
    <2> HIDE DEF along, across, smooth
    <2>6. AllFit(first, W, S)
      BY <2>1, <2>2, <2>4, LoopFits, TwoSteps
    <2>7. AllFit(smoothed, W, S)
      BY <2>3, <2>4, <2>5, LoopFits, TwoSteps, NoSteps
    <2>8. AllFit(Sets(Wanted(cfg, "NoSt"), bx0, "NoSt", At({"sh_xx"}, Here)), W, S)
      BY SetsFit, ApartReads DEF HorViscWrites, Wanted
    <2>9. strain_gradients(cfg) = first \o smoothed \o Sets(Wanted(cfg, "NoSt"), bx0, "NoSt", At({"sh_xx"}, Here))
      BY Zenon DEF strain_gradients, along, across, smooth
    <2> HIDE DEF first, smoothed
    <2> QED BY <2>6, <2>7, <2>8, <2>9, Then
  <1>2. AllFit(strain_thickness(cfg), W, S)
    BY SetsFit, Then, ApartReads DEF strain_thickness, When, HorViscWrites, HorViscScratchArrays
  <1>3. AllFit(strain_shear(cfg), W, S)
    BY SetsFit, Then, ApartReads DEF strain_shear, HorViscWrites, HorViscScratchArrays, Wanted
  <1>4. AllFit(strain_vorticity(cfg), W, S)
    BY SetsFit, Then, ApartReads DEF strain_vorticity, AcrossX, AcrossY, HorViscWrites, HorViscScratchArrays
  <1> QED BY <1>1, <1>2, <1>3, <1>4, Then DEF hor_visc_strain

\* The gradients of vorticity and divergence that the Leith viscosities take.
LEMMA LeithFits ==
    ASSUME NEW W, NEW S, NEW cfg, HorViscWrites(cfg, W), HorViscScratchArrays \subseteq S
    PROVE  /\ AllFit(hor_visc_leith_grad_a(cfg), W, S)
           /\ AllFit(hor_visc_leith_grad_b(cfg), W, S)
           /\ AllFit(hor_visc_leithy_m(cfg), W, S)
           /\ AllFit(hor_visc_leithy_ah(cfg), W, S)
           /\ On(cfg, "use_Leithy") => AllFit(hor_visc_leithy_ah_h(cfg), W, S)
  <1>1. AllFit(leith_vorticity(cfg), W, S)
    BY SetsFit, Then, ApartReads DEF leith_vorticity, HorViscWrites, HorViscScratchArrays
  <1>2. AllFit(leith_divergence(cfg), W, S)
    <2> DEFINE scratch == IF On(cfg, "Modified_Leith")
                          THEN <<Scratch(DataBox(cfg), {"div_xx"}),
                                 Loop(grow_by(bxKh(cfg), 1, 1, 1, 1), {Set({"div_xx"}, At({"dudx", "dvdy"}, Here))})>>
                          ELSE <<>>
    <2>1. AllFit(scratch, W, S)
      BY TwoSteps, NoSteps, ScratchFits, LoopStep, ApartReads DEF HorViscWrites, HorViscScratchArrays
    <2> QED BY <2>1, SetsFit, Then, ApartReads DEF leith_divergence, HorViscWrites, HorViscScratchArrays
  <1>3. AllFit(hor_visc_leith_grad_a(cfg), W, S)
    BY <1>1, <1>2, ChangesFit, Then, ApartReads DEF hor_visc_leith_grad_a, HorViscWrites, HorViscScratchArrays
  <1>4. AllFit(hor_visc_leith_grad_b(cfg), W, S)
    BY SetsFit, Then, ApartReads DEF hor_visc_leith_grad_b, HorViscWrites, HorViscScratchArrays
  <1>5. AllFit(hor_visc_leithy_m(cfg), W, S)
    BY SetsFit, ApartReads DEF hor_visc_leithy_m, HorViscWrites, HorViscScratchArrays
  <1>6. AllFit(hor_visc_leithy_ah(cfg), W, S)
    BY SetsFit, ApartReads DEF hor_visc_leithy_ah, HorViscWrites, HorViscScratchArrays
  <1>7. On(cfg, "use_Leithy") => AllFit(hor_visc_leithy_ah_h(cfg), W, S)
    BY SetsFit, ApartReads DEF hor_visc_leithy_ah_h, HorViscWrites, UsedInside, When
  <1> QED BY <1>3, <1>4, <1>5, <1>6, <1>7

\* The steps that find Kh and Ah, shared by cells and corners.
LEMMA ViscosityFits ==
    ASSUME NEW W, NEW S, NEW cfg, HorViscScratchArrays \subseteq W, NEW box,
           NEW metric \in {"cell", "corner"}, NEW average
    PROVE  /\ AllFit(KhSteps(cfg, box, metric, average), W, S)
           /\ AllFit(AhFromStrain(cfg, box, metric, average), W, S)
           /\ \A velocities \in {VelocitiesAtH, VelocitiesAtQ} :
                 AllFit(AhToBound(cfg, box, metric, average, velocities), W, S)
  <1>1. AllFit(KhSteps(cfg, box, metric, average), W, S)
    <2> DEFINE when(condition, reads) == Changes(condition, box, "Kh", reads)
               meke == when(On(cfg, "MEKE_Ku") /\ ~On(cfg, "EY24_EBT_BS"),
                            At({"MEKE_Ku"} \cup When(On(cfg, "BS_struct"), {"BS_struct"}), average)
                            \cup At(When(On(cfg, "res_scale_MEKE"), {metric}), Here))
               bound == IF {"bound_Kh", "bound_Ah"} \subseteq cfg.on
                        THEN <<Loop(box, {Set({"visc_bound_rem", "Kh"}, At({"Kh", "hrat_min", metric}, Here))})>>
                        ELSE when(On(cfg, "bound_Kh"), At({"hrat_min", metric}, Here))
    <2>1. ASSUME NEW condition, NEW reads, Apart({"Kh"}, reads) PROVE AllFit(when(condition, reads), W, S)
      BY <2>1, ChangesFit DEF HorViscScratchArrays
    <2> HIDE DEF when
    <2>2. AllFit(meke, W, S)
      BY <2>1, ApartReads DEF When
    <2>3. AllFit(bound, W, S)
      BY <2>1, OneLoop, ApartReads DEF HorViscScratchArrays
    <2>4. /\ AllFit(Sets(TRUE, box, "Kh", At({metric}, Here)), W, S)
          /\ AllFit(when(On(cfg, "Smagorinsky_Kh"), At({metric, "Shear_mag"}, Here)), W, S)
          /\ AllFit(when(On(cfg, "Leith_Kh"), At({metric, "vert_vort_mag"}, Here)), W, S)
          /\ AllFit(when(On(cfg, "rescale_Kh"), At({metric}, Here)), W, S)
          /\ AllFit(when(TRUE, {}), W, S)
          /\ AllFit(when(On(cfg, "anisotropic"), At({metric}, Here)), W, S)
      BY <2>1, SetsFit, ApartReads DEF HorViscScratchArrays
    <2>5. KhSteps(cfg, box, metric, average) =
              Sets(TRUE, box, "Kh", At({metric}, Here))
              \o when(On(cfg, "Smagorinsky_Kh"), At({metric, "Shear_mag"}, Here))
              \o when(On(cfg, "Leith_Kh"), At({metric, "vert_vort_mag"}, Here))
              \o when(On(cfg, "rescale_Kh"), At({metric}, Here))
              \o when(TRUE, {}) \o meke \o when(On(cfg, "anisotropic"), At({metric}, Here)) \o bound
      BY Zenon DEF KhSteps, when
    <2> HIDE DEF meke, bound
    <2> QED BY <2>2, <2>3, <2>4, <2>5, Then
  <1>2. AllFit(AhFromStrain(cfg, box, metric, average), W, S)
    BY SetsFit, ChangesFit, Then, ApartReads DEF AhFromStrain, HorViscScratchArrays
  <1>3. ASSUME NEW velocities \in {VelocitiesAtH, VelocitiesAtQ}
        PROVE  AllFit(AhToBound(cfg, box, metric, average, velocities), W, S)
    <2>1. Apart({"Ah"}, VelocitiesAtH) /\ Apart({"Ah"}, VelocitiesAtQ)
      BY ApartReads DEF VelocitiesAtH, VelocitiesAtQ
    <2> QED BY <2>1, SetsFit, ChangesFit, Then, ApartReads DEF AhToBound, When, HorViscScratchArrays
  <1> QED BY <1>1, <1>2, <1>3

\* The coefficients at cells, up to Kh.
LEMMA CoefficientsAtHFit ==
    ASSUME NEW W, NEW S, NEW cfg, HorViscWrites(cfg, W)
    PROVE  AllFit(hor_visc_h_coeffs_a(cfg), W, S)
  <1> DEFINE box == bxKh(cfg)
             wanted(a, reads) == Sets(Wanted(cfg, a), bx0, a, reads)
             Laplacian ==
                 Sets(AnyLeith(cfg), box, "vert_vort_mag", At({"grad_vort_mag_h", "grad_div_mag_h"}, Here))
                 \o KhSteps(cfg, box, "cell", Here)
                 \o Sets(On(cfg, "use_Leithy"), box, "Kh", {})
                 \o Sets(Wanted(cfg, "Kh_h") \/ On(cfg, "debug"), box, "Kh_h", At({"Kh"}, Here))
                 \o wanted("grid_Re_Kh", VelocitiesAtH \cup At({"Kh", "cell"}, Here))
                 \o wanted("div_xx_h", At({"dudx", "dvdy"}, Here))
                 \o wanted("sh_xx_h", At({"sh_xx"}, Here))
  <1>1. HorViscScratchArrays \subseteq W
    BY DEF HorViscWrites
  <1>2. ASSUME NEW a, NEW reads, Wanted(cfg, a) => Apart({a}, reads) PROVE AllFit(wanted(a, reads), W, S)
    BY <1>2, SetsFit DEF HorViscWrites, Wanted
  <1>3. On(cfg, "Laplacian") => AllFit(Sets(Wanted(cfg, "Kh_h") \/ On(cfg, "debug"), box, "Kh_h", At({"Kh"}, Here)), W, S)
    BY SetsFit, ApartReads DEF HorViscWrites, UsedInside, When, On, Wanted
  <1> HIDE DEF box, wanted
  <1>4. AllFit(wanted("grid_Re_Kh", VelocitiesAtH \cup At({"Kh", "cell"}, Here)), W, S)
    BY <1>2, ApartReads DEF VelocitiesAtH
  <1>5. AllFit(wanted("div_xx_h", At({"dudx", "dvdy"}, Here)), W, S) /\ AllFit(wanted("sh_xx_h", At({"sh_xx"}, Here)), W, S)
    BY <1>2, ApartReads
  <1>6. AllFit(KhSteps(cfg, box, "cell", Here), W, S) /\ AllFit(AhFromStrain(cfg, box, "cell", CornersAround), W, S)
    BY <1>1, ViscosityFits
  <1>7. On(cfg, "Laplacian") => AllFit(Laplacian, W, S)
    BY <1>1, <1>3, <1>4, <1>5, <1>6, SetsFit, ApartReads, Then DEF HorViscScratchArrays
  <1>8. /\ AllFit(Sets(AnySmagorinsky(cfg), box, "Shear_mag", At({"sh_xx"}, Here) \cup At({"sh_xy"}, CornersAround)), W, S)
        /\ AllFit(Sets(AnyBound(cfg), box, "hrat_min",
                       At({"h_u"}, Here \cup West) \cup At({"h_v"}, Here \cup South) \cup At({"h"}, Here)), W, S)
        /\ AllFit(Sets(TRUE, bxHstr(cfg), "str_xx", IF On(cfg, "Laplacian") THEN At({"Kh", "sh_xx"}, Here) ELSE {}), W, S)
        /\ AllFit(Changes(On(cfg, "anisotropic"), bxHstr(cfg), "str_xx",
                          At({"sh_xy"}, CornersAround) \cup At({"cell"}, Here)), W, S)
    BY <1>1, SetsFit, ChangesFit, ApartReads DEF HorViscScratchArrays
  <1>9. hor_visc_h_coeffs_a(cfg) =
            Sets(AnySmagorinsky(cfg), box, "Shear_mag", At({"sh_xx"}, Here) \cup At({"sh_xy"}, CornersAround))
            \o Sets(AnyBound(cfg), box, "hrat_min",
                    At({"h_u"}, Here \cup West) \cup At({"h_v"}, Here \cup South) \cup At({"h"}, Here))
            \o (IF On(cfg, "Laplacian") THEN Laplacian ELSE <<>>)
            \o Sets(TRUE, bxHstr(cfg), "str_xx", IF On(cfg, "Laplacian") THEN At({"Kh", "sh_xx"}, Here) ELSE {})
            \o Changes(On(cfg, "anisotropic"), bxHstr(cfg), "str_xx", At({"sh_xy"}, CornersAround) \cup At({"cell"}, Here))
            \o (IF On(cfg, "biharmonic") THEN AhFromStrain(cfg, box, "cell", CornersAround) ELSE <<>>)
    BY Zenon DEF hor_visc_h_coeffs_a, box, wanted
  <1> HIDE DEF Laplacian
  <1> QED BY <1>6, <1>7, <1>8, <1>9, NoSteps, Then

\* The backscatter and what limits it, at cells and at corners.
LEMMA BackscatterFits ==
    ASSUME NEW W, NEW S, NEW cfg, HorViscWrites(cfg, W), On(cfg, "EY24_EBT_BS"), NEW box
    PROVE  /\ AllFit(hor_visc_backscatter_h(cfg), W, S)
           /\ AllFit(hor_visc_backscatter_q(cfg), W, S)
           /\ AllFit(BackscatterLimits(box, "visc_limit_h", "visc_limit_h_flag", "visc_limit_h_frac", "cell"), W, S)
           /\ AllFit(BackscatterLimits(box, "visc_limit_q", "visc_limit_q_flag", "visc_limit_q_frac", "corner"), W, S)
  <1>1. AllFit(hor_visc_backscatter_h(cfg), W, S)
    <2> DEFINE coefficient == At({"visc_limit_h_flag", "MEKE_Ku"} \cup When(On(cfg, "BS_struct"), {"BS_struct"}), Here)
               diagnostic == When(Wanted(cfg, "BS_coeff_h"), {"BS_coeff_h"})
               sets == {Set({"str_xx"}, coefficient \cup At({"str_xx", "sh_xx"}, Here)), Set(diagnostic, coefficient)}
               A == {"str_xx"} \cup diagnostic
    <2>1. Apart(A, coefficient) /\ Apart(A, coefficient \cup At({"str_xx", "sh_xx"}, Here))
      BY ApartReads DEF When
    <2>2. A \subseteq W
      BY DEF When, Wanted, HorViscWrites, HorViscScratchArrays
    <2> HIDE DEF diagnostic, coefficient
    <2>3. Tame(sets, A)
      BY <2>1, SetParts DEF Tame
    <2> HIDE DEF sets, A
    <2>4. AllFit(<<Loop(bxHstr(cfg), sets)>>, W, S)
      BY <2>2, <2>3, LoopFits, OneStep
    <2> QED BY <2>4 DEF hor_visc_backscatter_h, sets, coefficient, diagnostic
  <1>2. AllFit(hor_visc_backscatter_q(cfg), W, S)
    <2> DEFINE coefficient == At({"visc_limit_q_flag"}, Here)
                              \cup At({"MEKE_Ku"} \cup When(On(cfg, "BS_struct"), {"BS_struct"}), CellsAround)
               diagnostic == When(Wanted(cfg, "BS_coeff_q"), {"BS_coeff_q"})
               sets == {Set({"str_xy"}, coefficient \cup At({"str_xy", "sh_xy"}, Here)), Set(diagnostic, coefficient)}
               A == {"str_xy"} \cup diagnostic
    <2>1. Apart(A, coefficient)
      BY ApartReads DEF When
    <2>2. A \subseteq W
      BY DEF When, Wanted, HorViscWrites, HorViscScratchArrays
    <2> HIDE DEF diagnostic, coefficient
    <2>3. Apart(A, coefficient \cup At({"str_xy", "sh_xy"}, Here))
      BY <2>1, ApartReads
    <2>4. Tame(sets, A)
      BY <2>1, <2>3, SetParts DEF Tame
    <2> HIDE DEF sets, A
    <2>5. AllFit(<<Loop(bxQstr, sets)>>, W, S)
      BY <2>2, <2>4, LoopFits, OneStep
    <2> QED BY <2>5 DEF hor_visc_backscatter_q, sets, coefficient, diagnostic
  <1>3. ASSUME NEW limit, NEW flag, NEW frac, NEW metric, {limit, flag, frac} \subseteq W,
               {limit, flag, frac} \cap {"Ah", "hrat_min", metric} = {}
        PROVE  AllFit(BackscatterLimits(box, limit, flag, frac, metric), W, S)
    <2> DEFINE sets == {Set({limit}, At({"hrat_min", metric}, Here)),
                        Set({frac}, At({"Ah", "hrat_min", metric}, Here)),
                        Set({flag}, At({flag, "Ah", "hrat_min", metric}, Here))}
    <2>1. Tame(sets, {limit, flag, frac})
      BY SetParts, ApartReads DEF Tame
    <2> HIDE DEF sets
    <2>2. AllFit(<<Loop(box, sets)>>, W, S)
      BY <1>3, <2>1, LoopFits, OneStep
    <2> QED BY <2>2 DEF BackscatterLimits, sets
  <1>4. LimitsAtH \cup LimitsAtQ \subseteq W
    BY DEF HorViscWrites
  <1> QED BY <1>1, <1>2, <1>3, <1>4 DEF LimitsAtH, LimitsAtQ

\* The biharmonic coefficients at cells.
LEMMA BiharmonicAtHFits ==
    ASSUME NEW W, NEW S, NEW cfg, HorViscWrites(cfg, W), On(cfg, "biharmonic")
    PROVE  AllFit(h_biharmonic(cfg), W, S)
  <1> DEFINE box == bxKh(cfg)
             leithy == On(cfg, "use_Leithy")
             d_str == At({"Del2u", "face_u"}, Here \cup West) \cup At({"Del2v", "face_v"}, Here \cup South)
                      \cup At({"Ah", "cell"}, Here)
             stress == {Set({"str_xx"}, d_str \cup At({"str_xx"} \cup When(leithy, {"Kh", "sh_xx_smooth"}), Here)),
                        Set({"bhstr_xx"}, d_str \cup At({"h"}, Here))}
             limits == IF On(cfg, "EY24_EBT_BS")
                       THEN BackscatterLimits(box, "visc_limit_h", "visc_limit_h_flag", "visc_limit_h_frac", "cell")
                       ELSE <<>>
             Kh == IF leithy THEN <<Loop(box, {Set({"Kh", "Kh_h"}, At({"m_leithy", "Ah"}, Here))})>> ELSE <<>>
             Ah_h == Sets(Wanted(cfg, "Ah_h") \/ On(cfg, "debug") \/ leithy, box, "Ah_h", At({"Ah"}, Here))
             Re == Sets(Wanted(cfg, "grid_Re_Ah"), bx0, "grid_Re_Ah", VelocitiesAtH \cup At({"Ah", "cell"}, Here))
  <1>1. HorViscScratchArrays \subseteq W
    BY DEF HorViscWrites
  <1>2. AllFit(AhToBound(cfg, box, "cell", Here, VelocitiesAtH), W, S)
    BY <1>1, ViscosityFits
  <1>3. AllFit(limits, W, S)
    BY BackscatterFits, NoSteps
  <1>4. AllFit(Ah_h, W, S)
    BY SetsFit, ApartReads DEF HorViscWrites, UsedInside, When, On, Wanted
  <1>5. AllFit(Kh, W, S)
    BY OneLoop, NoSteps, ApartReads DEF HorViscWrites, HorViscScratchArrays, UsedInside, When, On
  <1>6. AllFit(Re, W, S)
    BY SetsFit, ApartReads DEF HorViscWrites, VelocitiesAtH, Wanted
  <1>7. AllFit(<<Loop(bxHstr(cfg), stress)>>, W, S)
    <2>1. Apart({"str_xx", "bhstr_xx"}, d_str)
      BY ApartReads
    <2> HIDE DEF d_str
    <2>2. /\ Apart({"str_xx", "bhstr_xx"}, d_str \cup At({"str_xx"} \cup When(leithy, {"Kh", "sh_xx_smooth"}), Here))
          /\ Apart({"str_xx", "bhstr_xx"}, d_str \cup At({"h"}, Here))
      BY <2>1, ApartReads
    <2>3. Tame(stress, {"str_xx", "bhstr_xx"})
      BY <2>2, SetParts DEF Tame
    <2> HIDE DEF stress
    <2>4. {"str_xx", "bhstr_xx"} \subseteq W
      BY <1>1 DEF HorViscScratchArrays
    <2> QED BY <2>3, <2>4, LoopFits, OneStep
  <1>8. h_biharmonic(cfg) = AhToBound(cfg, box, "cell", Here, VelocitiesAtH) \o limits \o Ah_h \o Kh \o Re
                            \o <<Loop(bxHstr(cfg), stress)>>
    BY Zenon DEF h_biharmonic
  <1> HIDE DEF box, limits, Ah_h, Kh, Re, stress
  <1> QED BY <1>2, <1>3, <1>4, <1>5, <1>6, <1>7, <1>8, Then

\* The thicknesses at corners.
LEMMA CornerThicknessFits ==
    ASSUME NEW W, NEW S, NEW cfg, HorViscWrites(cfg, W)
    PROVE  AllFit(q_thickness(cfg), W, S)
  <1> DEFINE thicknesses == At({"h_u"}, Here \cup North) \cup At({"h_v"}, Here \cup East)
             masks == At({"face_u"}, Here \cup North) \cup At({"face_v"}, Here \cup East) \cup At({"corner"}, Here)
             hrat_min == When(AnyBound(cfg), {"hrat_min"})
             coast == IF On(cfg, "no_slip")
                      THEN <<Loop(bxQstr, {Set({"hq"} \cup hrat_min,
                                               thicknesses \cup masks \cup At({"hq"} \cup hrat_min, Here))})>>
                      ELSE <<>>
  <1>1. {"hq"} \cup hrat_min \subseteq W
    BY DEF HorViscWrites, HorViscScratchArrays, When
  <1>2. \A A \in SUBSET {"hq", "hrat_min"} : Apart(A, thicknesses) /\ Apart(A, masks)
    BY ApartReads
  <1>3. {"hq"} \cup hrat_min \in SUBSET {"hq", "hrat_min"}
    BY DEF When
  <1> HIDE DEF thicknesses, masks, hrat_min
  <1>4. AllFit(coast, W, S)
    BY <1>1, <1>2, <1>3, OneLoop, NoSteps, ApartReads
  <1>5. AllFit(Sets(TRUE, bxQstr, "hq", thicknesses), W, S)
    BY <1>1, <1>2, SetsFit
  <1>6. AllFit(Sets(AnyBound(cfg), bxQstr, "hrat_min", thicknesses \cup At({"hq"}, Here)), W, S)
    BY <1>2, SetsFit, ApartReads DEF HorViscWrites, HorViscScratchArrays
  <1>7. q_thickness(cfg) = Sets(TRUE, bxQstr, "hq", thicknesses)
                           \o Sets(AnyBound(cfg), bxQstr, "hrat_min", thicknesses \cup At({"hq"}, Here)) \o coast
    BY Zenon DEF q_thickness, thicknesses, masks, hrat_min
  <1> HIDE DEF coast
  <1> QED BY <1>4, <1>5, <1>6, <1>7, Then

\* The stresses at cells.
LEMMA StressAtHFits ==
    ASSUME NEW W, NEW S, NEW cfg, HorViscWrites(cfg, W)
    PROVE  AllFit(hor_visc_h_coeffs_b(cfg), W, S)
  <1> DEFINE across == {Set({"dDel2vdx"}, AcrossX("Del2v")), Set({"dDel2udy"}, AcrossY("Del2u"))}
             biharmonic == IF On(cfg, "biharmonic") THEN h_biharmonic(cfg) ELSE <<>>
             backscatter == IF On(cfg, "EY24_EBT_BS") THEN hor_visc_backscatter_h(cfg) ELSE <<>>
             gradients == IF On(cfg, "biharmonic") THEN <<Loop(bxQstr, across)>> ELSE <<>>
             shear == Sets(AnySmagorinsky(cfg), bxQstr, "Shear_mag", At({"sh_xy"}, Here) \cup At({"sh_xx"}, CellsAround))
  <1>1. Tame(across, {"dDel2vdx", "dDel2udy"})
    BY GradientReads, SetParts DEF Tame
  <1>2. {"dDel2vdx", "dDel2udy"} \subseteq W
    BY DEF HorViscWrites, HorViscScratchArrays
  <1>3. AllFit(biharmonic, W, S) /\ AllFit(backscatter, W, S)
    BY BiharmonicAtHFits, BackscatterFits, NoSteps
  <1>4. AllFit(shear, W, S)
    BY SetsFit, ApartReads DEF HorViscWrites, HorViscScratchArrays
  <1> HIDE DEF across
  <1>5. AllFit(gradients, W, S)
    BY <1>1, <1>2, LoopFits, OneStep, NoSteps
  <1>6. hor_visc_h_coeffs_b(cfg) = biharmonic \o backscatter \o gradients \o shear \o q_thickness(cfg)
    BY Zenon DEF hor_visc_h_coeffs_b, across
  <1> HIDE DEF biharmonic, backscatter, gradients, shear
  <1> QED BY <1>3, <1>4, <1>5, <1>6, CornerThicknessFits, Then

\* The coefficients and stresses at corners.
LEMMA CoefficientsAtQFit ==
    ASSUME NEW W, NEW S, NEW cfg, HorViscWrites(cfg, W)
    PROVE  AllFit(hor_visc_q_coeffs(cfg), W, S)
  <1>1. HorViscScratchArrays \subseteq W
    BY DEF HorViscWrites
  <1>2. On(cfg, "Laplacian") => AllFit(q_Laplacian(cfg), W, S)
    <2> DEFINE leithy == On(cfg, "use_Leithy")
               wanted(a, from) == Sets(Wanted(cfg, a), bxQstr, a, At({from}, Here))
               stress == Sets(TRUE, bxQstr, "str_xy", At({"Kh", IF leithy THEN "sh_xy_smooth" ELSE "sh_xy"}, Here))
    <2>1. ASSUME NEW a, NEW from PROVE AllFit(wanted(a, from), W, S)
      BY SetsFit, ApartReads DEF HorViscWrites, Wanted
    <2>2. AllFit(stress, W, S)
      BY <1>1, SetsFit, ApartReads DEF HorViscScratchArrays
    <2>3. AllFit(KhSteps(cfg, bxQstr, "corner", CellsAround), W, S)
      BY <1>1, ViscosityFits
    <2>4. /\ AllFit(Sets(cfg.on \cap {"Leith_Kh", "Leith_Ah"} # {}, bxQstr, "vert_vort_mag",
                         At({"grad_vort_mag_q", "grad_div_mag_q"}, Here)), W, S)
          /\ AllFit(Sets(leithy, bxQstr, "Kh", At({"Kh_h"}, CellsAround)), W, S)
      BY <1>1, SetsFit, ApartReads DEF HorViscScratchArrays
    <2>5. On(cfg, "Laplacian") => AllFit(Sets(Wanted(cfg, "Kh_q") \/ On(cfg, "debug"), bxQstr, "Kh_q", At({"Kh"}, Here)), W, S)
      BY SetsFit, ApartReads DEF HorViscWrites, UsedInside, When, On, Wanted
    <2>6. q_Laplacian(cfg) =
              Sets(cfg.on \cap {"Leith_Kh", "Leith_Ah"} # {}, bxQstr, "vert_vort_mag",
                   At({"grad_vort_mag_q", "grad_div_mag_q"}, Here))
              \o KhSteps(cfg, bxQstr, "corner", CellsAround)
              \o Sets(leithy, bxQstr, "Kh", At({"Kh_h"}, CellsAround))
              \o Sets(Wanted(cfg, "Kh_q") \/ On(cfg, "debug"), bxQstr, "Kh_q", At({"Kh"}, Here))
              \o wanted("vort_xy_q", "vort_xy") \o wanted("sh_xy_q", "sh_xy") \o stress
      BY Zenon DEF q_Laplacian
    <2> HIDE DEF wanted, stress
    <2> QED BY <2>1, <2>2, <2>3, <2>4, <2>5, <2>6, Then
  <1>3. On(cfg, "biharmonic") => AllFit(q_biharmonic(cfg), W, S)
    <2> DEFINE d_str == At({"Ah", "dDel2vdx", "dDel2udy"}, Here)
               stress == {Set({"str_xy"}, d_str \cup At({"str_xy"}, Here)),
                          Set({"bhstr_xy"}, d_str \cup At({"hq", "corner"}, Here))}
               limits == IF On(cfg, "EY24_EBT_BS")
                         THEN BackscatterLimits(bxQstr, "visc_limit_q", "visc_limit_q_flag", "visc_limit_q_frac", "corner")
                         ELSE <<>>
    <2>1. AllFit(limits, W, S)
      BY BackscatterFits, NoSteps
    <2>2. Tame(stress, {"str_xy", "bhstr_xy"})
      <3>1. /\ Apart({"str_xy", "bhstr_xy"}, d_str \cup At({"str_xy"}, Here))
            /\ Apart({"str_xy", "bhstr_xy"}, d_str \cup At({"hq", "corner"}, Here))
        BY ApartReads
      <3> QED BY <3>1, SetParts DEF Tame
    <2>3. {"str_xy", "bhstr_xy"} \subseteq W
      BY <1>1 DEF HorViscScratchArrays
    <2>4. On(cfg, "biharmonic") => AllFit(Sets(Wanted(cfg, "Ah_q") \/ On(cfg, "debug"), bxQstr, "Ah_q", At({"Ah"}, Here)), W, S)
      BY SetsFit, ApartReads DEF HorViscWrites, UsedInside, When, On, Wanted
    <2>5. AllFit(Sets(On(cfg, "use_Leithy"), bxQstr, "Ah", At({"Ah_h"}, CellsAround)), W, S)
      BY <1>1, SetsFit, ApartReads DEF HorViscScratchArrays
    <2>6. /\ AllFit(AhFromStrain(cfg, bxQstr, "corner", Here), W, S)
          /\ AllFit(AhToBound(cfg, bxQstr, "corner", CellsAround, VelocitiesAtQ), W, S)
      BY <1>1, ViscosityFits
    <2>7. q_biharmonic(cfg) = AhFromStrain(cfg, bxQstr, "corner", Here)
              \o AhToBound(cfg, bxQstr, "corner", CellsAround, VelocitiesAtQ)
              \o limits
              \o Sets(On(cfg, "use_Leithy"), bxQstr, "Ah", At({"Ah_h"}, CellsAround))
              \o Sets(Wanted(cfg, "Ah_q") \/ On(cfg, "debug"), bxQstr, "Ah_q", At({"Ah"}, Here))
              \o <<Loop(bxQstr, stress)>>
      BY Zenon DEF q_biharmonic
    <2> HIDE DEF stress, limits
    <2>8. AllFit(<<Loop(bxQstr, stress)>>, W, S)
      BY <2>2, <2>3, LoopFits, OneStep
    <2> QED BY <2>1, <2>4, <2>5, <2>6, <2>7, <2>8, Then
  <1>4. AllFit(Changes(On(cfg, "anisotropic"), bxQstr, "str_xy", At({"sh_xx"}, CellsAround) \cup At({"corner"}, Here)), W, S)
    BY <1>1, ChangesFit, ApartReads DEF HorViscScratchArrays
  <1>5. AllFit(Sets(TRUE, bxQstr, "str_xy", {}), W, S)
    BY <1>1, SetsFit, ApartReads DEF HorViscScratchArrays
  <1> QED BY <1>2, <1>3, <1>4, <1>5, BackscatterFits, NoSteps, Then DEF hor_visc_q_coeffs

\* The divergence of the stresses, and the work of friction.
LEMMA StressDivergenceFits ==
    ASSUME NEW W, NEW S, NEW cfg, HorViscWrites(cfg, W)
    PROVE  AllFit(hor_visc_stress_div(cfg), W, S)
  <1>1. HorViscScratchArrays \subseteq W
    BY DEF HorViscWrites
  <1>2. ASSUME NEW condition, NEW work \in {"FrictWork", "FrictWork_bh"}, condition => work \in W,
               NEW str_xx \in {"str_xx", "bhstr_xx"}, NEW str_xy \in {"str_xy", "bhstr_xy"}
        PROVE  AllFit(frict_work(cfg, condition, work, str_xx, str_xy), W, S)
    <2>1. Apart({work}, WorkOf(cfg, str_xx, str_xy))
      BY ApartReads DEF WorkOf
    <2>2. AllFit(Sets(condition, bx0, work, WorkOf(cfg, str_xx, str_xy)), W, S)
      BY <1>2, <2>1, SetsFit
    <2>3. AllFit(Changes(condition /\ On(cfg, "EY24_EBT_BS"), bx0, work, At({"visc_limit_h_flag"}, Here)), W, S)
      BY <1>2, ChangesFit, ApartReads
    <2> QED BY <2>2, <2>3, Then DEF frict_work
  <1>3. /\ AllFit(frict_work(cfg, find_FrictWork(cfg), "FrictWork", "str_xx", "str_xy"), W, S)
        /\ AllFit(frict_work(cfg, find_FrictWork_bh(cfg), "FrictWork_bh", "bhstr_xx", "bhstr_xy"), W, S)
    BY <1>2 DEF HorViscWrites, UsedInside, When
  <1>4. On(cfg, "MEKE_mom_src") => AllFit(hor_visc_meke_mom_src(cfg), W, S)
    <2> DEFINE RoScl == At({"sh_xx"}, Here) \cup At({"sh_xy", "corner"}, CornersAround)
               work_bh == At({"FrictWork_bh"}, Here)
               bh == On(cfg, "MEKE_mom_src_bh")
               src == At({"MEKE_mom_src", "FrictWork"}, Here)
               src_bh == At({"MEKE_mom_src_bh"}, Here) \cup work_bh
               both == {Set({"MEKE_mom_src"}, src \cup work_bh \cup RoScl),
                        Set(When(bh, {"MEKE_mom_src_bh"}), IF bh THEN src_bh \cup RoScl ELSE {})}
               A == {"MEKE_mom_src"} \cup When(bh, {"MEKE_mom_src_bh"})
    <2> SUFFICES ASSUME On(cfg, "MEKE_mom_src") PROVE AllFit(hor_visc_meke_mom_src(cfg), W, S)
      OBVIOUS
    <2>1. A \subseteq W
      BY DEF HorViscWrites, On, When
    <2>2. Apart(A, RoScl)
      BY ApartReads DEF When
    <2>3. /\ Apart(A, src) /\ Apart(A, src_bh) /\ Apart(A, work_bh) /\ Apart(A, {})
      BY ApartReads
    <2> HIDE DEF RoScl, src, src_bh, work_bh
    <2>4. Apart(A, src \cup work_bh \cup RoScl) /\ Apart(A, src_bh \cup RoScl)
      BY <2>2, <2>3, ApartReads
    <2>5. Tame(both, A)
      BY <2>3, <2>4, SetParts DEF Tame, When
    <2>6. AllFit(Sets(TRUE, bx0, "MEKE_mom_src", src), W, S) /\ AllFit(Sets(bh, bx0, "MEKE_mom_src_bh", src_bh), W, S)
      BY <2>1, SetsFit, ApartReads DEF When, src, src_bh, work_bh
    <2>7. hor_visc_meke_mom_src(cfg) =
              IF On(cfg, "backscatter_Ro_c") THEN <<Loop(bx0, both)>>
              ELSE Sets(TRUE, bx0, "MEKE_mom_src", src) \o Sets(bh, bx0, "MEKE_mom_src_bh", src_bh)
      BY Zenon DEF hor_visc_meke_mom_src, RoScl, src, src_bh, work_bh
    <2> HIDE DEF A, both
    <2>8. AllFit(<<Loop(bx0, both)>>, W, S)
      BY <2>1, <2>5, LoopFits, OneStep
    <2> QED BY <2>6, <2>7, <2>8, Then
  <1>5. /\ AllFit(Changes(TRUE, bxHstr(cfg), "str_xx", At({"h", "cell"}, Here)), W, S)
        /\ AllFit(Changes(TRUE, bxQstr, "str_xy", At({"hq", "corner"}, Here)), W, S)
        /\ AllFit(Changes(On(cfg, "skeb_use_frict"), bx0, "skeb_diss", At({"FrictWork", "h"}, Here)), W, S)
    BY <1>1, ChangesFit, ApartReads DEF HorViscScratchArrays, HorViscWrites
  <1> DEFINE diffu == At({"str_xy", "corner"}, Here \cup South) \cup At({"str_xx", "cell"}, Here \cup East)
                      \cup At({"face_u", "h_u"}, Here)
             diffv == At({"str_xy", "corner"}, Here \cup West) \cup At({"str_xx", "cell"}, Here \cup North)
                      \cup At({"face_v", "h_v"}, Here)
  <1>6. AllFit(Sets(TRUE, bxU(cfg), "diffu", diffu), W, S) /\ AllFit(Sets(TRUE, bxV(cfg), "diffv", diffv), W, S)
    BY SetsFit, ApartReads DEF HorViscWrites
  <1> DEFINE work == frict_work(cfg, find_FrictWork(cfg), "FrictWork", "str_xx", "str_xy")
             work_bh == frict_work(cfg, find_FrictWork_bh(cfg), "FrictWork_bh", "bhstr_xx", "bhstr_xy")
             skeb == Changes(On(cfg, "skeb_use_frict"), bx0, "skeb_diss", At({"FrictWork", "h"}, Here))
             meke == IF On(cfg, "MEKE_mom_src") THEN hor_visc_meke_mom_src(cfg) ELSE <<>>
  <1>7. hor_visc_stress_div(cfg) =
            Changes(TRUE, bxHstr(cfg), "str_xx", At({"h", "cell"}, Here))
            \o Changes(TRUE, bxQstr, "str_xy", At({"hq", "corner"}, Here))
            \o Sets(TRUE, bxU(cfg), "diffu", diffu) \o Sets(TRUE, bxV(cfg), "diffv", diffv)
            \o work \o work_bh \o skeb \o meke
    BY Zenon DEF hor_visc_stress_div
  <1>8. AllFit(meke, W, S)
    BY <1>4, NoSteps
  <1> HIDE DEF meke, diffu, diffv
  <1> QED BY <1>3, <1>5, <1>6, <1>7, <1>8, Then

\* horizontal_viscosity_tr with any options.
LEMMA HorViscFits ==
    ASSUME NEW W, NEW S, NEW cfg, HorViscWrites(cfg, W), HorViscScratchArrays \subseteq S
    PROVE  AllFit(horizontal_viscosity_tr(cfg), W, S)
  <1>1. AllFit(HorViscScratch(cfg), W, S)
    BY FourSteps, ScratchFits DEF HorViscScratch, HorViscScratchArrays
  <1>2. AllFit(HorViscZeros(cfg), W, S)
    <2> DEFINE limits == IF On(cfg, "EY24_EBT_BS")
                         THEN <<Loop(DataBox(cfg), {Set(LimitsAtH, {})}), Loop(CornerBox(cfg), {Set(LimitsAtQ, {})})>>
                         ELSE <<>>
               sums == {"MEKE_mom_src"} \cup (cfg.on \cap {"MEKE_mom_src_bh"})
               sources == IF On(cfg, "MEKE_mom_src") THEN <<Loop(bx0, {Set(sums, {})})>> ELSE <<>>
    <2>1. AllFit(limits, W, S)
      BY TwoSteps, NoSteps, LoopStep, ApartReads DEF HorViscWrites
    <2>2. AllFit(sources, W, S)
      BY OneLoop, NoSteps, ApartReads DEF HorViscWrites, On
    <2>3. AllFit(Sets(On(cfg, "use_Leithy"), DataBox(cfg), "m_leithy", {}), W, S)
      BY SetsFit, ApartReads DEF HorViscWrites, HorViscScratchArrays
    <2>4. HorViscZeros(cfg) = limits \o Sets(On(cfg, "use_Leithy"), DataBox(cfg), "m_leithy", {}) \o sources
      BY Zenon DEF HorViscZeros
    <2> HIDE DEF limits, sources
    <2> QED BY <2>1, <2>2, <2>3, <2>4, Then
  <1>3. /\ AllFit(hor_visc_leith_grad_a(cfg) \o hor_visc_leith_grad_b(cfg), W, S)
        /\ {"biharmonic", "use_Leithy"} \subseteq cfg.on =>
              AllFit(hor_visc_leithy_m(cfg) \o hor_visc_leithy_ah(cfg) \o hor_visc_leithy_ah_h(cfg), W, S)
    BY LeithFits, Then DEF On
  <1> QED BY <1>1, <1>2, <1>3, StrainFits, CoefficientsAtHFit, StressAtHFits, CoefficientsAtQFit,
             StressDivergenceFits, NoSteps, Then DEF horizontal_viscosity_tr

\* The smoothers, which copy a field before they change it.
LEMMA SmoothingFits ==
    ASSUME NEW W, NEW S, {"f_prev", "f_orig"} \subseteq W, {"f_prev", "f_orig"} \subseteq S, NEW cfg
    PROVE  /\ "field_h" \in W => AllFit(smooth_x9_h(cfg), W, S)
           /\ {"field_u", "field_v"} \subseteq W => AllFit(smooth_x9_uv(cfg), W, S)
           /\ "GME_flux_h" \in W => AllFit(smooth_gme_h_pass(cfg), W, S)
           /\ "GME_flux_q" \in W => AllFit(smooth_gme_q_pass(cfg), W, S)
  <1>1. ASSUME NEW box, NEW alloc, NEW field \in {"field_h", "field_u", "field_v"}, field \in W,
               NEW mask \in {"cell", "face_u", "face_v"}
        PROVE  AllFit(smooth_x9(box, alloc, field, mask), W, S)
    <2>1. \A b : AllFit(smooth_x9_pass(b, alloc, field, mask), W, S)
      BY <1>1, TwoSteps, LoopStep, ApartReads DEF smooth_x9_pass
    <2>2. AllFit(<<Scratch(alloc, {"f_prev"})>>, W, S)
      BY OneStep, ScratchFits
    <2> QED BY <2>1, <2>2, Then DEF smooth_x9
  <1>2. ASSUME NEW alloc, NEW flux \in {"GME_flux_h", "GME_flux_q"}, flux \in W, NEW mask \in {"cell", "corner"}
        PROVE  AllFit(smooth_gme_pass(alloc, flux, mask), W, S)
    BY <1>2, ThreeSteps, ScratchFits, LoopStep, ApartReads DEF smooth_gme_pass
  <1> QED BY <1>1, <1>2, Then DEF smooth_x9_h, smooth_x9_uv, smooth_gme_h_pass, smooth_gme_q_pass

\* hor_visc_gme_bt.
LEMMA BarotropicStrainFits ==
    ASSUME NEW W, NEW S, "htot" \in W \cap S, NEW cfg,
           {"dudx_bt", "dvdy_bt", "dvdx_bt", "dudy_bt", "sh_xx_bt", "sh_xy_bt", "GME_effic_h", "GME_effic_q"} \subseteq W
    PROVE  AllFit(hor_visc_gme_bt(cfg), W, S)
  <1> DEFINE bxQ0dvdx == grow_by(bxQ(cfg), 2, 2, 2, 2)
             bxH0dudx == grow_by(bx0, 2, 2, 2, 2)
             faces == At({"face_u"}, Here \cup West) \cup At({"face_v"}, Here \cup South)
             faces_q == At({"face_u"}, Here \cup North) \cup At({"face_v"}, Here \cup East)
             along == {Set({"dudx_bt"}, AlongX("ubtav")), Set({"dvdy_bt"}, AlongY("vbtav"))}
             across == {Set({"dvdx_bt"}, AcrossX("vbtav")), Set({"dudy_bt"}, AcrossY("ubtav"))}
             scratch == Scratch(DataBox(cfg), {"htot"})
             sh_xx == Loop(bxHgrad(cfg), {Set({"sh_xx_bt"}, At({"dudx_bt", "dvdy_bt"}, Here))})
             sh_xy == Loop(bxQshear, {Set({"sh_xy_bt"}, At({"dvdx_bt", "dudy_bt", "corner"}, Here))})
             htot == Loop(bxH0dudx, {Set({"htot"}, At({"h"}, Here))})
             effic_h == Loop(bxHgrad(cfg), {Set({"GME_effic_h"}, faces \cup At({"dvdx_bt", "dudy_bt"}, CornersAround)
                                                \cup At({"dudx_bt", "dvdy_bt", "htot", "cell"}, Here))})
             effic_q == Loop(bxQshear, {Set({"GME_effic_q"}, faces_q \cup At({"dudx_bt", "dvdy_bt", "htot"}, CellsAround)
                                            \cup At({"dvdx_bt", "dudy_bt", "corner"}, Here))})
  <1>1. Tame(along, {"dudx_bt", "dvdy_bt"}) /\ Tame(across, {"dvdx_bt", "dudy_bt"})
    BY GradientReads, SetParts DEF Tame
  <1>2. Fits(scratch, W, S)
    BY ScratchFits
  <1>3. Fits(sh_xx, W, S) /\ Fits(sh_xy, W, S) /\ Fits(htot, W, S)
    BY LoopStep, ApartReads
  <1>4. Fits(effic_h, W, S)
    BY LoopStep, ApartReads
  <1>5. Fits(effic_q, W, S)
    BY LoopStep, ApartReads
  <1>6. hor_visc_gme_bt(cfg) = <<scratch, Loop(bxH0dudx, along), sh_xx, Loop(bxQ0dvdx, across), sh_xy, htot, effic_h, effic_q>>
    BY Zenon DEF hor_visc_gme_bt
  <1> HIDE DEF along, across, scratch, sh_xx, sh_xy, htot, effic_h, effic_q
  <1>7. Fits(Loop(bxH0dudx, along), W, S) /\ Fits(Loop(bxQ0dvdx, across), W, S)
    BY <1>1, LoopFits
  <1> QED BY <1>2, <1>3, <1>4, <1>5, <1>6, <1>7, EightSteps

-----------------------------------------------------------------------------
\* Vertical friction

FrictionScratch == {"c1U", "c1V", "surface_stress_u", "surface_stress_v"} \cup CoefScratch

\* The velocities, and the arrays that report their truncation
LimitWrites(cfg, W) ==
    /\ {"u", "v"} \subseteq W
    /\ On(cfg, "do_report_u") => {"u_old", "vel_report_u", "dowrite_u"} \subseteq W
    /\ On(cfg, "do_report_v") => {"v_old", "vel_report_v", "dowrite_v"} \subseteq W

\* vertvisc_limit_vel: the columns that are reported keep their old velocities.
LEMMA LimitFits ==
    ASSUME NEW W, NEW S, NEW cfg, LimitWrites(cfg, W)
    PROVE  AllFit(vertvisc_limit_vel(cfg), W, S)
  <1>1. AllFit(limit_u(cfg), W, S)
    <2> DEFINE cfl == At({"face_u"}, Here) \cup At({"cell"}, Here \cup East)
               report == On(cfg, "do_report_u")
               cut == {Set({"u"}, At({"u"}, Here) \cup cfl), Counts({"h_u"})}
               reports == Sets(report, bxU(cfg), "dowrite_u", {})
                          \o Sets(report, bxU(cfg), "vel_report_u", {})
                          \o Changes(report, bxU(cfg), "vel_report_u", At({"u"}, Here) \cup cfl)
                          \o Changes(report, bxU(cfg), "dowrite_u", At({"u"}, Here) \cup cfl)
                          \o Changes(report, bxU(cfg), "u_old", At({"u", "dowrite_u"}, Here))
    <2>1. Apart({"u"}, cfl) /\ Apart({"vel_report_u"}, cfl) /\ Apart({"dowrite_u"}, cfl)
      BY ApartReads
    <2> HIDE DEF cfl
    <2>2. Apart({"u"}, At({"u"}, Here) \cup cfl)
      BY <2>1, ApartReads
    <2>3. Tame(cut, {"u"})
      BY <2>2, SetParts, ApartReads DEF Tame, Counts
    <2>4. AllFit(Sets(report, bxU(cfg), "dowrite_u", {}), W, S) /\ AllFit(Sets(report, bxU(cfg), "vel_report_u", {}), W, S)
      BY SetsFit, ApartReads DEF LimitWrites
    <2>5. /\ AllFit(Changes(report, bxU(cfg), "vel_report_u", At({"u"}, Here) \cup cfl), W, S)
          /\ AllFit(Changes(report, bxU(cfg), "dowrite_u", At({"u"}, Here) \cup cfl), W, S)
          /\ AllFit(Changes(report, bxU(cfg), "u_old", At({"u", "dowrite_u"}, Here)), W, S)
      BY <2>1, ChangesFit, ApartReads DEF LimitWrites
    <2> HIDE DEF cut
    <2>6. AllFit(<<Loop(bxU(cfg), cut)>>, W, S)
      BY <2>3, LoopFits, OneStep DEF LimitWrites
    <2>7. limit_u(cfg) = reports \o <<Loop(bxU(cfg), cut)>>
      BY Zenon DEF limit_u, cut, cfl
    <2> QED BY <2>4, <2>5, <2>6, <2>7, Then
  <1>2. AllFit(limit_v(cfg), W, S)
    <2> DEFINE cfl == At({"face_v"}, Here) \cup At({"cell"}, Here \cup North)
               report == On(cfg, "do_report_v")
               cut == {Set({"v"}, At({"v"}, Here) \cup cfl), Counts({"h_v"})}
               reports == Sets(report, bxV(cfg), "dowrite_v", {})
                          \o Sets(report, bxV(cfg), "vel_report_v", {})
                          \o Changes(report, bxV(cfg), "vel_report_v", At({"v"}, Here) \cup cfl)
                          \o Changes(report, bxV(cfg), "dowrite_v", At({"v"}, Here) \cup cfl)
                          \o Changes(report, bxV(cfg), "v_old", At({"v", "dowrite_v"}, Here))
    <2>1. Apart({"v"}, cfl) /\ Apart({"vel_report_v"}, cfl) /\ Apart({"dowrite_v"}, cfl)
      BY ApartReads
    <2> HIDE DEF cfl
    <2>2. Apart({"v"}, At({"v"}, Here) \cup cfl)
      BY <2>1, ApartReads
    <2>3. Tame(cut, {"v"})
      BY <2>2, SetParts, ApartReads DEF Tame, Counts
    <2>4. AllFit(Sets(report, bxV(cfg), "dowrite_v", {}), W, S) /\ AllFit(Sets(report, bxV(cfg), "vel_report_v", {}), W, S)
      BY SetsFit, ApartReads DEF LimitWrites
    <2>5. /\ AllFit(Changes(report, bxV(cfg), "vel_report_v", At({"v"}, Here) \cup cfl), W, S)
          /\ AllFit(Changes(report, bxV(cfg), "dowrite_v", At({"v"}, Here) \cup cfl), W, S)
          /\ AllFit(Changes(report, bxV(cfg), "v_old", At({"v", "dowrite_v"}, Here)), W, S)
      BY <2>1, ChangesFit, ApartReads DEF LimitWrites
    <2> HIDE DEF cut
    <2>6. AllFit(<<Loop(bxV(cfg), cut)>>, W, S)
      BY <2>3, LoopFits, OneStep DEF LimitWrites
    <2>7. limit_v(cfg) = reports \o <<Loop(bxV(cfg), cut)>>
      BY Zenon DEF limit_v, cut, cfl
    <2> QED BY <2>4, <2>5, <2>6, <2>7, Then
  <1> QED BY <1>1, <1>2, Then DEF vertvisc_limit_vel

\* vertvisc_remnant_tr.
LEMMA RemnantFits ==
    ASSUME NEW W, NEW S, FrictionScratch \subseteq W, FrictionScratch \subseteq S,
           {"visc_rem_u", "visc_rem_v"} \subseteq W, NEW cfg
    PROVE  AllFit(vertvisc_remnant_tr(cfg), W, S)
  <1>1. AllFit(remnant_u(cfg), W, S)
    BY ThreeSteps, ScratchFits, LoopStep, ApartReads DEF remnant_u, FrictionScratch
  <1>2. AllFit(remnant_v(cfg), W, S)
    BY ThreeSteps, ScratchFits, LoopStep, ApartReads DEF remnant_v, FrictionScratch
  <1> QED BY <1>1, <1>2, Then DEF vertvisc_remnant_tr

\* vertfpmix_tr.
LEMMA MixingFits ==
    ASSUME NEW W, NEW S, {"u", "v", "uE_u", "vE_v", "uInc_u", "vInc_v"} \subseteq W, NEW cfg
    PROVE  AllFit(vertfpmix_tr(cfg), W, S)
  <1> DEFINE depth_u == At({"face_u", "h_u", "taux"}, Here) \cup At({"cell", "hbl_h"}, Here \cup East)
             depth_v == At({"face_v", "h_v", "tauy"}, Here) \cup At({"cell", "hbl_h"}, Here \cup North)
             sets_u == {Set({"uE_u"}, At({"u", "Us_x", "face_u"}, Here)), Set({"uInc_u"}, depth_u)}
             sets_v == {Set({"vE_v"}, At({"v", "Us_y", "face_v"}, Here)), Set({"vInc_v"}, depth_v)}
  <1>1. Tame(sets_u, {"uE_u", "uInc_u"}) /\ Tame(sets_v, {"vE_v", "vInc_v"})
    <2>1. Apart({"uE_u", "uInc_u"}, depth_u) /\ Apart({"vE_v", "vInc_v"}, depth_v)
      BY ApartReads
    <2> HIDE DEF depth_u, depth_v
    <2> QED BY <2>1, SetParts, ApartReads DEF Tame
  <1>2. /\ Fits(Loop(bxU(cfg), {Set({"u"}, At({"u", "uInc_u"}, Here))}), W, S)
        /\ Fits(Loop(bxV(cfg), {Set({"v"}, At({"v", "vInc_v"}, Here))}), W, S)
    BY LoopStep, ApartReads
  <1>3. vertfpmix_tr(cfg) = <<Loop(bxU(cfg), sets_u), Loop(bxU(cfg), {Set({"u"}, At({"u", "uInc_u"}, Here))}),
                              Loop(bxV(cfg), sets_v), Loop(bxV(cfg), {Set({"v"}, At({"v", "vInc_v"}, Here))})>>
    BY Zenon DEF vertfpmix_tr
  <1> HIDE DEF sets_u, sets_v
  <1>4. Fits(Loop(bxU(cfg), sets_u), W, S) /\ Fits(Loop(bxV(cfg), sets_v), W, S)
    BY <1>1, LoopFits
  <1> QED BY <1>2, <1>3, <1>4, FourSteps

\* thickness_to_dz_3d.
LEMMA DistanceFits ==
    ASSUME NEW W, NEW S, "dz" \in W, NEW cfg
    PROVE  AllFit(thickness_to_dz_3d(cfg), W, S)
  BY OneLoop, ApartReads DEF thickness_to_dz_3d, When

-----------------------------------------------------------------------------
\* The coefficients

CoefWrites(cfg, W) ==
    /\ FrictionScratch \subseteq W
    /\ {"a_u", "h_u", "a_v", "h_v"} \subseteq W
    /\ cfg.given \cap (GL90Coupling \cup CoefOutputs) \subseteq W
    /\ On(cfg, "use_GL90_in_SSW") => GL90Coupling \subseteq cfg.given
    /\ Wanted(cfg, "frac_shelf_u") \/ Wanted(cfg, "frac_shelf_v") => ShelfCoupling \subseteq W

\* What the coefficients are computed from is none of what is being set
LEMMA CoefficientReads ==
    ASSUME NEW cfg, NEW on_u \in BOOLEAN, NEW shelf, NEW hvel \in {"dz_vel", "dz_vel_shelf"},
           NEW A, A \subseteq {"a_cpl", "a_cpl_gl90", "a_shelf", "hML_u", "hML_v"}
    PROVE  /\ Apart(A, find_coupling_coef_point(cfg, on_u, shelf, hvel))
           /\ Apart(A, find_coupling_coef_gl90_point(cfg, on_u))
           /\ Apart(A, MixedLayerDepth(cfg, on_u))
  <1>1. Apart(A, MixedLayerDepth(cfg, on_u))
    BY ApartReads DEF MixedLayerDepth, When, OfDirection
  <1>2. Apart(A, friction_velocity(cfg, on_u))
    BY ApartReads DEF friction_velocity, GivenOf
  <1>3. Apart(A, surface_coupling(cfg, on_u))
    BY <1>1, <1>2, ApartReads DEF surface_coupling, When
  <1>4. Apart(A, shelf_coupling(on_u))
    BY ApartReads DEF shelf_coupling
  <1>5. Apart(A, interior_coupling(cfg, on_u, shelf))
    BY ApartReads DEF interior_coupling, When, GivenOf
  <1>6. Apart(A, find_coupling_coef_point(cfg, on_u, shelf, hvel))
    BY <1>3, <1>4, <1>5, ApartReads DEF find_coupling_coef_point
  <1>7. Apart(A, find_coupling_coef_gl90_point(cfg, on_u))
    BY ApartReads DEF find_coupling_coef_gl90_point, When, GivenOf
  <1> QED BY <1>1, <1>6, <1>7

\* The thicknesses at zonal faces.
LEMMA ThicknessesAt_uFit ==
    ASSUME NEW W, NEW S, NEW cfg, CoefWrites(cfg, W)
    PROVE  AllFit(thicknesses_at_u(cfg), W, S)
  <1> DEFINE box == bxU(cfg)
             beside == At({"dz"}, Here \cup East)
             bbl == When(On(cfg, "bottomdraglaw"), At({"bbl_thick_u"}, Here))
             topography == When(~On(cfg, "harmonic_visc"), At({"cell"}, Here \cup East))
             layers == At({"u", "face_u"}, Here) \cup At({"h", "dz"}, Here \cup East)
             z_i == At({"dz_harm"}, Here) \cup bbl \cup topography \cup beside
             hvel == layers \cup At({"dz_harm", "z_i"}, Here) \cup topography
  <1>1. Apart({"z_i"}, z_i)
    BY ApartReads DEF When
  <1>2. Apart({"hvel", "dz_vel"}, hvel)
    BY ApartReads DEF When
  <1>3. Apart({"dz_harm"}, beside) /\ Apart({"z_i_gl90"}, At({"dz_harm"}, Here))
    BY ApartReads
  <1>4. "dz_harm" \in W /\ "z_i" \in W /\ "z_i_gl90" \in W /\ {"hvel", "dz_vel"} \subseteq W
    BY DEF CoefWrites, FrictionScratch, CoefScratch
  <1> HIDE DEF z_i, hvel, beside
  <1>5. /\ AllFit(Sets(TRUE, box, "dz_harm", beside), W, S) /\ AllFit(Sets(TRUE, box, "z_i", z_i), W, S)
        /\ AllFit(Sets(On(cfg, "use_GL90_in_SSW"), box, "z_i_gl90", At({"dz_harm"}, Here)), W, S)
    BY <1>1, <1>3, <1>4, SetsFit
  <1>6. AllFit(<<Loop(box, {Set({"hvel", "dz_vel"}, hvel)})>>, W, S)
    BY <1>2, <1>4, OneLoop
  <1>7. thicknesses_at_u(cfg) =
            Sets(TRUE, box, "dz_harm", beside) \o Sets(TRUE, box, "z_i", z_i)
            \o <<Loop(box, {Set({"hvel", "dz_vel"}, hvel)})>>
            \o Sets(On(cfg, "use_GL90_in_SSW"), box, "z_i_gl90", At({"dz_harm"}, Here))
    BY Zenon DEF thicknesses_at_u, z_i, hvel, beside
  <1> QED BY <1>5, <1>6, <1>7, Then

\* The coefficients under a shelf, at zonal faces.
LEMMA UnderShelf_uFit ==
    ASSUME NEW W, NEW S, NEW cfg, CoefWrites(cfg, W)
    PROVE  AllFit(coupling_under_shelf_u(cfg), W, S)
  <1> DEFINE box == bxU(cfg)
             shelf == Wanted(cfg, "frac_shelf_u")
             upwind == When(~On(cfg, "harmonic_visc"),
                            At({"u", "face_u", "dz_harm", "tbl_thick_shelf_u"}, Here) \cup At({"h", "dz", "cell"}, Here \cup East))
             a_shelf == find_coupling_coef_point(cfg, TRUE, TRUE, "dz_vel_shelf")
  <1>1. /\ Apart({"hvel_shelf"}, At({"hvel"}, Here) \cup upwind)
        /\ Apart({"dz_vel_shelf"}, At({"dz_vel"}, Here) \cup upwind)
    BY ApartReads DEF When
  <1>2. Apart({"a_shelf"}, a_shelf)
    BY CoefficientReads
  <1>3. Apart({"a1_shelf_u"}, At({"frac_shelf_u", "a_shelf"}, Here))
    BY ApartReads
  <1>4. /\ {"hvel_shelf", "dz_vel_shelf", "a_shelf"} \subseteq W
        /\ shelf => "a1_shelf_u" \in W
    BY DEF CoefWrites, FrictionScratch, CoefScratch, ShelfCoupling
  <1> HIDE DEF upwind, a_shelf, shelf
  <1>5. /\ AllFit(Sets(shelf, box, "hvel_shelf", At({"hvel"}, Here) \cup upwind), W, S)
        /\ AllFit(Sets(shelf, box, "dz_vel_shelf", At({"dz_vel"}, Here) \cup upwind), W, S)
        /\ AllFit(Sets(shelf, box, "a_shelf", a_shelf), W, S)
        /\ AllFit(Sets(shelf, box, "a1_shelf_u", At({"frac_shelf_u", "a_shelf"}, Here)), W, S)
    BY <1>1, <1>2, <1>3, <1>4, SetsFit
  <1>6. coupling_under_shelf_u(cfg) =
            Sets(shelf, box, "hvel_shelf", At({"hvel"}, Here) \cup upwind)
            \o Sets(shelf, box, "dz_vel_shelf", At({"dz_vel"}, Here) \cup upwind)
            \o Sets(shelf, box, "a_shelf", a_shelf)
            \o Sets(shelf, box, "a1_shelf_u", At({"frac_shelf_u", "a_shelf"}, Here))
    BY Zenon DEF coupling_under_shelf_u, upwind, a_shelf, shelf
  <1> QED BY <1>5, <1>6, Then

\* All the coefficients at zonal faces.
LEMMA Coef_uFits ==
    ASSUME NEW W, NEW S, NEW cfg, CoefWrites(cfg, W), FrictionScratch \subseteq S
    PROVE  AllFit(coef_u(cfg), W, S)
  <1> DEFINE box == bxU(cfg)
             shelf == Wanted(cfg, "frac_shelf_u")
             gl90 == On(cfg, "use_GL90_in_SSW")
             coupled == At({"a_cpl"} \cup When(gl90, {"a_cpl_gl90"}) \cup When(shelf, {"a_shelf", "frac_shelf_u"}), Here)
             a_cpl == find_coupling_coef_point(cfg, TRUE, FALSE, "dz_vel")
             hML == MixedLayerDepth(cfg, TRUE)
             a_cpl_gl90 == find_coupling_coef_gl90_point(cfg, TRUE)
             h == At({"hvel"} \cup When(shelf, {"hvel_shelf", "frac_shelf_u"}), Here)
  <1>1. Apart({"a_cpl"}, a_cpl) /\ Apart({"hML_u"}, hML) /\ Apart({"a_cpl_gl90"}, a_cpl_gl90)
    BY CoefficientReads
  <1>2. Apart({"a_u"}, coupled) /\ Apart({"h_u"}, h) /\ Apart({"a_u_gl90"}, At({"a_cpl_gl90"}, Here))
    BY ApartReads
  <1>3. Apart({"Kv_u"}, At({"a_u", "h_u"}, Here)) /\ Apart({"Kv_gl90_u"}, At({"a_u_gl90", "h_u"}, Here))
    BY ApartReads
  <1>4. AllFit(<<Scratch(box, CoefScratch)>>, W, S)
    BY ScratchFits, OneStep DEF FrictionScratch
  <1>5. /\ {"a_cpl", "a_cpl_gl90", "a_u", "h_u"} \subseteq W
        /\ gl90 => "a_u_gl90" \in W
        /\ Wanted(cfg, "hML_u") => "hML_u" \in W
        /\ Wanted(cfg, "Kv_u") => "Kv_u" \in W
        /\ Wanted(cfg, "Kv_gl90_u") => "Kv_gl90_u" \in W
    BY DEF CoefWrites, FrictionScratch, CoefScratch, GL90Coupling, CoefOutputs, Wanted
  <1> HIDE DEF coupled, a_cpl, hML, a_cpl_gl90, h, shelf, gl90
  <1>6. /\ AllFit(Sets(TRUE, box, "a_cpl", a_cpl), W, S)
        /\ AllFit(Sets(Wanted(cfg, "hML_u"), box, "hML_u", hML), W, S)
        /\ AllFit(Sets(gl90, box, "a_cpl_gl90", a_cpl_gl90), W, S)
    BY <1>1, <1>5, SetsFit
  <1>7. /\ AllFit(Sets(TRUE, box, "a_u", coupled), W, S)
        /\ AllFit(Sets(gl90, box, "a_u_gl90", At({"a_cpl_gl90"}, Here)), W, S)
        /\ AllFit(Sets(TRUE, box, "h_u", h), W, S)
    BY <1>2, <1>5, SetsFit
  <1>8. /\ AllFit(Sets(Wanted(cfg, "Kv_u"), box, "Kv_u", At({"a_u", "h_u"}, Here)), W, S)
        /\ AllFit(Sets(Wanted(cfg, "Kv_gl90_u"), box, "Kv_gl90_u", At({"a_u_gl90", "h_u"}, Here)), W, S)
    BY <1>3, <1>5, SetsFit
  <1>9. coef_u(cfg) =
            <<Scratch(box, CoefScratch)>> \o thicknesses_at_u(cfg)
            \o Sets(TRUE, box, "a_cpl", a_cpl)
            \o Sets(Wanted(cfg, "hML_u"), box, "hML_u", hML)
            \o Sets(gl90, box, "a_cpl_gl90", a_cpl_gl90)
            \o coupling_under_shelf_u(cfg)
            \o Sets(TRUE, box, "a_u", coupled)
            \o Sets(gl90, box, "a_u_gl90", At({"a_cpl_gl90"}, Here))
            \o Sets(TRUE, box, "h_u", h)
            \o Sets(Wanted(cfg, "Kv_u"), box, "Kv_u", At({"a_u", "h_u"}, Here))
            \o Sets(Wanted(cfg, "Kv_gl90_u"), box, "Kv_gl90_u", At({"a_u_gl90", "h_u"}, Here))
    BY Zenon DEF coef_u, coupled, a_cpl, hML, a_cpl_gl90, h, shelf, gl90
  <1> QED BY <1>4, <1>6, <1>7, <1>8, <1>9, ThicknessesAt_uFit, UnderShelf_uFit, Then

\* The thicknesses at meridional faces.
LEMMA ThicknessesAt_vFit ==
    ASSUME NEW W, NEW S, NEW cfg, CoefWrites(cfg, W)
    PROVE  AllFit(thicknesses_at_v(cfg), W, S)
  <1> DEFINE box == bxV(cfg)
             beside == At({"dz"}, Here \cup North)
             bbl == When(On(cfg, "bottomdraglaw"), At({"bbl_thick_v"}, Here))
             topography == When(~On(cfg, "harmonic_visc"), At({"cell"}, Here \cup North))
             layers == At({"v", "face_v"}, Here) \cup At({"h", "dz"}, Here \cup North)
             z_i == At({"dz_harm"}, Here) \cup bbl \cup topography \cup beside
             hvel == layers \cup At({"dz_harm", "z_i"}, Here) \cup topography
  <1>1. Apart({"z_i"}, z_i)
    BY ApartReads DEF When
  <1>2. Apart({"hvel", "dz_vel"}, hvel)
    BY ApartReads DEF When
  <1>3. Apart({"dz_harm"}, beside) /\ Apart({"z_i_gl90"}, At({"dz_harm"}, Here))
    BY ApartReads
  <1>4. "dz_harm" \in W /\ "z_i" \in W /\ "z_i_gl90" \in W /\ {"hvel", "dz_vel"} \subseteq W
    BY DEF CoefWrites, FrictionScratch, CoefScratch
  <1> HIDE DEF z_i, hvel, beside
  <1>5. /\ AllFit(Sets(TRUE, box, "dz_harm", beside), W, S) /\ AllFit(Sets(TRUE, box, "z_i", z_i), W, S)
        /\ AllFit(Sets(On(cfg, "use_GL90_in_SSW"), box, "z_i_gl90", At({"dz_harm"}, Here)), W, S)
    BY <1>1, <1>3, <1>4, SetsFit
  <1>6. AllFit(<<Loop(box, {Set({"hvel", "dz_vel"}, hvel)})>>, W, S)
    BY <1>2, <1>4, OneLoop
  <1>7. thicknesses_at_v(cfg) =
            Sets(TRUE, box, "dz_harm", beside) \o Sets(TRUE, box, "z_i", z_i)
            \o <<Loop(box, {Set({"hvel", "dz_vel"}, hvel)})>>
            \o Sets(On(cfg, "use_GL90_in_SSW"), box, "z_i_gl90", At({"dz_harm"}, Here))
    BY Zenon DEF thicknesses_at_v, z_i, hvel, beside
  <1> QED BY <1>5, <1>6, <1>7, Then

\* The coefficients under a shelf, at meridional faces.
LEMMA UnderShelf_vFit ==
    ASSUME NEW W, NEW S, NEW cfg, CoefWrites(cfg, W)
    PROVE  AllFit(coupling_under_shelf_v(cfg), W, S)
  <1> DEFINE box == bxV(cfg)
             shelf == Wanted(cfg, "frac_shelf_v")
             upwind == When(~On(cfg, "harmonic_visc"),
                            At({"v", "face_v", "dz_harm", "tbl_thick_shelf_v"}, Here) \cup At({"h", "dz", "cell"}, Here \cup North))
             a_shelf == find_coupling_coef_point(cfg, FALSE, TRUE, "dz_vel_shelf")
  <1>1. /\ Apart({"hvel_shelf"}, At({"hvel"}, Here) \cup upwind)
        /\ Apart({"dz_vel_shelf"}, At({"dz_vel"}, Here) \cup upwind)
    BY ApartReads DEF When
  <1>2. Apart({"a_shelf"}, a_shelf)
    BY CoefficientReads
  <1>3. Apart({"a1_shelf_v"}, At({"frac_shelf_v", "a_shelf"}, Here))
    BY ApartReads
  <1>4. /\ {"hvel_shelf", "dz_vel_shelf", "a_shelf"} \subseteq W
        /\ shelf => "a1_shelf_v" \in W
    BY DEF CoefWrites, FrictionScratch, CoefScratch, ShelfCoupling
  <1> HIDE DEF upwind, a_shelf, shelf
  <1>5. /\ AllFit(Sets(shelf, box, "hvel_shelf", At({"hvel"}, Here) \cup upwind), W, S)
        /\ AllFit(Sets(shelf, box, "dz_vel_shelf", At({"dz_vel"}, Here) \cup upwind), W, S)
        /\ AllFit(Sets(shelf, box, "a_shelf", a_shelf), W, S)
        /\ AllFit(Sets(shelf, box, "a1_shelf_v", At({"frac_shelf_v", "a_shelf"}, Here)), W, S)
    BY <1>1, <1>2, <1>3, <1>4, SetsFit
  <1>6. coupling_under_shelf_v(cfg) =
            Sets(shelf, box, "hvel_shelf", At({"hvel"}, Here) \cup upwind)
            \o Sets(shelf, box, "dz_vel_shelf", At({"dz_vel"}, Here) \cup upwind)
            \o Sets(shelf, box, "a_shelf", a_shelf)
            \o Sets(shelf, box, "a1_shelf_v", At({"frac_shelf_v", "a_shelf"}, Here))
    BY Zenon DEF coupling_under_shelf_v, upwind, a_shelf, shelf
  <1> QED BY <1>5, <1>6, Then

\* All the coefficients at meridional faces.
LEMMA Coef_vFits ==
    ASSUME NEW W, NEW S, NEW cfg, CoefWrites(cfg, W), FrictionScratch \subseteq S
    PROVE  AllFit(coef_v(cfg), W, S)
  <1> DEFINE box == bxV(cfg)
             shelf == Wanted(cfg, "frac_shelf_v")
             gl90 == On(cfg, "use_GL90_in_SSW")
             coupled == At({"a_cpl"} \cup When(gl90, {"a_cpl_gl90"}) \cup When(shelf, {"a_shelf", "frac_shelf_v"}), Here)
             a_cpl == find_coupling_coef_point(cfg, FALSE, FALSE, "dz_vel")
             hML == MixedLayerDepth(cfg, FALSE)
             a_cpl_gl90 == find_coupling_coef_gl90_point(cfg, FALSE)
             h == At({"hvel"} \cup When(shelf, {"hvel_shelf", "frac_shelf_v"}), Here)
  <1>1. Apart({"a_cpl"}, a_cpl) /\ Apart({"hML_v"}, hML) /\ Apart({"a_cpl_gl90"}, a_cpl_gl90)
    BY CoefficientReads
  <1>2. Apart({"a_v"}, coupled) /\ Apart({"h_v"}, h) /\ Apart({"a_v_gl90"}, At({"a_cpl_gl90"}, Here))
    BY ApartReads
  <1>3. Apart({"Kv_v"}, At({"a_v", "h_v"}, Here)) /\ Apart({"Kv_gl90_v"}, At({"a_v_gl90", "h_v"}, Here))
    BY ApartReads
  <1>4. AllFit(<<Scratch(box, CoefScratch)>>, W, S)
    BY ScratchFits, OneStep DEF FrictionScratch
  <1>5. /\ {"a_cpl", "a_cpl_gl90", "a_v", "h_v"} \subseteq W
        /\ gl90 => "a_v_gl90" \in W
        /\ Wanted(cfg, "hML_v") => "hML_v" \in W
        /\ Wanted(cfg, "Kv_v") => "Kv_v" \in W
        /\ Wanted(cfg, "Kv_gl90_v") => "Kv_gl90_v" \in W
    BY DEF CoefWrites, FrictionScratch, CoefScratch, GL90Coupling, CoefOutputs, Wanted
  <1> HIDE DEF coupled, a_cpl, hML, a_cpl_gl90, h, shelf, gl90
  <1>6. /\ AllFit(Sets(TRUE, box, "a_cpl", a_cpl), W, S)
        /\ AllFit(Sets(Wanted(cfg, "hML_v"), box, "hML_v", hML), W, S)
        /\ AllFit(Sets(gl90, box, "a_cpl_gl90", a_cpl_gl90), W, S)
    BY <1>1, <1>5, SetsFit
  <1>7. /\ AllFit(Sets(TRUE, box, "a_v", coupled), W, S)
        /\ AllFit(Sets(gl90, box, "a_v_gl90", At({"a_cpl_gl90"}, Here)), W, S)
        /\ AllFit(Sets(TRUE, box, "h_v", h), W, S)
    BY <1>2, <1>5, SetsFit
  <1>8. /\ AllFit(Sets(Wanted(cfg, "Kv_v"), box, "Kv_v", At({"a_v", "h_v"}, Here)), W, S)
        /\ AllFit(Sets(Wanted(cfg, "Kv_gl90_v"), box, "Kv_gl90_v", At({"a_v_gl90", "h_v"}, Here)), W, S)
    BY <1>3, <1>5, SetsFit
  <1>9. coef_v(cfg) =
            <<Scratch(box, CoefScratch)>> \o thicknesses_at_v(cfg)
            \o Sets(TRUE, box, "a_cpl", a_cpl)
            \o Sets(Wanted(cfg, "hML_v"), box, "hML_v", hML)
            \o Sets(gl90, box, "a_cpl_gl90", a_cpl_gl90)
            \o coupling_under_shelf_v(cfg)
            \o Sets(TRUE, box, "a_v", coupled)
            \o Sets(gl90, box, "a_v_gl90", At({"a_cpl_gl90"}, Here))
            \o Sets(TRUE, box, "h_v", h)
            \o Sets(Wanted(cfg, "Kv_v"), box, "Kv_v", At({"a_v", "h_v"}, Here))
            \o Sets(Wanted(cfg, "Kv_gl90_v"), box, "Kv_gl90_v", At({"a_v_gl90", "h_v"}, Here))
    BY Zenon DEF coef_v, coupled, a_cpl, hML, a_cpl_gl90, h, shelf, gl90
  <1> QED BY <1>4, <1>6, <1>7, <1>8, <1>9, ThicknessesAt_vFit, UnderShelf_vFit, Then

\* vertvisc_coef_tr with any options.
LEMMA CoefFits ==
    ASSUME NEW W, NEW S, NEW cfg, CoefWrites(cfg, W), FrictionScratch \subseteq S
    PROVE  AllFit(vertvisc_coef_tr(cfg), W, S)
  BY Coef_uFits, Coef_vFits, Then DEF vertvisc_coef_tr

-----------------------------------------------------------------------------
\* The implicit step

StepWrites(cfg, W) ==
    /\ FrictionScratch \subseteq W
    /\ LimitWrites(cfg, W)
    /\ {"u", "v"} \subseteq W
    /\ cfg.given \cap (TendencyOutputs \cup StressOutputs) \subseteq W
    /\ On(cfg, "do_GLwork") => WorkOutputs \subseteq W

\* One tridiagonal solve: down the columns, and up again.
LEMMA TridiagFits ==
    ASSUME NEW W, NEW S, NEW cfg, NEW box, NEW columns, NEW vel, NEW str, NEW stress, NEW c1,
           {vel, c1} \subseteq W, Wanted(cfg, str) => str \in W
    PROVE  AllFit(vertvisc_tridiag(cfg, box, vel, At(columns, Here), str, stress, c1), W, S)
  <1> DEFINE column == At(columns, Here)
             wanted == Wanted(cfg, str)
             down == {Set({c1}, column), Set({vel}, column \cup At({vel, stress}, Here))}
                     \cup When(wanted, {Set({str}, column \cup At({str, stress}, Here))})
             up == {Set({vel}, At({vel, c1}, Here))} \cup When(wanted, {Set({str}, At({str, c1}, Here))})
             A == {c1, vel} \cup When(wanted, {str})
  <1>1. A \subseteq W
    BY DEF When
  <1>2. Apart(A, column) /\ (\A arrays : Apart(A, column \cup At(arrays, Here))) /\ (\A arrays : Apart(A, At(arrays, Here)))
    BY ApartReads
  <1> HIDE DEF column, wanted
  <1>3. Tame(down, A)
    <2>1. Tame({Set({c1}, column), Set({vel}, column \cup At({vel, stress}, Here))}, A)
      <3>1. {c1} \subseteq A /\ {vel} \subseteq A
        OBVIOUS
      <3> HIDE DEF A
      <3>2. Tame({Set({c1}, column)}, A) /\ Tame({Set({vel}, column \cup At({vel, stress}, Here))}, A)
        BY <1>2, <3>1, TameSets
      <3>3. Tame({Set({c1}, column)} \cup {Set({vel}, column \cup At({vel, stress}, Here))}, A)
        BY <3>2, TameSets
      <3>4. {Set({c1}, column), Set({vel}, column \cup At({vel, stress}, Here))}
              = {Set({c1}, column)} \cup {Set({vel}, column \cup At({vel, stress}, Here))}
        BY Zenon
      <3> QED BY <3>3, <3>4
    <2>2. Tame(When(wanted, {Set({str}, column \cup At({str, stress}, Here))}), A)
      BY <1>2, SetParts DEF Tame, When
    <2> QED BY <2>1, <2>2, TameSets
  <1>4. Tame(up, A)
    BY <1>2, SetParts DEF Tame, When
  <1>5. vertvisc_tridiag(cfg, box, vel, At(columns, Here), str, stress, c1) = <<Loop(box, down), Loop(box, up)>>
    BY Zenon DEF vertvisc_tridiag, wanted, column
  <1> HIDE DEF A, down, up
  <1> QED BY <1>1, <1>3, <1>4, <1>5, LoopFits, TwoSteps

\* The implicit step of the zonal velocity, with its diagnostics.
LEMMA ZonalStepFits ==
    ASSUME NEW W, NEW S, NEW cfg, StepWrites(cfg, W)
    PROVE  AllFit(zonal_vertvisc(cfg), W, S)
  <1>1. ASSUME NEW on PROVE AllFit(Changes(on, bxU(cfg), "u", At({"face_u", "Us_x"}, Here)), W, S)
    BY ChangesFit, ApartReads DEF StepWrites
  <1>2. AllFit(wind_u(cfg), W, S)
    <2> DEFINE force == At({"taux", "face_u"}, Here) \cup At({"h"}, Here \cup East)
    <2>1. Apart({"u"}, force) /\ Apart({"du_dt_str"}, force)
      BY ApartReads
    <2>2. AllFit(Sets(TRUE, bxU(cfg), "surface_stress_u", {}), W, S)
      BY SetsFit, ApartReads DEF StepWrites, FrictionScratch
    <2>3. AllFit(Sets(TRUE, bxU(cfg), "surface_stress_u", At({"taux", "face_u"}, Here)), W, S)
      BY SetsFit, ApartReads DEF StepWrites, FrictionScratch
    <2> HIDE DEF force
    <2>4. AllFit(Changes(TRUE, bxU(cfg), "u", force), W, S)
      BY <2>1, ChangesFit DEF StepWrites
    <2>5. AllFit(Changes(Wanted(cfg, "du_dt_str"), bxU(cfg), "du_dt_str", force), W, S)
      BY <2>1, ChangesFit DEF StepWrites, TendencyOutputs, Wanted
    <2>6. wind_u(cfg) =
              IF On(cfg, "direct_stress")
              THEN Sets(TRUE, bxU(cfg), "surface_stress_u", {}) \o Changes(TRUE, bxU(cfg), "u", force)
                   \o Changes(Wanted(cfg, "du_dt_str"), bxU(cfg), "du_dt_str", force)
              ELSE Sets(TRUE, bxU(cfg), "surface_stress_u", At({"taux", "face_u"}, Here))
      BY Zenon DEF wind_u, force
    <2> QED BY <2>2, <2>3, <2>4, <2>5, <2>6, Then
  <1>3. AllFit(gl90_u(cfg), W, S)
    <2> DEFINE solve == cfg.on \cap {"do_du_dt_visc_gl90", "do_GLwork"} # {} /\ Wanted(cfg, "du_dt_visc_gl90")
               column == At({"h_u", "a_u_gl90", "face_u"}, Here)
               work == At({"du_dt_visc", "du_dt_visc_gl90", "h_u", "face_u"}, Here)
    <2>1. /\ "c1U" \in W
          /\ solve => "du_dt_visc_gl90" \in W
          /\ On(cfg, "do_GLwork") => "KE_u" \in W
      BY DEF StepWrites, FrictionScratch, TendencyOutputs, WorkOutputs, Wanted
    <2>2. Apart({"c1U"}, column) /\ Apart({"du_dt_visc_gl90"}, column) /\ Apart({"KE_u"}, work)
      BY ApartReads
    <2>3. Apart({"du_dt_visc_gl90"}, At({"c1U"}, Here)) /\ Apart({"du_dt_visc_gl90"}, At({"du_dt_visc"}, Here))
      BY ApartReads
    <2> HIDE DEF solve, column, work
    <2>4. /\ AllFit(Sets(solve, bxU(cfg), "c1U", column), W, S)
          /\ AllFit(Sets(solve /\ On(cfg, "do_GLwork"), bxU(cfg), "KE_u", work), W, S)
      BY <2>1, <2>2, SetsFit
    <2>5. /\ AllFit(Changes(solve, bxU(cfg), "du_dt_visc_gl90", column), W, S)
          /\ AllFit(Changes(solve, bxU(cfg), "du_dt_visc_gl90", At({"c1U"}, Here)), W, S)
          /\ AllFit(Changes(solve, bxU(cfg), "du_dt_visc_gl90", At({"du_dt_visc"}, Here)), W, S)
      BY <2>1, <2>2, <2>3, ChangesFit
    <2>6. gl90_u(cfg) =
              Sets(solve, bxU(cfg), "c1U", column)
              \o Changes(solve, bxU(cfg), "du_dt_visc_gl90", column)
              \o Changes(solve, bxU(cfg), "du_dt_visc_gl90", At({"c1U"}, Here))
              \o Changes(solve, bxU(cfg), "du_dt_visc_gl90", At({"du_dt_visc"}, Here))
              \o Sets(solve /\ On(cfg, "do_GLwork"), bxU(cfg), "KE_u", work)
      BY Zenon DEF gl90_u, solve, column, work
    <2> QED BY <2>4, <2>5, <2>6, Then
  <1> DEFINE box == bxU(cfg)
             drag == GivenOf(cfg, {"Ray_u"})
             stokes(on) == Changes(on, box, "u", At({"face_u", "Us_x"}, Here))
             solve == vertvisc_tridiag(cfg, box, "u", At({"h_u", "a_u", "face_u"} \cup drag, Here), "du_dt_str",
                                       "surface_stress_u", "c1U")
  <1>4. AllFit(solve, W, S)
    <2>1. {"u", "c1U"} \subseteq W /\ (Wanted(cfg, "du_dt_str") => "du_dt_str" \in W)
      BY DEF StepWrites, FrictionScratch, TendencyOutputs, Wanted
    <2> QED BY <2>1, TridiagFits
  <1>5. /\ AllFit(Sets(Wanted(cfg, "du_dt_visc"), box, "du_dt_visc", At({"u"}, Here)), W, S)
        /\ AllFit(Sets(Wanted(cfg, "du_dt_visc_gl90"), box, "du_dt_visc_gl90", At({"u"}, Here)), W, S)
        /\ AllFit(Sets(Wanted(cfg, "du_dt_str"), box, "du_dt_str", {}), W, S)
    BY SetsFit, ApartReads DEF StepWrites, TendencyOutputs, Wanted
  <1>6. /\ AllFit(Sets(Wanted(cfg, "taux_shelf"), box, "taux_shelf", At({"a1_shelf_u", "u"}, Here)), W, S)
        /\ AllFit(Sets(Wanted(cfg, "taux_bot"), box, "taux_bot", At({"u", "a_u"}, Here)), W, S)
    BY SetsFit, ApartReads DEF StepWrites, StressOutputs, Wanted
  <1>7. /\ AllFit(Changes(Wanted(cfg, "du_dt_visc"), box, "du_dt_visc", At({"u"}, Here)), W, S)
        /\ AllFit(Changes(Wanted(cfg, "taux_bot") /\ Wanted(cfg, "Ray_u"), box, "taux_bot", At({"u", "Ray_u"}, Here)), W, S)
    BY ChangesFit, ApartReads DEF StepWrites, TendencyOutputs, StressOutputs, Wanted
  <1>8. AllFit(stokes(DoStokesMixing(cfg)), W, S) /\ AllFit(stokes(On(cfg, "fpmix")), W, S)
    BY <1>1
  <1>9. zonal_vertvisc(cfg) =
            stokes(DoStokesMixing(cfg)) \o stokes(On(cfg, "fpmix"))
            \o Sets(Wanted(cfg, "du_dt_visc"), box, "du_dt_visc", At({"u"}, Here))
            \o Sets(Wanted(cfg, "du_dt_visc_gl90"), box, "du_dt_visc_gl90", At({"u"}, Here))
            \o Sets(Wanted(cfg, "du_dt_str"), box, "du_dt_str", {})
            \o wind_u(cfg) \o solve \o gl90_u(cfg)
            \o Changes(Wanted(cfg, "du_dt_visc"), box, "du_dt_visc", At({"u"}, Here))
            \o Sets(Wanted(cfg, "taux_shelf"), box, "taux_shelf", At({"a1_shelf_u", "u"}, Here))
            \o Sets(Wanted(cfg, "taux_bot"), box, "taux_bot", At({"u", "a_u"}, Here))
            \o Changes(Wanted(cfg, "taux_bot") /\ Wanted(cfg, "Ray_u"), box, "taux_bot", At({"u", "Ray_u"}, Here))
            \o stokes(DoStokesMixing(cfg)) \o stokes(On(cfg, "fpmix"))
    BY Zenon DEF zonal_vertvisc
  <1> HIDE DEF stokes, solve, drag, box
  <1> QED BY <1>2, <1>3, <1>4, <1>5, <1>6, <1>7, <1>8, <1>9, Then DEF box

\* The implicit step of the meridional velocity.
LEMMA MeridionalStepFits ==
    ASSUME NEW W, NEW S, NEW cfg, StepWrites(cfg, W)
    PROVE  AllFit(meridional_vertvisc(cfg), W, S)
  <1>1. ASSUME NEW on PROVE AllFit(Changes(on, bxV(cfg), "v", At({"face_v", "Us_y"}, Here)), W, S)
    BY ChangesFit, ApartReads DEF StepWrites
  <1>2. AllFit(wind_v(cfg), W, S)
    <2> DEFINE force == At({"tauy", "face_v"}, Here) \cup At({"h"}, Here \cup North)
    <2>1. Apart({"v"}, force) /\ Apart({"dv_dt_str"}, force)
      BY ApartReads
    <2>2. AllFit(Sets(TRUE, bxV(cfg), "surface_stress_v", {}), W, S)
      BY SetsFit, ApartReads DEF StepWrites, FrictionScratch
    <2>3. AllFit(Sets(TRUE, bxV(cfg), "surface_stress_v", At({"tauy", "face_v"}, Here)), W, S)
      BY SetsFit, ApartReads DEF StepWrites, FrictionScratch
    <2> HIDE DEF force
    <2>4. AllFit(Changes(TRUE, bxV(cfg), "v", force), W, S)
      BY <2>1, ChangesFit DEF StepWrites
    <2>5. AllFit(Changes(Wanted(cfg, "dv_dt_str"), bxV(cfg), "dv_dt_str", force), W, S)
      BY <2>1, ChangesFit DEF StepWrites, TendencyOutputs, Wanted
    <2>6. wind_v(cfg) =
              IF On(cfg, "direct_stress")
              THEN Sets(TRUE, bxV(cfg), "surface_stress_v", {}) \o Changes(TRUE, bxV(cfg), "v", force)
                   \o Changes(Wanted(cfg, "dv_dt_str"), bxV(cfg), "dv_dt_str", force)
              ELSE Sets(TRUE, bxV(cfg), "surface_stress_v", At({"tauy", "face_v"}, Here))
      BY Zenon DEF wind_v, force
    <2> QED BY <2>2, <2>3, <2>4, <2>5, <2>6, Then
  <1>3. AllFit(gl90_v(cfg), W, S)
    <2> DEFINE solve == cfg.on \cap {"do_dv_dt_visc_gl90", "do_GLwork"} # {} /\ Wanted(cfg, "dv_dt_visc_gl90")
               column == At({"h_v", "a_v_gl90", "face_v"}, Here)
               work == At({"dv_dt_visc", "dv_dt_visc_gl90", "h_v", "face_v"}, Here)
    <2>1. /\ "c1V" \in W
          /\ solve => "dv_dt_visc_gl90" \in W
          /\ On(cfg, "do_GLwork") => "KE_v" \in W
      BY DEF StepWrites, FrictionScratch, TendencyOutputs, WorkOutputs, Wanted
    <2>2. Apart({"c1V"}, column) /\ Apart({"dv_dt_visc_gl90"}, column) /\ Apart({"KE_v"}, work)
      BY ApartReads
    <2>3. Apart({"dv_dt_visc_gl90"}, At({"c1V"}, Here)) /\ Apart({"dv_dt_visc_gl90"}, At({"dv_dt_visc"}, Here))
      BY ApartReads
    <2> HIDE DEF solve, column, work
    <2>4. /\ AllFit(Sets(solve, bxV(cfg), "c1V", column), W, S)
          /\ AllFit(Sets(solve /\ On(cfg, "do_GLwork"), bxV(cfg), "KE_v", work), W, S)
      BY <2>1, <2>2, SetsFit
    <2>5. /\ AllFit(Changes(solve, bxV(cfg), "dv_dt_visc_gl90", column), W, S)
          /\ AllFit(Changes(solve, bxV(cfg), "dv_dt_visc_gl90", At({"c1V"}, Here)), W, S)
          /\ AllFit(Changes(solve, bxV(cfg), "dv_dt_visc_gl90", At({"dv_dt_visc"}, Here)), W, S)
      BY <2>1, <2>2, <2>3, ChangesFit
    <2>6. gl90_v(cfg) =
              Sets(solve, bxV(cfg), "c1V", column)
              \o Changes(solve, bxV(cfg), "dv_dt_visc_gl90", column)
              \o Changes(solve, bxV(cfg), "dv_dt_visc_gl90", At({"c1V"}, Here))
              \o Changes(solve, bxV(cfg), "dv_dt_visc_gl90", At({"dv_dt_visc"}, Here))
              \o Sets(solve /\ On(cfg, "do_GLwork"), bxV(cfg), "KE_v", work)
      BY Zenon DEF gl90_v, solve, column, work
    <2> QED BY <2>4, <2>5, <2>6, Then
  <1> DEFINE box == bxV(cfg)
             drag == GivenOf(cfg, {"Ray_v"})
             stokes(on) == Changes(on, box, "v", At({"face_v", "Us_y"}, Here))
             solve == vertvisc_tridiag(cfg, box, "v", At({"h_v", "a_v", "face_v"} \cup drag, Here), "dv_dt_str",
                                       "surface_stress_v", "c1V")
  <1>4. AllFit(solve, W, S)
    <2>1. {"v", "c1V"} \subseteq W /\ (Wanted(cfg, "dv_dt_str") => "dv_dt_str" \in W)
      BY DEF StepWrites, FrictionScratch, TendencyOutputs, Wanted
    <2> QED BY <2>1, TridiagFits
  <1>5. /\ AllFit(Sets(Wanted(cfg, "dv_dt_visc"), box, "dv_dt_visc", At({"v"}, Here)), W, S)
        /\ AllFit(Sets(Wanted(cfg, "dv_dt_visc_gl90"), box, "dv_dt_visc_gl90", At({"v"}, Here)), W, S)
        /\ AllFit(Sets(Wanted(cfg, "dv_dt_str"), box, "dv_dt_str", {}), W, S)
    BY SetsFit, ApartReads DEF StepWrites, TendencyOutputs, Wanted
  <1>6. /\ AllFit(Sets(Wanted(cfg, "tauy_shelf"), box, "tauy_shelf", At({"a1_shelf_v", "v"}, Here)), W, S)
        /\ AllFit(Sets(Wanted(cfg, "tauy_bot"), box, "tauy_bot", At({"v", "a_v"}, Here)), W, S)
    BY SetsFit, ApartReads DEF StepWrites, StressOutputs, Wanted
  <1>7. /\ AllFit(Changes(Wanted(cfg, "dv_dt_visc"), box, "dv_dt_visc", At({"v"}, Here)), W, S)
        /\ AllFit(Changes(Wanted(cfg, "tauy_bot") /\ Wanted(cfg, "Ray_v"), box, "tauy_bot", At({"v", "Ray_v"}, Here)), W, S)
    BY ChangesFit, ApartReads DEF StepWrites, TendencyOutputs, StressOutputs, Wanted
  <1>8. AllFit(stokes(DoStokesMixing(cfg)), W, S) /\ AllFit(stokes(On(cfg, "fpmix")), W, S)
    BY <1>1
  <1>9. meridional_vertvisc(cfg) =
            stokes(DoStokesMixing(cfg)) \o stokes(On(cfg, "fpmix"))
            \o Sets(Wanted(cfg, "dv_dt_visc"), box, "dv_dt_visc", At({"v"}, Here))
            \o Sets(Wanted(cfg, "dv_dt_visc_gl90"), box, "dv_dt_visc_gl90", At({"v"}, Here))
            \o Sets(Wanted(cfg, "dv_dt_str"), box, "dv_dt_str", {})
            \o wind_v(cfg) \o solve \o gl90_v(cfg)
            \o Changes(Wanted(cfg, "dv_dt_visc"), box, "dv_dt_visc", At({"v"}, Here))
            \o Sets(Wanted(cfg, "tauy_shelf"), box, "tauy_shelf", At({"a1_shelf_v", "v"}, Here))
            \o Sets(Wanted(cfg, "tauy_bot"), box, "tauy_bot", At({"v", "a_v"}, Here))
            \o Changes(Wanted(cfg, "tauy_bot") /\ Wanted(cfg, "Ray_v"), box, "tauy_bot", At({"v", "Ray_v"}, Here))
            \o stokes(DoStokesMixing(cfg)) \o stokes(On(cfg, "fpmix"))
    BY Zenon DEF meridional_vertvisc
  <1> HIDE DEF stokes, solve, drag, box
  <1> QED BY <1>2, <1>3, <1>4, <1>5, <1>6, <1>7, <1>8, <1>9, Then DEF box

\* vertvisc_tr with any options.
LEMMA FrictionFits ==
    ASSUME NEW W, NEW S, NEW cfg, StepWrites(cfg, W), FrictionScratch \subseteq S
    PROVE  AllFit(vertvisc_tr(cfg), W, S)
  <1>1. AllFit(<<Scratch(bxU(cfg), {"surface_stress_u", "c1U"}), Scratch(bxV(cfg), {"surface_stress_v", "c1V"})>>, W, S)
    BY TwoSteps, ScratchFits DEF FrictionScratch
  <1>2. AllFit(vertvisc_limit_vel(cfg), W, S)
    BY LimitFits DEF StepWrites
  <1> QED BY <1>1, <1>2, ZonalStepFits, MeridionalStepFits, Then DEF vertvisc_tr

-----------------------------------------------------------------------------
\* The kernel of a call

ScratchOf(c) ==
    CASE c.kernel \in ContinuityKernels -> ContinuityScratch
      [] c.kernel = "coradcalc_tr" -> CoriolisScratch
      [] c.kernel = "horizontal_viscosity_tr" -> HorViscScratchArrays
      [] c.kernel = "hor_visc_gme_bt" -> {"htot"}
      [] c.kernel \in SmoothingKernels -> {"f_prev", "f_orig"}
      [] c.kernel \in FrictionKernels -> FrictionScratch
      [] OTHER -> {}

\* Options without which the coupling coefficients write an array that is not there
CouplingGiven(c) ==
    c.kernel = "vertvisc_coef_tr" =>
        /\ BothDirections(c.cfg)
        /\ On(c.cfg, "use_GL90_in_SSW") => GL90Coupling \subseteq c.cfg.given

\* Every kernel is made of steps that do not race, and writes its outputs and its
\* scratch arrays only. Of the host's arrays it changes its results and nothing else.
LEMMA KernelFits ==
    ASSUME NEW c, CallOK(c), CouplingGiven(c)
    PROVE  AllFit(KernelOf(c), Outputs(c) \cup ScratchOf(c), ScratchOf(c))
  <1> DEFINE S == ScratchOf(c)
             W == Outputs(c) \cup S
  <1> SUFFICES AllFit(KernelOf(c), W, S)
    OBVIOUS
  <1>1. S \subseteq W
    OBVIOUS
  <1>2. c.kernel \in Kernels
    BY DEF CallOK
  <1>3. CASE c.kernel = "continuity_PPM"
    <2>1. S = ContinuityScratch
      BY <1>3 DEF ScratchOf, ContinuityKernels, SmoothingKernels, FrictionKernels
    <2>2. Results(c) = {"h", "uh", "vh"} \cup (c.cfg.given \cap OptionalOutputs)
      BY <1>3 DEF Results
    <2>3. {"uh", "vh", "h"} \subseteq W /\ c.cfg.given \cap OptionalOutputs \subseteq W
      BY <2>2 DEF Outputs
    <2>4. KernelOf(c) = continuity_PPM(c.cfg, c.x_first)
      BY <1>3 DEF KernelOf
    <2> HIDE DEF S, W
    <2> QED BY <1>1, <2>1, <2>3, <2>4, SweepsFit
  <1>4. CASE c.kernel = "continuity_PPM_2d_fluxes"
    <2>1. S = ContinuityScratch
      BY <1>4 DEF ScratchOf, ContinuityKernels, SmoothingKernels, FrictionKernels
    <2>2. {"uhbt", "vhbt"} \subseteq W
      BY <1>4 DEF Outputs, Results
    <2>3. KernelOf(c) = continuity_PPM_2d_fluxes(c.cfg)
      BY <1>4 DEF KernelOf
    <2> HIDE DEF S, W
    <2> QED BY <1>1, <2>1, <2>2, <2>3, BTFluxesFit
  <1>5. CASE c.kernel = "coradcalc_tr"
    <2>1. S = CoriolisScratch
      BY <1>5 DEF ScratchOf, ContinuityKernels, SmoothingKernels, FrictionKernels
    <2>2. {"CAu", "CAv"} \subseteq W /\ c.cfg.given \subseteq W
      BY <1>5 DEF Outputs, Results
    <2>3. KernelOf(c) = coradcalc_tr(c.cfg)
      BY <1>5 DEF KernelOf
    <2>4. c.cfg.scheme \in CoriolisSchemes
      BY <1>5 DEF CallOK, ContinuityKernels, SmoothingKernels, FrictionKernels, HorViscKernels
    <2> HIDE DEF S, W
    <2> QED BY <1>1, <2>1, <2>2, <2>3, <2>4, CoriolisFits
  <1>6. CASE c.kernel = "horizontal_viscosity_tr"
    <2>1. S = HorViscScratchArrays
      BY <1>6 DEF ScratchOf, ContinuityKernels, SmoothingKernels, FrictionKernels
    <2>2. Results(c) = {"diffu", "diffv"} \cup c.cfg.given \cup UsedInside(c.cfg)
                       \cup (c.cfg.on \cap {"MEKE_mom_src", "MEKE_mom_src_bh"})
                       \cup When(On(c.cfg, "EY24_EBT_BS"), LimitsAtH \cup LimitsAtQ)
      BY <1>6 DEF Results
    <2>3. Updated(c) = When(On(c.cfg, "skeb_use_frict"), {"skeb_diss"})
      BY <1>6 DEF Updated
    <2>4. HorViscWrites(c.cfg, W)
      BY <2>1, <2>2, <2>3 DEF HorViscWrites, Outputs, When
    <2>5. KernelOf(c) = horizontal_viscosity_tr(c.cfg)
      BY <1>6 DEF KernelOf
    <2> HIDE DEF S, W
    <2> QED BY <2>1, <2>4, <2>5, HorViscFits
  <1>7. CASE c.kernel = "hor_visc_gme_bt"
    <2>1. S = {"htot"}
      BY <1>7 DEF ScratchOf, ContinuityKernels, SmoothingKernels, FrictionKernels
    <2>2. {"dudx_bt", "dvdy_bt", "dvdx_bt", "dudy_bt", "sh_xx_bt", "sh_xy_bt", "GME_effic_h", "GME_effic_q"} \subseteq W
      BY <1>7 DEF Outputs, Results
    <2>3. KernelOf(c) = hor_visc_gme_bt(c.cfg)
      BY <1>7 DEF KernelOf
    <2>4. "htot" \in W \cap S
      BY <1>1, <2>1
    <2> HIDE DEF S, W
    <2> QED BY <2>2, <2>3, <2>4, BarotropicStrainFits
  <1>8. CASE c.kernel \in SmoothingKernels
    <2>1. S = {"f_prev", "f_orig"}
      BY <1>8 DEF ScratchOf, ContinuityKernels, SmoothingKernels, FrictionKernels
    <2>2. /\ c.kernel = "smooth_x9_h" => "field_h" \in W
          /\ c.kernel = "smooth_x9_uv" => {"field_u", "field_v"} \subseteq W
          /\ c.kernel = "smooth_gme_h_pass" => "GME_flux_h" \in W
          /\ c.kernel = "smooth_gme_q_pass" => "GME_flux_q" \in W
      BY DEF Outputs, Updated
    <2>3. /\ c.kernel = "smooth_x9_h" => KernelOf(c) = smooth_x9_h(c.cfg)
          /\ c.kernel = "smooth_x9_uv" => KernelOf(c) = smooth_x9_uv(c.cfg)
          /\ c.kernel = "smooth_gme_h_pass" => KernelOf(c) = smooth_gme_h_pass(c.cfg)
          /\ c.kernel = "smooth_gme_q_pass" => KernelOf(c) = smooth_gme_q_pass(c.cfg)
      BY DEF KernelOf
    <2> HIDE DEF S, W
    <2> QED BY <1>1, <1>8, <2>1, <2>2, <2>3, SmoothingFits DEF SmoothingKernels
  <1>9. CASE c.kernel \in FrictionKernels
    <2>1. S = FrictionScratch
      BY <1>9 DEF ScratchOf, ContinuityKernels, SmoothingKernels, FrictionKernels
    <2>2. CASE c.kernel = "vertvisc_limit_vel"
      <3>1. LimitWrites(c.cfg, W)
        BY <2>2 DEF LimitWrites, Outputs, Results, Updated, Reports, When
      <3>2. KernelOf(c) = vertvisc_limit_vel(c.cfg)
        BY <2>2 DEF KernelOf
      <3> HIDE DEF S, W
      <3> QED BY <3>1, <3>2, LimitFits
    <2>3. CASE c.kernel = "vertvisc_remnant_tr"
      <3>1. {"visc_rem_u", "visc_rem_v"} \subseteq W
        BY <2>3 DEF Outputs, Results
      <3>2. KernelOf(c) = vertvisc_remnant_tr(c.cfg)
        BY <2>3 DEF KernelOf
      <3> HIDE DEF S, W
      <3> QED BY <1>1, <2>1, <3>1, <3>2, RemnantFits
    <2>4. CASE c.kernel = "vertfpmix_tr"
      <3>1. {"u", "v", "uE_u", "vE_v", "uInc_u", "vInc_v"} \subseteq W
        BY <2>4 DEF Outputs, Results, Updated
      <3>2. KernelOf(c) = vertfpmix_tr(c.cfg)
        BY <2>4 DEF KernelOf
      <3> HIDE DEF S, W
      <3> QED BY <3>1, <3>2, MixingFits
    <2>5. CASE c.kernel = "vertvisc_coef_tr"
      <3>1. Results(c) = {"a_u", "h_u", "a_v", "h_v"} \cup GivenOf(c.cfg, GL90Coupling \cup CoefOutputs)
                         \cup When(Wanted(c.cfg, "frac_shelf_u"), ShelfCoupling)
        BY <2>5 DEF Results
      <3>2. Wanted(c.cfg, "frac_shelf_u") <=> Wanted(c.cfg, "frac_shelf_v")
        BY <2>5 DEF CouplingGiven, BothDirections
      <3>3. On(c.cfg, "use_GL90_in_SSW") => GL90Coupling \subseteq c.cfg.given
        BY <2>5 DEF CouplingGiven
      <3>4. CoefWrites(c.cfg, W)
        BY <2>1, <3>1, <3>2, <3>3 DEF CoefWrites, Outputs, GivenOf, When
      <3>5. KernelOf(c) = vertvisc_coef_tr(c.cfg)
        BY <2>5 DEF KernelOf
      <3> HIDE DEF S, W
      <3> QED BY <2>1, <3>4, <3>5, CoefFits
    <2>6. CASE c.kernel = "vertvisc_tr"
      <3>1. LimitWrites(c.cfg, W)
        BY <2>6 DEF LimitWrites, Outputs, Results, Updated, Reports, When
      <3>2. Results(c) = Reports(c) \cup GivenOf(c.cfg, TendencyOutputs \cup StressOutputs)
                         \cup When(On(c.cfg, "do_GLwork"), WorkOutputs)
        BY <2>6 DEF Results
      <3>3. StepWrites(c.cfg, W)
        BY <2>1, <3>1, <3>2 DEF StepWrites, LimitWrites, Outputs, GivenOf, When
      <3>4. KernelOf(c) = vertvisc_tr(c.cfg)
        BY <2>6 DEF KernelOf
      <3> HIDE DEF S, W
      <3> QED BY <2>1, <3>3, <3>4, FrictionFits
    <2> QED BY <1>9, <2>2, <2>3, <2>4, <2>5, <2>6 DEF FrictionKernels
  <1>10. CASE c.kernel = "thickness_to_dz_3d"
    <2>1. "dz" \in W
      BY <1>10 DEF Outputs, Results
    <2>2. KernelOf(c) = thickness_to_dz_3d(c.cfg)
      BY <1>10 DEF KernelOf
    <2> HIDE DEF S, W
    <2> QED BY <2>1, <2>2, DistanceFits
  <1> HIDE DEF S, W
  <1> QED BY <1>2, <1>3, <1>4, <1>5, <1>6, <1>7, <1>8, <1>9, <1>10 DEF Kernels, ContinuityKernels, HorViscKernels

-----------------------------------------------------------------------------
\* What a bridge passes

\* No bridge passes an array by the name of one of the kernel's scratch arrays.
LEMMA ScratchApart ==
    ASSUME NEW c, CallOK(c)
    PROVE  ScratchOf(c) \cap Passed(c) = {}
  <1>1. c.kernel \in Kernels
    BY DEF CallOK
  <1>2. CASE c.kernel = "continuity_PPM"
    <2>1. ScratchOf(c) = ContinuityScratch
      BY <1>2 DEF ScratchOf, ContinuityKernels, SmoothingKernels, FrictionKernels
    <2>2. Passed(c) = continuity_ppm_passed(c.cfg)
      BY <1>2 DEF Passed
    <2>3. c.cfg.given \subseteq OptionalInputs \cup OptionalOutputs
      BY <1>2 DEF CallOK, ContinuityKernels, FrictionKernels
    <2> QED BY <2>1, <2>2, <2>3 DEF ContinuityScratch, continuity_ppm_passed, OptionalInputs, OptionalOutputs
  <1>3. CASE c.kernel = "continuity_PPM_2d_fluxes"
    <2>1. ScratchOf(c) = ContinuityScratch
      BY <1>3 DEF ScratchOf, ContinuityKernels, SmoothingKernels, FrictionKernels
    <2>2. Passed(c) = continuity_ppm_2d_fluxes_passed
      BY <1>3 DEF Passed
    <2> QED BY <2>1, <2>2 DEF ContinuityScratch, continuity_ppm_2d_fluxes_passed
  <1>4. CASE c.kernel = "coradcalc_tr"
    <2>1. ScratchOf(c) = CoriolisScratch
      BY <1>4 DEF ScratchOf, ContinuityKernels, SmoothingKernels, FrictionKernels
    <2>2. Passed(c) = coradcalc_tr_passed(c.cfg)
      BY <1>4 DEF Passed
    <2>3. c.cfg.given \subseteq Diagnostics
      BY <1>4 DEF CallOK, ContinuityKernels, FrictionKernels
    <2> QED BY <2>1, <2>2, <2>3 DEF CoriolisScratch, coradcalc_tr_passed, Diagnostics, Metrics
  <1>5. CASE c.kernel = "horizontal_viscosity_tr"
    <2>1. ScratchOf(c) = HorViscScratchArrays
      BY <1>5 DEF ScratchOf, ContinuityKernels, SmoothingKernels, FrictionKernels
    <2>2. Passed(c) = horizontal_viscosity_tr_passed(c.cfg)
      BY <1>5 DEF Passed
    <2>3. \A a \in {"u", "v", "h", "uh", "vh", "diffu", "diffv", "u_smooth", "v_smooth"} \cup Metrics :
             a \notin HorViscScratchArrays
      BY DEF HorViscScratchArrays, Metrics
    <2>4. \A a \in GMEFields \cup GMEStresses : a \notin HorViscScratchArrays
      BY DEF HorViscScratchArrays, GMEFields, GMEStresses
    <2>5. \A a \in HorViscDiagnostics : a \notin HorViscScratchArrays
      BY DEF HorViscScratchArrays, HorViscDiagnostics, HDiagnostics, QDiagnostics, LimitsAtH, LimitsAtQ
    <2>6. \A a \in {"hu_cont", "hv_cont", "skeb_diss"} \cup MixingFields : a \notin HorViscScratchArrays
      BY DEF HorViscScratchArrays, MixingFields
    <2>7. horizontal_viscosity_tr_optional(c.cfg) \subseteq {"hu_cont", "hv_cont", "skeb_diss"} \cup MixingFields
      BY DEF horizontal_viscosity_tr_optional, When
    <2> QED BY <2>1, <2>2, <2>3, <2>4, <2>5, <2>6, <2>7 DEF horizontal_viscosity_tr_passed
  <1>6. CASE c.kernel = "hor_visc_gme_bt"
    <2>1. ScratchOf(c) = {"htot"}
      BY <1>6 DEF ScratchOf, ContinuityKernels, SmoothingKernels, FrictionKernels
    <2>2. Passed(c) = hor_visc_gme_bt_passed
      BY <1>6 DEF Passed
    <2> QED BY <2>1, <2>2 DEF hor_visc_gme_bt_passed, hor_visc_gme_bt_returned, Metrics
  <1>7. CASE c.kernel \in SmoothingKernels
    <2>1. ScratchOf(c) = {"f_prev", "f_orig"}
      BY <1>7 DEF ScratchOf, ContinuityKernels, SmoothingKernels, FrictionKernels
    <2>2. /\ c.kernel = "smooth_x9_h" => Passed(c) = smooth_x9_h_passed
          /\ c.kernel = "smooth_x9_uv" => Passed(c) = smooth_x9_uv_passed
          /\ c.kernel = "smooth_gme_h_pass" => Passed(c) = smooth_gme_h_pass_passed
          /\ c.kernel = "smooth_gme_q_pass" => Passed(c) = smooth_gme_q_pass_passed
      BY DEF Passed
    <2> QED BY <1>7, <2>1, <2>2 DEF SmoothingKernels, smooth_x9_h_passed, smooth_x9_uv_passed,
               smooth_gme_h_pass_passed, smooth_gme_q_pass_passed
  <1>8. CASE c.kernel \in FrictionKernels
    <2>1. ScratchOf(c) = FrictionScratch
      BY <1>8 DEF ScratchOf, ContinuityKernels, SmoothingKernels, FrictionKernels
    <2> DEFINE Optional == VertFricInputs \cup VelocityReports \cup TendencyOutputs \cup StressOutputs
                           \cup WorkOutputs \cup ShelfCoupling \cup GL90Coupling \cup CoefOutputs
    <2>2. c.cfg.given \subseteq Optional
      BY <1>8 DEF CallOK, ContinuityKernels, FrictionKernels
    <2>3. \A a \in Optional : a \notin FrictionScratch
      <3>1. \A a \in VertFricInputs : a \notin FrictionScratch
        BY DEF FrictionScratch, CoefScratch, VertFricInputs
      <3>2. \A a \in VelocityReports \cup TendencyOutputs \cup StressOutputs : a \notin FrictionScratch
        BY DEF FrictionScratch, CoefScratch, VelocityReports, TendencyOutputs, StressOutputs
      <3>3. \A a \in WorkOutputs \cup ShelfCoupling \cup GL90Coupling \cup CoefOutputs : a \notin FrictionScratch
        BY DEF FrictionScratch, CoefScratch, WorkOutputs, ShelfCoupling, GL90Coupling, CoefOutputs
      <3> QED BY <3>1, <3>2, <3>3
    <2> DEFINE Always == {"u", "v", "h", "dz", "cell", "corner", "face_u", "face_v", "h_u", "h_v", "a_u", "a_v",
                          "visc_rem_u", "visc_rem_v", "hbl_h", "taux", "tauy", "Us_x", "Us_y",
                          "uE_u", "vE_v", "uInc_u", "vInc_v"}
    <2>4. \A a \in Always : a \notin FrictionScratch
      BY DEF FrictionScratch, CoefScratch
    <2>5. Passed(c) \subseteq Always \cup c.cfg.given
      <3>1. /\ c.kernel = "vertvisc_limit_vel" => Passed(c) = vertvisc_limit_vel_passed(c.cfg)
            /\ c.kernel = "vertvisc_remnant_tr" => Passed(c) = vertvisc_remnant_tr_passed(c.cfg)
            /\ c.kernel = "vertfpmix_tr" => Passed(c) = vertfpmix_tr_passed
            /\ c.kernel = "vertvisc_coef_tr" => Passed(c) = vertvisc_coef_tr_passed(c.cfg)
            /\ c.kernel = "vertvisc_tr" => Passed(c) = vertvisc_tr_passed(c.cfg)
        BY DEF Passed
      <3> QED BY <1>8, <3>1 DEF FrictionKernels, vertvisc_limit_vel_passed, vertvisc_remnant_tr_passed,
                 vertfpmix_tr_passed, vertfpmix_tr_returned, vertvisc_coef_tr_passed, vertvisc_tr_passed
    <2> HIDE DEF Optional, Always
    <2> QED BY <2>1, <2>2, <2>3, <2>4, <2>5
  <1>9. CASE c.kernel = "thickness_to_dz_3d"
    <2>1. ScratchOf(c) = {}
      BY <1>9 DEF ScratchOf, ContinuityKernels, SmoothingKernels, FrictionKernels
    <2> QED BY <2>1
  <1> QED BY <1>1, <1>2, <1>3, <1>4, <1>5, <1>6, <1>7, <1>8, <1>9 DEF Kernels, ContinuityKernels, HorViscKernels

\* A bridge copies back only arrays that it has copied in.
LEMMA ReturnedPassed ==
    ASSUME NEW c, CallOK(c)
    PROVE  Returned(c) \subseteq Passed(c)
  <1>1. c.kernel \in Kernels
    BY DEF CallOK
  <1>2. CASE c.kernel = "continuity_PPM"
    <2>1. c.cfg.given \subseteq OptionalInputs \cup OptionalOutputs
      BY <1>2 DEF CallOK, ContinuityKernels, FrictionKernels
    <2>2. Passed(c) = continuity_ppm_passed(c.cfg) /\ Returned(c) = continuity_ppm_returned(c.cfg)
      BY <1>2 DEF Passed, Returned
    <2> QED BY <2>1, <2>2 DEF continuity_ppm_passed, continuity_ppm_returned, GivenOf
  <1>3. CASE c.kernel \in {"continuity_PPM_2d_fluxes", "coradcalc_tr", "hor_visc_gme_bt", "thickness_to_dz_3d"}
    <2>1. /\ c.kernel = "continuity_PPM_2d_fluxes" =>
                Passed(c) = continuity_ppm_2d_fluxes_passed /\ Returned(c) = continuity_ppm_2d_fluxes_returned
          /\ c.kernel = "coradcalc_tr" =>
                Passed(c) = coradcalc_tr_passed(c.cfg) /\ Returned(c) = coradcalc_tr_returned(c.cfg)
          /\ c.kernel = "hor_visc_gme_bt" =>
                Passed(c) = hor_visc_gme_bt_passed /\ Returned(c) = hor_visc_gme_bt_returned
          /\ c.kernel = "thickness_to_dz_3d" =>
                Passed(c) = thickness_to_dz_3d_passed /\ Returned(c) = thickness_to_dz_3d_returned
      BY DEF Passed, Returned
    <2> QED BY <1>3, <2>1 DEF continuity_ppm_2d_fluxes_passed, continuity_ppm_2d_fluxes_returned,
               coradcalc_tr_passed, coradcalc_tr_returned, hor_visc_gme_bt_passed,
               thickness_to_dz_3d_passed, thickness_to_dz_3d_returned
  <1>4. CASE c.kernel = "horizontal_viscosity_tr"
    <2>1. Passed(c) = horizontal_viscosity_tr_passed(c.cfg) /\ Returned(c) = horizontal_viscosity_tr_returned(c.cfg)
      BY <1>4 DEF Passed, Returned
    <2> QED BY <2>1 DEF horizontal_viscosity_tr_passed, horizontal_viscosity_tr_returned
  <1>5. CASE c.kernel \in SmoothingKernels
    <2>1. /\ c.kernel = "smooth_x9_h" => Passed(c) = smooth_x9_h_passed /\ Returned(c) = smooth_x9_h_returned
          /\ c.kernel = "smooth_x9_uv" => Passed(c) = smooth_x9_uv_passed /\ Returned(c) = smooth_x9_uv_returned
          /\ c.kernel = "smooth_gme_h_pass" =>
                Passed(c) = smooth_gme_h_pass_passed /\ Returned(c) = smooth_gme_h_pass_returned
          /\ c.kernel = "smooth_gme_q_pass" =>
                Passed(c) = smooth_gme_q_pass_passed /\ Returned(c) = smooth_gme_q_pass_returned
      BY DEF Passed, Returned
    <2> QED BY <1>5, <2>1 DEF SmoothingKernels, smooth_x9_h_passed, smooth_x9_uv_passed,
               smooth_gme_h_pass_passed, smooth_gme_q_pass_passed, smooth_x9_h_returned, smooth_x9_uv_returned,
               smooth_gme_h_pass_returned, smooth_gme_q_pass_returned
  <1>6. CASE c.kernel \in FrictionKernels
    <2>1. /\ c.kernel = "vertvisc_limit_vel" =>
                Passed(c) = vertvisc_limit_vel_passed(c.cfg) /\ Returned(c) = vertvisc_limit_vel_returned(c.cfg)
          /\ c.kernel = "vertvisc_remnant_tr" =>
                Passed(c) = vertvisc_remnant_tr_passed(c.cfg) /\ Returned(c) = vertvisc_remnant_tr_returned
          /\ c.kernel = "vertfpmix_tr" => Passed(c) = vertfpmix_tr_passed /\ Returned(c) = vertfpmix_tr_returned
          /\ c.kernel = "vertvisc_coef_tr" =>
                Passed(c) = vertvisc_coef_tr_passed(c.cfg) /\ Returned(c) = vertvisc_coef_tr_returned(c.cfg)
          /\ c.kernel = "vertvisc_tr" =>
                Passed(c) = vertvisc_tr_passed(c.cfg) /\ Returned(c) = vertvisc_tr_returned(c.cfg)
      BY DEF Passed, Returned
    <2> QED BY <1>6, <2>1 DEF FrictionKernels, vertvisc_limit_vel_passed, vertvisc_remnant_tr_passed,
               vertfpmix_tr_passed, vertvisc_coef_tr_passed, vertvisc_tr_passed, vertvisc_limit_vel_returned,
               vertvisc_remnant_tr_returned, vertvisc_coef_tr_returned, vertvisc_tr_returned, GivenOf
  <1> QED BY <1>1, <1>2, <1>3, <1>4, <1>5, <1>6 DEF Kernels, ContinuityKernels, HorViscKernels

-----------------------------------------------------------------------------
\* The transposed call

AllPairs == Pairs \cup OptionPairs
Paired == {p[1] : p \in AllPairs} \cup {p[2] : p \in AllPairs}

\* Pairs are pairs.
LEMMA PairsArePairs == \A p \in AllPairs : p = <<p[1], p[2]>>
  BY DEF AllPairs, Pairs, FrictionPairs, OptionPairs

\* An array without a partner plays its own part; any other is exchanged for its partner.
LEMMA PartnerOf ==
    ASSUME NEW a
    PROVE  \/ a \notin Paired /\ Partner(a) = a
           \/ <<a, Partner(a)>> \in AllPairs
           \/ <<Partner(a), a>> \in AllPairs
  <1> DEFINE of(b) == {<<a, b>>, <<b, a>>} \cap AllPairs # {}
  <1>1. Partner(a) = IF a \in Paired THEN CHOOSE b \in Paired : of(b) ELSE a
    BY DEF Partner, AllPairs, Paired
  <1>2. CASE a \in Paired
    <2>1. PICK p \in AllPairs : a = p[1] \/ a = p[2]
      BY <1>2 DEF Paired
    <2>2. p = <<p[1], p[2]>> /\ p[1] \in Paired /\ p[2] \in Paired
      BY PairsArePairs DEF Paired
    <2>3. \E b \in Paired : of(b)
      <3>1. CASE a = p[1]
        <4>1. of(p[2])
          BY <2>2, <3>1
        <4> QED BY <2>2, <4>1
      <3>2. CASE a = p[2]
        <4>1. of(p[1])
          BY <2>2, <3>2
        <4> QED BY <2>2, <4>1
      <3> QED BY <2>1, <3>1, <3>2
    <2> DEFINE b0 == CHOOSE b \in Paired : of(b)
    <2>4. of(b0)
      BY <2>3
    <2>5. Partner(a) = b0
      BY <1>1, <1>2
    <2> QED BY <2>4, <2>5
  <1>3. CASE a \notin Paired
    BY <1>1, <1>3
  <1> QED BY <1>2, <1>3

\* A set that has both members of a pair or neither
Closed(D) == \A p \in AllPairs : p[1] \in D <=> p[2] \in D

\* Partners of arrays of a closed set are in it.
LEMMA PartnerStays ==
    ASSUME NEW D, Closed(D), NEW A, A \subseteq D
    PROVE  {Partner(a) : a \in A} \subseteq D
  <1> SUFFICES ASSUME NEW a \in A PROVE Partner(a) \in D
    OBVIOUS
  <1> DEFINE b == Partner(a)
  <1>1. CASE <<a, b>> \in AllPairs
    <2> DEFINE p == <<a, b>>
    <2>1. p \in AllPairs /\ p[1] = a /\ p[2] = b
      BY <1>1
    <2> HIDE DEF p, b
    <2>2. b \in D
      BY <2>1 DEF Closed
    <2> QED BY <2>2 DEF b
  <1>2. CASE <<b, a>> \in AllPairs
    <2> DEFINE p == <<b, a>>
    <2>1. p \in AllPairs /\ p[1] = b /\ p[2] = a
      BY <1>2
    <2> HIDE DEF p, b
    <2>2. b \in D
      BY <2>1 DEF Closed
    <2> QED BY <2>2 DEF b
  <1> QED BY <1>1, <1>2, PartnerOf

FrictionGiven ==
    VertFricInputs \cup VelocityReports \cup TendencyOutputs \cup StressOutputs
    \cup WorkOutputs \cup ShelfCoupling \cup GL90Coupling \cup CoefOutputs

\* The arrays and options that calls may be given: both directions or neither.
LEMMA ClosedSets ==
    /\ Closed(OptionalInputs \cup OptionalOutputs)
    /\ Closed(Diagnostics)
    /\ Closed(HorViscSwitches \cup MixingFields)
    /\ Closed(HDiagnostics \cup QDiagnostics)
    /\ Closed(VertFricSwitches)
    /\ Closed(FrictionGiven)
  <1>1. Closed(OptionalInputs \cup OptionalOutputs)
    BY DEF Closed, AllPairs, Pairs, FrictionPairs, OptionPairs, OptionalInputs, OptionalOutputs
  <1>2. Closed(Diagnostics)
    BY DEF Closed, AllPairs, Pairs, FrictionPairs, OptionPairs, Diagnostics
  <1>3. Closed(HorViscSwitches \cup MixingFields)
    BY DEF Closed, AllPairs, Pairs, FrictionPairs, OptionPairs, HorViscSwitches, MixingFields
  <1>4. Closed(HDiagnostics \cup QDiagnostics)
    BY DEF Closed, AllPairs, Pairs, FrictionPairs, OptionPairs, HDiagnostics, QDiagnostics
  <1>5. Closed(VertFricSwitches)
    BY DEF Closed, AllPairs, Pairs, FrictionPairs, OptionPairs, VertFricSwitches
  <1>6. Closed(FrictionGiven)
    BY DEF Closed, AllPairs, Pairs, FrictionPairs, OptionPairs, FrictionGiven, VertFricInputs, VelocityReports,
       TendencyOutputs, StressOutputs, WorkOutputs, ShelfCoupling, GL90Coupling, CoefOutputs
  <1> QED BY <1>1, <1>2, <1>3, <1>4, <1>5, <1>6

\* The arrays and the option of the coupling coefficients that a call needs together
LEMMA PartnersOfCoef ==
    /\ \A a : Partner(a) = "Us_x" <=> a = "Us_y"
    /\ \A a : Partner(a) = "Us_y" <=> a = "Us_x"
    /\ \A a : Partner(a) = "frac_shelf_u" <=> a = "frac_shelf_v"
    /\ \A a : Partner(a) = "frac_shelf_v" <=> a = "frac_shelf_u"
    /\ \A a : Partner(a) = "use_GL90_in_SSW" => a = "use_GL90_in_SSW"
    /\ Partner("a_u_gl90") = "a_v_gl90"
    /\ Partner("a_v_gl90") = "a_u_gl90"
  <1>1. \A a, b : (<<a, b>> \in AllPairs \/ <<b, a>> \in AllPairs) =>
             /\ b = "Us_x" <=> a = "Us_y"
             /\ b = "Us_y" <=> a = "Us_x"
             /\ b = "frac_shelf_u" <=> a = "frac_shelf_v"
             /\ b = "frac_shelf_v" <=> a = "frac_shelf_u"
             /\ b # "use_GL90_in_SSW"
             /\ a = "a_u_gl90" => b = "a_v_gl90"
             /\ a = "a_v_gl90" => b = "a_u_gl90"
    BY DEF AllPairs, Pairs, FrictionPairs, OptionPairs
  <1>2. {"Us_x", "Us_y", "frac_shelf_u", "frac_shelf_v", "a_u_gl90", "a_v_gl90"} \subseteq Paired
    <2>1. {<<"Us_x", "Us_y">>, <<"frac_shelf_u", "frac_shelf_v">>, <<"a_u_gl90", "a_v_gl90">>} \subseteq AllPairs
      BY DEF AllPairs, Pairs, FrictionPairs
    <2> QED BY <2>1 DEF Paired
  <1> QED BY <1>1, <1>2, PartnerOf

\* What the transposed call has in common with the call.
LEMMA MirroredFields ==
    ASSUME NEW c, CallOK(c)
    PROVE  LET m == Mirrored(c) IN
           /\ DOMAIN m = DOMAIN c
           /\ DOMAIN m.cfg = DOMAIN c.cfg
           /\ m.kernel = c.kernel
           /\ m.x_first \in BOOLEAN
           /\ m.cfg.given = {Partner(a) : a \in c.cfg.given}
           /\ m.cfg.on = {Partner(a) : a \in c.cfg.on}
           /\ m.cfg.halo = c.cfg.halo
           /\ m.cfg.symmetric = c.cfg.symmetric
           /\ \A k \in DOMAIN c.cfg \ {"given", "on"} : m.cfg[k] = c.cfg[k]
  <1>1. {"kernel", "x_first", "cfg"} \subseteq DOMAIN c /\ {"halo", "symmetric", "given", "on"} \subseteq DOMAIN c.cfg
    BY DEF CallOK
  <1>2. c.x_first \in BOOLEAN
    BY DEF CallOK
  <1> QED BY <1>1, <1>2 DEF Mirrored

-----------------------------------------------------------------------------

\* The transposed call is one the kernels take.
LEMMA MirroredOK ==
    ASSUME NEW c, CallOK(c), CouplingGiven(c)
    PROVE  CallOK(Mirrored(c)) /\ CouplingGiven(Mirrored(c))
  <1> DEFINE m == Mirrored(c)
             Plain == Kernels \ (ContinuityKernels \cup {"coradcalc_tr", "horizontal_viscosity_tr"} \cup FrictionKernels)
  <1>1. /\ DOMAIN m = DOMAIN c
        /\ DOMAIN m.cfg = DOMAIN c.cfg
        /\ m.kernel = c.kernel
        /\ m.x_first \in BOOLEAN
        /\ m.cfg.given = {Partner(a) : a \in c.cfg.given}
        /\ m.cfg.on = {Partner(a) : a \in c.cfg.on}
        /\ m.cfg.halo = c.cfg.halo
        /\ m.cfg.symmetric = c.cfg.symmetric
        /\ \A k \in DOMAIN c.cfg \ {"given", "on"} : m.cfg[k] = c.cfg[k]
    BY MirroredFields
  <1>2. /\ c.kernel \in Kernels
        /\ {"kernel", "x_first", "cfg"} \subseteq DOMAIN c
        /\ {"halo", "symmetric", "given", "on"} \subseteq DOMAIN c.cfg
        /\ c.cfg.halo \in Nat
        /\ c.cfg.symmetric \in BOOLEAN
    BY DEF CallOK
  <1> HIDE DEF m
  <1>3. /\ m.kernel \in Kernels
        /\ m.x_first \in BOOLEAN
        /\ {"kernel", "x_first", "cfg"} \subseteq DOMAIN m
        /\ {"halo", "symmetric", "given", "on"} \subseteq DOMAIN m.cfg
        /\ m.cfg.halo \in Nat
        /\ m.cfg.symmetric \in BOOLEAN
    BY <1>1, <1>2
  <1>4. CallOK(m)
    <2>1. CASE c.kernel \in ContinuityKernels
      <3>1. /\ {"scheme", "aggress", "stencil"} \subseteq DOMAIN c.cfg
            /\ c.cfg.scheme \in Schemes
            /\ c.cfg.given \subseteq OptionalInputs \cup OptionalOutputs
            /\ c.cfg.aggress \in BOOLEAN
            /\ c.cfg.stencil \in Nat
        BY <2>1 DEF CallOK, ContinuityKernels, FrictionKernels
      <3>2. m.cfg.scheme = c.cfg.scheme /\ m.cfg.aggress = c.cfg.aggress /\ m.cfg.stencil = c.cfg.stencil
        BY <1>1, <3>1
      <3>3. m.cfg.given \subseteq OptionalInputs \cup OptionalOutputs
        BY <1>1, <3>1, ClosedSets, PartnerStays
      <3> QED BY <1>1, <1>3, <2>1, <3>1, <3>2, <3>3 DEF CallOK, ContinuityKernels, FrictionKernels
    <2>2. CASE c.kernel = "coradcalc_tr"
      <3>1. /\ {"scheme", "up3", "En_Dis", "bound", "smooth"} \subseteq DOMAIN c.cfg
            /\ c.cfg.scheme \in CoriolisSchemes
            /\ c.cfg.given \subseteq Diagnostics
            /\ \A option \in {"up3", "En_Dis", "bound", "smooth"} : c.cfg[option] \in BOOLEAN
        BY <2>2 DEF CallOK, ContinuityKernels, FrictionKernels
      <3>2. \A k \in {"scheme", "up3", "En_Dis", "bound", "smooth"} : m.cfg[k] = c.cfg[k]
        BY <1>1, <3>1
      <3>3. m.cfg.given \subseteq Diagnostics
        BY <1>1, <3>1, ClosedSets, PartnerStays
      <3> QED BY <1>1, <1>3, <2>2, <3>1, <3>2, <3>3 DEF CallOK, ContinuityKernels, FrictionKernels
    <2>3. CASE c.kernel = "horizontal_viscosity_tr"
      <3>1. /\ c.cfg.on \subseteq HorViscSwitches \cup MixingFields
            /\ c.cfg.given \subseteq HDiagnostics \cup QDiagnostics
        BY <2>3 DEF CallOK, ContinuityKernels, FrictionKernels
      <3>2. m.cfg.on \subseteq HorViscSwitches \cup MixingFields
        BY <1>1, <3>1, ClosedSets, PartnerStays
      <3>3. m.cfg.given \subseteq HDiagnostics \cup QDiagnostics
        BY <1>1, <3>1, ClosedSets, PartnerStays
      <3> QED BY <1>1, <1>3, <2>3, <3>2, <3>3 DEF CallOK, ContinuityKernels, FrictionKernels
    <2>4. CASE c.kernel \in FrictionKernels
      <3>1. c.cfg.on \subseteq VertFricSwitches /\ c.cfg.given \subseteq FrictionGiven
        BY <2>4 DEF CallOK, ContinuityKernels, FrictionKernels, FrictionGiven
      <3>2. m.cfg.on \subseteq VertFricSwitches
        BY <1>1, <3>1, ClosedSets, PartnerStays
      <3>3. m.cfg.given \subseteq FrictionGiven
        BY <1>1, <3>1, ClosedSets, PartnerStays
      <3> QED BY <1>1, <1>3, <2>4, <3>2, <3>3 DEF CallOK, ContinuityKernels, FrictionKernels, FrictionGiven
    <2>5. CASE c.kernel \in Plain
      <3>1. c.cfg.given = {}
        BY <2>5 DEF CallOK, ContinuityKernels, FrictionKernels
      <3>2. m.cfg.given = {}
        BY <1>1, <3>1
      <3> QED BY <1>1, <1>3, <2>5, <3>2 DEF CallOK, ContinuityKernels, FrictionKernels
    <2> QED BY <1>2, <2>1, <2>2, <2>3, <2>4, <2>5
  <1>5. CouplingGiven(m)
    <2> SUFFICES ASSUME c.kernel = "vertvisc_coef_tr"
                 PROVE  /\ BothDirections(m.cfg)
                        /\ On(m.cfg, "use_GL90_in_SSW") => GL90Coupling \subseteq m.cfg.given
      BY <1>1 DEF CouplingGiven
    <2>1. BothDirections(c.cfg) /\ (On(c.cfg, "use_GL90_in_SSW") => GL90Coupling \subseteq c.cfg.given)
      BY DEF CouplingGiven
    <2>2. /\ ("Us_x" \in c.cfg.given) = ("Us_y" \in c.cfg.given)
          /\ ("frac_shelf_u" \in c.cfg.given) = ("frac_shelf_v" \in c.cfg.given)
      BY <2>1 DEF BothDirections, Wanted
    <2>3. /\ "Us_x" \in m.cfg.given <=> "Us_y" \in c.cfg.given
          /\ "Us_y" \in m.cfg.given <=> "Us_x" \in c.cfg.given
          /\ "frac_shelf_u" \in m.cfg.given <=> "frac_shelf_v" \in c.cfg.given
          /\ "frac_shelf_v" \in m.cfg.given <=> "frac_shelf_u" \in c.cfg.given
      BY <1>1, PartnersOfCoef
    <2>4. BothDirections(m.cfg)
      BY <2>2, <2>3 DEF BothDirections, Wanted
    <2>5. ASSUME On(m.cfg, "use_GL90_in_SSW") PROVE GL90Coupling \subseteq m.cfg.given
      <3>1. On(c.cfg, "use_GL90_in_SSW")
        BY <1>1, <2>5, PartnersOfCoef DEF On
      <3>2. "a_u_gl90" \in c.cfg.given /\ "a_v_gl90" \in c.cfg.given
        BY <2>1, <3>1 DEF GL90Coupling
      <3> QED BY <1>1, <3>2, PartnersOfCoef DEF GL90Coupling
    <2> QED BY <2>4, <2>5
  <1> QED BY <1>4, <1>5 DEF m

\* The options of a consistent call are there together.
LEMMA ConsistentReady ==
    ASSUME NEW c, Consistent(c)
    PROVE  CouplingGiven(c)
  BY DEF Consistent, CouplingGiven, CoefTogether

-----------------------------------------------------------------------------
\* The boxes of the caller's arrays

\* Growing a box gives a box.
LEMMA Grown ==
    ASSUME NEW box \in Margins
    PROVE  /\ \A m \in Int : GrowX(box, m) \in Margins /\ GrowY(box, m) \in Margins
           /\ GrowLoX(box) \in Margins
           /\ GrowLoY(box) \in Margins
  <1>1. ASSUME NEW g, g = [k \in DOMAIN g |-> g[k]], DOMAIN g = {"w", "e", "s", "n"},
               g.w \in Int, g.e \in Int, g.s \in Int, g.n \in Int
        PROVE  g \in Margins
    <2>1. g = [w |-> g.w, e |-> g.e, s |-> g.s, n |-> g.n]
      BY <1>1
    <2>2. [w |-> g.w, e |-> g.e, s |-> g.s, n |-> g.n] \in Margins
      BY <1>1 DEF Margins
    <2> QED BY <2>1, <2>2
  <1>2. box.w \in Int /\ box.e \in Int /\ box.s \in Int /\ box.n \in Int /\ DOMAIN box = {"w", "e", "s", "n"}
    BY DEF Margins
  <1>3. ASSUME NEW m \in Int PROVE GrowX(box, m) \in Margins
    <2> DEFINE g == GrowX(box, m)
    <2>1. g.w = box.w + m /\ g.e = box.e + m /\ g.s = box.s /\ g.n = box.n
      BY <1>2 DEF GrowX
    <2>2. DOMAIN g = {"w", "e", "s", "n"} /\ g = [k \in DOMAIN g |-> g[k]]
      BY <1>2 DEF GrowX
    <2> HIDE DEF g
    <2>3. g \in Margins
      BY <1>1, <1>2, <2>1, <2>2
    <2> QED BY <2>3 DEF g
  <1>4. ASSUME NEW m \in Int PROVE GrowY(box, m) \in Margins
    <2> DEFINE g == GrowY(box, m)
    <2>1. g.s = box.s + m /\ g.n = box.n + m /\ g.w = box.w /\ g.e = box.e
      BY <1>2 DEF GrowY
    <2>2. DOMAIN g = {"w", "e", "s", "n"} /\ g = [k \in DOMAIN g |-> g[k]]
      BY <1>2 DEF GrowY
    <2> HIDE DEF g
    <2>3. g \in Margins
      BY <1>1, <1>2, <2>1, <2>2
    <2> QED BY <2>3 DEF g
  <1>5. GrowLoX(box) \in Margins /\ GrowLoY(box) \in Margins
    BY DEF GrowLoX, GrowLoY, Margins
  <1> QED BY <1>3, <1>4, <1>5

\* The caller's arrays are allocated on boxes.
LEMMA AllocatedBox ==
    ASSUME NEW cfg, cfg.halo \in Nat, cfg.symmetric \in BOOLEAN, NEW a
    PROVE  Allocated(a, cfg) \in Margins
  <1>1. bx0 \in Margins
    BY DEF bx0, Margins
  <1>2. DataBox(cfg) \in Margins
    <2>1. GrowY(bx0, cfg.halo) \in Margins
      BY <1>1, Grown
    <2> QED BY <2>1, Grown DEF DataBox
  <1>3. UBox(cfg) \in Margins /\ VBox(cfg) \in Margins /\ CornerBox(cfg) \in Margins
    BY <1>2, Grown DEF UBox, VBox, CornerBox
  <1> QED BY <1>2, <1>3 DEF Allocated

-----------------------------------------------------------------------------
\* Layers

\* One of the layers covers all of a box
Covers(layers, box) == \E X : layers \in Seq(X) /\ \E k \in 1 .. Len(layers) : Within(box, layers[k].box)

\* What the caller hands over covers the allocation.
LEMMA InitialCovers ==
    ASSUME NEW box \in Margins, NEW a
    PROVE  Covers(Initial(a, box), box)
  <1> DEFINE layer == Layer(box, At({a}, Here))
             X == {layer}
  <1>1. layer.box = box
    BY DEF Layer
  <1>2. Within(box, box)
    BY DEF Within, Margins
  <1>3. layer \in X
    OBVIOUS
  <1>4. Initial(a, box) = <<layer>>
    BY DEF Initial
  <1> HIDE DEF layer, X
  <1>5. <<layer>> \in Seq(X) /\ 1 \in 1 .. Len(<<layer>>) /\ <<layer>>[1] = layer
    BY <1>3
  <1> QED BY <1>1, <1>2, <1>4, <1>5 DEF Covers

\* What a loop writes takes nothing away: where it did not write, the older value shows.
LEMMA PushCovers ==
    ASSUME NEW layers, NEW box, Covers(layers, box), NEW layer
    PROVE  Covers(<<layer>> \o layers, box)
  <1>1. PICK X : layers \in Seq(X) /\ \E k \in 1 .. Len(layers) : Within(box, layers[k].box)
    BY DEF Covers
  <1>2. PICK k \in 1 .. Len(layers) : Within(box, layers[k].box)
    BY <1>1
  <1> DEFINE Y == X \cup {layer}
             more == <<layer>> \o layers
  <1>3. layers \in Seq(Y) /\ <<layer>> \in Seq(Y)
    BY <1>1
  <1>4. more \in Seq(Y) /\ k + 1 \in 1 .. Len(more) /\ more[k + 1] = layers[k]
    BY <1>3
  <1> HIDE DEF Y, more
  <1>5. Covers(more, box)
    BY <1>2, <1>4 DEF Covers
  <1> QED BY <1>5 DEF more

\* An array that is covered holds a value in every cell.
LEMMA CoversSets ==
    ASSUME NEW M, NEW a, NEW box, Covers(M.content[a], box)
    PROVE  IsSet(M, a, box)
  <1>1. PICK X : M.content[a] \in Seq(X)
    BY DEF Covers
  <1>2. DOMAIN M.content[a] = 1 .. Len(M.content[a])
    BY <1>1
  <1> QED BY <1>2 DEF Covers, IsSet

-----------------------------------------------------------------------------
\* A call on its way

\* What the steps of a call may write
MayWrite(c) == Outputs(c) \cup ScratchOf(c)

\* An array as the host will find it: a value in every cell, and the caller's own
\* when the array is no result
AsHost(c, a, layers) ==
    /\ Covers(layers, Allocated(a, c.cfg))
    /\ a \notin Outputs(c) => layers = OnHost(a, c)

\* The arrays of the device while the kernel runs
OnDevice(c, M) ==
    /\ "content" \in DOMAIN M
    /\ Passed(c) \subseteq DOMAIN M.content
    /\ \A a \in Passed(c) : AsHost(c, a, M.content[a])

\* Nothing done yet; copied in, with steps of the kernel left; or all copied back
Underway(c, steps, M, back) ==
    \/ steps = Program(c) /\ M = InitialMemory(c)
    \/ OnDevice(c, M) /\ \E k : steps = k \o <<Copying("copy_back")>> /\ AllFit(k, MayWrite(c), ScratchOf(c))
    \/ /\ steps = <<>>
       /\ DOMAIN back = Returned(c)
       /\ \A a \in Returned(c) : AsHost(c, a, back[a])

CallInv ==
    /\ DOMAIN call = Sides /\ DOMAIN todo = Sides /\ DOMAIN mem = Sides /\ DOMAIN returned = Sides
    /\ \A s \in Sides :
          /\ CallOK(call[s])
          /\ CouplingGiven(call[s])
          /\ Underway(call[s], todo[s], mem[s], returned[s])

\* Steps that fit are a sequence of such steps.
LEMMA SomeSeq ==
    ASSUME NEW W, NEW S, NEW k, AllFit(k, W, S)
    PROVE  \E X : k \in Seq(X) /\ \A x \in X : Fits(x, W, S)
  BY DEF AllFit

\* The first step of a program is to copy in, and leaves the kernel and the copying back
LEMMA ProgramSteps ==
    ASSUME NEW c, CallOK(c), CouplingGiven(c)
    PROVE  /\ Program(c) # <<>>
           /\ Head(Program(c)) = Copying("copy_in")
           /\ Tail(Program(c)) = KernelOf(c) \o <<Copying("copy_back")>>
  <1>1. AllFit(KernelOf(c), MayWrite(c), ScratchOf(c))
    BY KernelFits DEF MayWrite
  <1>2. PICK X : KernelOf(c) \in Seq(X)
    BY <1>1, SomeSeq
  <1> DEFINE in == Copying("copy_in")
             out == Copying("copy_back")
             kernel == KernelOf(c)
             Y == X \cup {in, out}
  <1>3. kernel \in Seq(Y) /\ in \in Y /\ out \in Y
    BY <1>2
  <1>4. Program(c) = <<in>> \o kernel \o <<out>>
    BY DEF Program
  <1> HIDE DEF in, out, kernel, Y
  <1>5. <<in>> \in Seq(Y) /\ <<out>> \in Seq(Y) /\ kernel \o <<out>> \in Seq(Y)
    BY <1>3
  <1>6. <<in>> \o kernel \o <<out>> = <<in>> \o (kernel \o <<out>>)
    BY <1>3, <1>5
  <1> DEFINE rest == kernel \o <<out>>
  <1>7. rest \in Seq(Y)
    BY <1>5
  <1> HIDE DEF rest
  <1>8. <<in>> \o rest # <<>> /\ Head(<<in>> \o rest) = in /\ Tail(<<in>> \o rest) = rest
    BY <1>3, <1>7
  <1> QED BY <1>4, <1>6, <1>8 DEF in, out, kernel, rest

\* The next step of a kernel under way
LEMMA KernelSteps ==
    ASSUME NEW W, NEW S, NEW k, AllFit(k, W, S), NEW steps, steps = k \o <<Copying("copy_back")>>
    PROVE  /\ steps # <<>>
           /\ \/ Head(steps) = Copying("copy_back") /\ Tail(steps) = <<>>
              \/ /\ Fits(Head(steps), W, S)
                 /\ \E rest : Tail(steps) = rest \o <<Copying("copy_back")>> /\ AllFit(rest, W, S)
  <1>1. PICK X : k \in Seq(X) /\ \A x \in X : Fits(x, W, S)
    BY SomeSeq
  <1> DEFINE out == Copying("copy_back")
             Y == X \cup {out}
  <1>2. out \in Y /\ k \in Seq(Y)
    BY <1>1
  <1>3. steps = k \o <<out>>
    OBVIOUS
  <1> HIDE DEF out, Y
  <1>4. <<out>> \in Seq(Y)
    BY <1>2
  <1>5. CASE k = <<>>
    <2>1. steps = <<out>>
      BY <1>2, <1>3, <1>4, <1>5
    <2> QED BY <2>1, <1>5 DEF out
  <1>6. CASE k # <<>>
    <2>1. Head(k) \in X /\ Tail(k) \in Seq(X)
      BY <1>1, <1>6
    <2>2. AllFit(Tail(k), W, S) /\ Fits(Head(k), W, S)
      BY <1>1, <2>1, StepsFrom
    <2>3. steps # <<>> /\ Head(steps) = Head(k)
      BY <1>2, <1>3, <1>4, <1>6
    <2>4. Tail(steps) = Tail(k) \o <<out>>
      BY <1>2, <1>3, <1>4, <1>6
    <2> QED BY <2>2, <2>3, <2>4 DEF out
  <1> QED BY <1>5, <1>6

-----------------------------------------------------------------------------
\* Each step on one side

\* A loop of the kernel leaves what is no output as it was, and puts its layer on top
\* of the older ones of an output.
LEMMA LoopKeeps ==
    ASSUME NEW c, CallOK(c), NEW M, OnDevice(c, M), NEW step, Writes(step) \subseteq MayWrite(c)
    PROVE  OnDevice(c, AfterLoop(M, step))
  <1> DEFINE N == AfterLoop(M, step)
  <1>1. "content" \in DOMAIN M
    BY DEF OnDevice
  <1>2. DOMAIN N = DOMAIN M /\ DOMAIN N.content = DOMAIN M.content
    BY <1>1 DEF AfterLoop
  <1>3. ASSUME NEW a \in DOMAIN M.content, a \notin Writes(step)
        PROVE  N.content[a] = M.content[a]
    BY <1>1, <1>3 DEF AfterLoop
  <1>4. ASSUME NEW a \in DOMAIN M.content, a \in Writes(step)
        PROVE  \E layer : N.content[a] = <<layer>> \o M.content[a]
    <2> DEFINE layer == Layer(step.box, Provenance(M, step.box, SetBy(step, a).reads))
    <2>1. N.content[a] = <<layer>> \o M.content[a]
      BY <1>1, <1>4 DEF AfterLoop
    <2> HIDE DEF layer
    <2> QED BY <2>1
  <1> HIDE DEF N
  <1>5. ASSUME NEW a \in Passed(c) PROVE AsHost(c, a, N.content[a])
    <2>1. a \in DOMAIN M.content /\ AsHost(c, a, M.content[a])
      BY DEF OnDevice
    <2>2. CASE a \in Writes(step)
      <3>1. a \in Outputs(c)
        BY <2>2, ScratchApart DEF MayWrite
      <3> QED BY <1>4, <2>1, <2>2, <3>1, PushCovers DEF AsHost
    <2>3. CASE a \notin Writes(step)
      BY <1>3, <2>1, <2>3
    <2> QED BY <2>2, <2>3
  <1>6. OnDevice(c, N)
    BY <1>1, <1>2, <1>5 DEF OnDevice
  <1> QED BY <1>6 DEF N

\* The allocation of scratch arrays leaves the host's arrays alone.
LEMMA ScratchKeeps ==
    ASSUME NEW c, CallOK(c), NEW M, OnDevice(c, M), NEW step, Writes(step) \subseteq ScratchOf(c)
    PROVE  OnDevice(c, AfterScratch(M, step))
  <1> DEFINE N == AfterScratch(M, step)
  <1>1. "content" \in DOMAIN N /\ DOMAIN N.content = DOMAIN M.content
    BY DEF AfterScratch
  <1>2. ASSUME NEW a \in Passed(c) PROVE AsHost(c, a, N.content[a])
    <2>1. a \in DOMAIN M.content /\ AsHost(c, a, M.content[a])
      BY DEF OnDevice
    <2>2. a \notin Writes(step)
      BY ScratchApart
    <2>3. N.content[a] = M.content[a]
      BY <2>1, <2>2 DEF AfterScratch
    <2> QED BY <2>1, <2>3
  <1> HIDE DEF N
  <1>3. OnDevice(c, N)
    BY <1>1, <1>2 DEF OnDevice
  <1> QED BY <1>3 DEF N

\* The caller's array is as the host will find it.
LEMMA OnHostCovers ==
    ASSUME NEW c, CallOK(c), NEW a
    PROVE  AsHost(c, a, OnHost(a, c))
  <1>1. c.cfg.halo \in Nat /\ c.cfg.symmetric \in BOOLEAN
    BY DEF CallOK
  <1> QED BY <1>1, AllocatedBox, InitialCovers DEF AsHost, OnHost

\* Copying in.
LEMMA CopyInStep ==
    ASSUME NEW c, CallOK(c), CouplingGiven(c), NEW steps, NEW M, NEW back, Underway(c, steps, M, back),
           steps # <<>>, Head(steps).op = "copy_in", NEW N,
           N = [M EXCEPT !.content = [a \in DOMAIN @ |-> IF a \in Passed(c) THEN OnHost(a, c) ELSE <<>>]]
    PROVE  Underway(c, Tail(steps), N, back)
  <1>1. \A op : Copying(op).op = op
    BY DEF Copying
  <1>2. steps = Program(c) /\ M = InitialMemory(c)
    <2>1. ASSUME NEW k, steps = k \o <<Copying("copy_back")>>, AllFit(k, MayWrite(c), ScratchOf(c))
          PROVE  FALSE
      <3>1. CASE Head(steps) = Copying("copy_back")
        BY <1>1, <3>1
      <3>2. CASE Fits(Head(steps), MayWrite(c), ScratchOf(c))
        BY <3>2 DEF Fits
      <3>3. \/ Head(steps) = Copying("copy_back")
            \/ Fits(Head(steps), MayWrite(c), ScratchOf(c))
        BY <2>1, KernelSteps, Zenon
      <3> QED BY <3>1, <3>2, <3>3
    <2> QED BY <2>1 DEF Underway
  <1>3. Tail(steps) = KernelOf(c) \o <<Copying("copy_back")>>
    BY <1>2, ProgramSteps
  <1>4. AllFit(KernelOf(c), MayWrite(c), ScratchOf(c))
    BY KernelFits DEF MayWrite
  <1>5. "content" \in DOMAIN M /\ DOMAIN M.content = ArraysOf(c) /\ Passed(c) \subseteq DOMAIN M.content
    BY <1>2 DEF InitialMemory, ArraysOf
  <1>6. DOMAIN N = DOMAIN M /\ N.content = [a \in DOMAIN M.content |-> IF a \in Passed(c) THEN OnHost(a, c) ELSE <<>>]
    BY <1>5
  <1>7. OnDevice(c, N)
    BY <1>5, <1>6, OnHostCovers DEF OnDevice
  <1> QED BY <1>3, <1>4, <1>7 DEF Underway

\* The step that is next, when it is none of the copying in
LEMMA MidStep ==
    ASSUME NEW c, CallOK(c), CouplingGiven(c), NEW steps, NEW M, NEW back, Underway(c, steps, M, back),
           steps # <<>>, Head(steps).op # "copy_in"
    PROVE  /\ OnDevice(c, M)
           /\ \/ Head(steps) = Copying("copy_back") /\ Tail(steps) = <<>>
              \/ /\ Fits(Head(steps), MayWrite(c), ScratchOf(c))
                 /\ \E k : Tail(steps) = k \o <<Copying("copy_back")>> /\ AllFit(k, MayWrite(c), ScratchOf(c))
  <1>1. Copying("copy_in").op = "copy_in"
    BY DEF Copying
  <1>2. steps # Program(c)
    BY <1>1, ProgramSteps
  <1>3. OnDevice(c, M)
    BY <1>2 DEF Underway
  <1>4. PICK k : steps = k \o <<Copying("copy_back")>> /\ AllFit(k, MayWrite(c), ScratchOf(c))
    BY <1>2 DEF Underway
  <1> QED BY <1>3, <1>4, KernelSteps, Zenon

\* Running a loop.
LEMMA LoopRuns ==
    ASSUME NEW c, CallOK(c), CouplingGiven(c), NEW steps, NEW M, NEW back, Underway(c, steps, M, back),
           steps # <<>>, Head(steps).op = "loop"
    PROVE  Underway(c, Tail(steps), AfterLoop(M, Head(steps)), back)
  <1>1. Copying("copy_back").op # "loop"
    BY DEF Copying
  <1>2. /\ OnDevice(c, M)
        /\ Fits(Head(steps), MayWrite(c), ScratchOf(c))
        /\ \E k : Tail(steps) = k \o <<Copying("copy_back")>> /\ AllFit(k, MayWrite(c), ScratchOf(c))
    BY <1>1, MidStep
  <1>3. Writes(Head(steps)) \subseteq MayWrite(c)
    BY <1>2 DEF Fits
  <1> QED BY <1>2, <1>3, LoopKeeps DEF Underway

\* Allocating scratch arrays.
LEMMA ScratchRuns ==
    ASSUME NEW c, CallOK(c), CouplingGiven(c), NEW steps, NEW M, NEW back, Underway(c, steps, M, back),
           steps # <<>>, Head(steps).op = "scratch"
    PROVE  Underway(c, Tail(steps), AfterScratch(M, Head(steps)), back)
  <1>1. Copying("copy_back").op # "scratch"
    BY DEF Copying
  <1>2. /\ OnDevice(c, M)
        /\ Fits(Head(steps), MayWrite(c), ScratchOf(c))
        /\ \E k : Tail(steps) = k \o <<Copying("copy_back")>> /\ AllFit(k, MayWrite(c), ScratchOf(c))
    BY <1>1, MidStep
  <1>3. Writes(Head(steps)) \subseteq ScratchOf(c)
    BY <1>2 DEF Fits
  <1> QED BY <1>2, <1>3, ScratchKeeps DEF Underway

\* Copying back.
LEMMA CopyBackRuns ==
    ASSUME NEW c, CallOK(c), CouplingGiven(c), NEW steps, NEW M, NEW back, Underway(c, steps, M, back),
           steps # <<>>, Head(steps).op = "copy_back", NEW N, NEW now,
           now = [a \in Returned(c) |-> M.content[a]]
    PROVE  Underway(c, Tail(steps), N, now)
  <1>1. OnDevice(c, M) /\ Tail(steps) = <<>>
    BY MidStep DEF Fits
  <1>2. \A a \in Returned(c) : AsHost(c, a, now[a])
    BY <1>1, ReturnedPassed DEF OnDevice
  <1> QED BY <1>1, <1>2 DEF Underway

-----------------------------------------------------------------------------
\* The invariant, for any calls and options: what is left of a call is a tail of its
\* program, and on the device every array the bridge passed holds a value in each cell
\* of its allocation, the caller's own unless the array is an output.
THEOREM CallsKeepInv == Spec => []CallInv
  <1>1. Init => CallInv
    <2> SUFFICES ASSUME Init PROVE CallInv
      OBVIOUS
    <2>1. PICK c \in Calls : /\ Consistent(c)
                             /\ call = [s \in Sides |-> IF s = "direct" THEN c ELSE Mirrored(c)]
      BY DEF Init
    <2>2. CallOK(c) /\ CouplingGiven(c)
      BY <2>1, CallsAssumption, ConsistentReady
    <2>3. CallOK(Mirrored(c)) /\ CouplingGiven(Mirrored(c))
      BY <2>2, MirroredOK
    <2>4. /\ todo = [s \in Sides |-> Program(call[s])]
          /\ mem = [s \in Sides |-> InitialMemory(call[s])]
          /\ returned = [s \in Sides |-> << >>]
      BY DEF Init
    <2> QED BY <2>1, <2>2, <2>3, <2>4 DEF CallInv, Underway
  <1>2. CallInv /\ [Next]_vars => CallInv'
    <2> SUFFICES ASSUME CallInv, [Next]_vars PROVE CallInv'
      OBVIOUS
    <2>1. ASSUME NEW s \in Sides,
                 call' = call,
                 DOMAIN todo' = Sides, DOMAIN mem' = Sides, DOMAIN returned' = Sides,
                 \A t \in Sides \ {s} : todo'[t] = todo[t] /\ mem'[t] = mem[t] /\ returned'[t] = returned[t],
                 Underway(call[s], todo'[s], mem'[s], returned'[s])
          PROVE  CallInv'
      <3>1. \A t \in Sides : Underway(call[t], todo'[t], mem'[t], returned'[t])
        BY <2>1 DEF CallInv
      <3>2. DOMAIN call' = Sides /\ \A t \in Sides : CallOK(call'[t]) /\ CouplingGiven(call'[t])
        BY <2>1 DEF CallInv
      <3> QED BY <2>1, <3>1, <3>2 DEF CallInv
    <2>2. ASSUME NEW s \in Sides, CopyIn(s) PROVE CallInv'
      <3> DEFINE c == call[s]
                 M == mem[s]
                 N == [M EXCEPT !.content = [a \in DOMAIN @ |-> IF a \in Passed(c) THEN OnHost(a, c) ELSE <<>>]]
      <3>1. CallOK(c) /\ CouplingGiven(c) /\ Underway(c, todo[s], M, returned[s])
        BY DEF CallInv
      <3>2. todo[s] # <<>> /\ Head(todo[s]).op = "copy_in"
        BY <2>2 DEF CopyIn
      <3>3. Underway(c, Tail(todo[s]), N, returned[s])
        BY <3>1, <3>2, CopyInStep
      <3>4. /\ todo' = [todo EXCEPT ![s] = Tail(todo[s])]
            /\ mem' = [mem EXCEPT ![s] = N]
            /\ call' = call /\ returned' = returned
        BY <2>2 DEF CopyIn
      <3> HIDE DEF c, M, N
      <3>5. Underway(c, todo'[s], mem'[s], returned'[s])
        BY <3>3, <3>4 DEF CallInv
      <3> QED BY <2>1, <3>4, <3>5 DEF CallInv, c
    <2>3. ASSUME NEW s \in Sides, RunLoop(s) PROVE CallInv'
      <3>1. CallOK(call[s]) /\ CouplingGiven(call[s]) /\ Underway(call[s], todo[s], mem[s], returned[s])
        BY DEF CallInv
      <3>2. todo[s] # <<>> /\ Head(todo[s]).op = "loop"
        BY <2>3 DEF RunLoop
      <3>3. Underway(call[s], Tail(todo[s]), AfterLoop(mem[s], Head(todo[s])), returned[s])
        BY <3>1, <3>2, LoopRuns
      <3>4. /\ todo' = [todo EXCEPT ![s] = Tail(todo[s])]
            /\ mem' = [mem EXCEPT ![s] = AfterLoop(mem[s], Head(todo[s]))]
            /\ call' = call /\ returned' = returned
        BY <2>3 DEF RunLoop
      <3>5. Underway(call[s], todo'[s], mem'[s], returned'[s])
        BY <3>3, <3>4 DEF CallInv
      <3> QED BY <2>1, <3>4, <3>5 DEF CallInv
    <2>4. ASSUME NEW s \in Sides, AllocateScratch(s) PROVE CallInv'
      <3>1. CallOK(call[s]) /\ CouplingGiven(call[s]) /\ Underway(call[s], todo[s], mem[s], returned[s])
        BY DEF CallInv
      <3>2. todo[s] # <<>> /\ Head(todo[s]).op = "scratch"
        BY <2>4 DEF AllocateScratch
      <3>3. Underway(call[s], Tail(todo[s]), AfterScratch(mem[s], Head(todo[s])), returned[s])
        BY <3>1, <3>2, ScratchRuns
      <3>4. /\ todo' = [todo EXCEPT ![s] = Tail(todo[s])]
            /\ mem' = [mem EXCEPT ![s] = AfterScratch(mem[s], Head(todo[s]))]
            /\ call' = call /\ returned' = returned
        BY <2>4 DEF AllocateScratch
      <3>5. Underway(call[s], todo'[s], mem'[s], returned'[s])
        BY <3>3, <3>4 DEF CallInv
      <3> QED BY <2>1, <3>4, <3>5 DEF CallInv
    <2>5. ASSUME NEW s \in Sides, CopyBack(s) PROVE CallInv'
      <3> DEFINE now == [a \in Returned(call[s]) |-> mem[s].content[a]]
                 N == [mem[s] EXCEPT !.content = [a \in DOMAIN @ |-> <<>>]]
      <3>1. CallOK(call[s]) /\ CouplingGiven(call[s]) /\ Underway(call[s], todo[s], mem[s], returned[s])
        BY DEF CallInv
      <3>2. todo[s] # <<>> /\ Head(todo[s]).op = "copy_back"
        BY <2>5 DEF CopyBack
      <3>3. Underway(call[s], Tail(todo[s]), N, now)
        BY <3>1, <3>2, CopyBackRuns
      <3>4. /\ todo' = [todo EXCEPT ![s] = Tail(todo[s])]
            /\ mem' = [mem EXCEPT ![s] = N]
            /\ returned' = [returned EXCEPT ![s] = now]
            /\ call' = call
        BY <2>5 DEF CopyBack
      <3> HIDE DEF now, N
      <3>5. Underway(call[s], todo'[s], mem'[s], returned'[s])
        BY <3>3, <3>4 DEF CallInv
      <3> QED BY <2>1, <3>4, <3>5 DEF CallInv
    <2>6. CASE UNCHANGED vars
      BY <2>6 DEF vars, CallInv
    <2> QED BY <2>2, <2>3, <2>4, <2>5, <2>6 DEF Next
  <1> QED BY <1>1, <1>2, PTL DEF Spec

\* No loop of any kernel, under any options the kernel takes, reads another cell of an
\* array it writes: the cells of a ParallelFor may run in any order.
THEOREM NoCellRaces == Spec => []CellsDoNotRace
  <1>1. CallInv => CellsDoNotRace
    <2> SUFFICES ASSUME CallInv, NEW s \in Sides, todo[s] # <<>> PROVE RaceFree(Head(todo[s]))
      BY DEF CellsDoNotRace
    <2>1. CallOK(call[s]) /\ CouplingGiven(call[s]) /\ Underway(call[s], todo[s], mem[s], returned[s])
      BY DEF CallInv
    <2>2. \A op : RaceFree(Copying(op))
      BY DEF RaceFree, Copying, Reads
    <2>3. CASE todo[s] = Program(call[s])
      BY <2>1, <2>2, <2>3, ProgramSteps
    <2>4. CASE \E k : /\ todo[s] = k \o <<Copying("copy_back")>>
                      /\ AllFit(k, MayWrite(call[s]), ScratchOf(call[s]))
      <3>1. PICK k : todo[s] = k \o <<Copying("copy_back")>> /\ AllFit(k, MayWrite(call[s]), ScratchOf(call[s]))
        BY <2>4
      <3>2. \/ Head(todo[s]) = Copying("copy_back")
            \/ Fits(Head(todo[s]), MayWrite(call[s]), ScratchOf(call[s]))
        BY <3>1, KernelSteps, Zenon
      <3> QED BY <2>2, <3>2 DEF Fits
    <2> QED BY <2>1, <2>3, <2>4 DEF Underway
  <1> QED BY <1>1, CallsKeepInv, PTL

\* The same in terms of places of memory: no two cells of the next loop of a call
\* touch the same place when one of them writes it.
CellsDoNotMeet ==
    \A s \in Sides : todo[s] # <<>> =>
        \A c, d \in Int \X Int : c # d =>
            /\ PlacesWritten(Head(todo[s]), c) \cap PlacesRead(Head(todo[s]), d) = {}
            /\ PlacesWritten(Head(todo[s]), c) \cap PlacesWritten(Head(todo[s]), d) = {}

\* So the order in which the cells of any loop of any call run, on a grid of any size,
\* cannot show in what it leaves.
THEOREM CellsNeverMeet == Spec => []CellsDoNotMeet
  <1>1. CellsDoNotRace => CellsDoNotMeet
    <2> SUFFICES ASSUME CellsDoNotRace, NEW s \in Sides, todo[s] # <<>>,
                        NEW c \in Int \X Int, NEW d \in Int \X Int, c # d
                 PROVE  /\ PlacesWritten(Head(todo[s]), c) \cap PlacesRead(Head(todo[s]), d) = {}
                        /\ PlacesWritten(Head(todo[s]), c) \cap PlacesWritten(Head(todo[s]), d) = {}
      BY DEF CellsDoNotMeet
    <2>1. RaceFree(Head(todo[s]))
      BY DEF CellsDoNotRace
    <2> QED BY <2>1, RaceFreeCellsDoNotMeet
  <1> QED BY <1>1, NoCellRaces, PTL

\* When a call is over the host's arrays hold a value in every cell, though the kernel
\* sets only a box of each result, and those that are no results hold what they did,
\* though many are copied back.
THEOREM HostKeepsItsArrays == Spec => []HostKeepsTheRest
  <1>1. CallInv => HostKeepsTheRest
    <2> SUFFICES ASSUME CallInv, NEW s \in Sides, todo[s] = <<>>, NEW a \in DOMAIN Host(s).content
                 PROVE  /\ IsSet(Host(s), a, Allocated(a, call[s].cfg))
                        /\ a \notin Outputs(call[s]) => Host(s).content[a] = OnHost(a, call[s])
      BY DEF HostKeepsTheRest
    <2> DEFINE c == call[s]
    <2>1. CallOK(c) /\ CouplingGiven(c) /\ Underway(c, todo[s], mem[s], returned[s])
      BY DEF CallInv
    <2>2. DOMAIN returned[s] = Returned(c) /\ \A b \in Returned(c) : AsHost(c, b, returned[s][b])
      BY <2>1, ProgramSteps, KernelSteps DEF Underway
    <2>3. Host(s).content = [b \in Passed(c) \cup DOMAIN returned[s] |->
                                IF b \in DOMAIN returned[s] THEN returned[s][b] ELSE OnHost(b, c)]
      BY DEF Host
    <2> HIDE DEF c
    <2>4. AsHost(c, a, Host(s).content[a])
      BY <2>1, <2>2, <2>3, OnHostCovers
    <2> QED BY <2>4, CoversSets DEF AsHost, c
  <1> QED BY <1>1, CallsKeepInv, PTL

-----------------------------------------------------------------------------
\* What is known of an array: it holds a value on all of a box, and the values come
\* from the arrays of, at cells no further away than from says on each side
Claim(box, from, of) == [box |-> box, from |-> from, of |-> of]

\* A claim of every array
Table(T) == \A a \in DOMAIN T : T[a].box \in Margins /\ T[a].from \in Margins

\* An origin the claim allows
Comes(r, t) ==
    /\ r[1] \in t.of
    /\ r[2] \in Offsets
    /\ 0 - t.from.w <= r[2][1] /\ r[2][1] <= t.from.e
    /\ 0 - t.from.s <= r[2][2] /\ r[2][2] <= t.from.n

\* The claim is true of an array with these layers
Known(layers, t) ==
    /\ t.box \in Margins /\ t.from \in Margins
    /\ \E X : layers \in Seq(X)
    /\ \E k \in 1 .. Len(layers) :
          /\ Within(t.box, layers[k].box)
          /\ \A l \in 1 .. k : layers[l].box \in Margins /\ \A r \in layers[l].from : Comes(r, t)

\* The claims of T are true of the arrays Z
AllKnown(T, Z, M) == \A a \in Z : a \in DOMAIN M.content /\ Known(M.content[a], T[a])

\* Reads from a box find values that are known, and a claim about what is computed
\* from them
Covered(T, Z, box, R) ==
    \A r \in R : r[1] \in Z /\ r[2] \in Offsets /\ Within(ReadAt(box, r[2]), T[r[1]].box)
Carried(T, R, t) ==
    \A r \in R : Within(ReadAt(T[r[1]].from, r[2]), t.from) /\ T[r[1]].of \subseteq t.of
Feeds(T, Z, box, R, t) == Covered(T, Z, box, R) /\ Carried(T, R, t)

\* A claim that says no more than another
Weaker(t, u) ==
    /\ u.box \in Margins /\ u.from \in Margins
    /\ Within(u.box, t.box) /\ Within(t.from, u.from) /\ t.of \subseteq u.of

\* From the claims T about Z one step leads to the claims U about Y.  What a loop sets
\* it sets on all of its box; an array that was known beyond it stays so.
StepGives(T, Z, step, U, Y) ==
    \/ /\ step.op = "scratch" /\ Reads(step) = {}
       /\ \A a \in Y : a \in Z /\ a \notin Writes(step) /\ U[a] = T[a]
    \/ /\ step.op = "loop"
       /\ step.box \in Margins
       /\ \A x \in step.sets : Covered(T, Z, step.box, x.reads)
       /\ \A a \in Y :
             \/ a \in Z /\ a \notin Writes(step) /\ U[a] = T[a]
             \/ /\ U[a].box \in Margins /\ U[a].from \in Margins
                /\ (a \in Writes(step) /\ Within(U[a].box, step.box)) \/ (a \in Z /\ Weaker(T[a], U[a]))
                /\ \A x \in step.sets : a \in x.writes => Carried(T, x.reads, U[a])

\* The same claims, or some of them
Follows(T, Z, U, Y) == \A a \in Y : a \in Z /\ U[a] = T[a]

\* The same for a sequence of steps, by way of the claims between them
Gives(T, Z, steps, U, Y) ==
    /\ \E X : steps \in Seq(X)
    /\ \E e : /\ e[0] = <<T, Z>>
              /\ Follows(e[Len(steps)][1], e[Len(steps)][2], U, Y)
              /\ \A i \in 1 .. Len(steps) :
                    StepGives(e[i - 1][1], e[i - 1][2], steps[i], e[i][1], e[i][2])

\* Boxes within boxes.
LEMMA WithinTrans ==
    ASSUME NEW a \in Margins, NEW b \in Margins, NEW c \in Margins, Within(a, b), Within(b, c)
    PROVE  Within(a, c)
  <1>1. \A x \in Margins : x.w \in Int /\ x.e \in Int /\ x.s \in Int /\ x.n \in Int
    BY DEF Margins
  <1>2. /\ a.w <= b.w /\ a.e <= b.e /\ a.s <= b.s /\ a.n <= b.n
        /\ b.w <= c.w /\ b.e <= c.e /\ b.s <= c.s /\ b.n <= c.n
    BY DEF Within
  <1>3. a.w <= c.w /\ a.e <= c.e /\ a.s <= c.s /\ a.n <= c.n
    BY <1>1, <1>2
  <1> QED BY <1>3 DEF Within

\* The first layer, counted from the newest, that covers all of a box is as deep as
\* one has to look.
LEMMA DepthFound ==
    ASSUME NEW layers, NEW X, layers \in Seq(X), NEW box, NEW k \in 1 .. Len(layers), Within(box, layers[k].box)
    PROVE  /\ DepthOf(layers, box) \in 1 .. k
           /\ Within(box, layers[DepthOf(layers, box)].box)
  <1> DEFINE S == {j \in Nat : j \in 1 .. Len(layers) /\ Within(box, layers[j].box)}
  <1>1. k \in S /\ S \subseteq Nat
    BY LenProperties
  <1> DEFINE R == OpToRel(<, Nat)
  <1>0. IsWellFoundedOn(R, Nat)
    BY NatLessThanWellFounded, Zenon
  <1>a. \A j, m \in Nat : j < m => <<j, m>> \in R
    BY DEF OpToRel
  <1> HIDE DEF R
  <1>2. PICK d \in S : \A j \in S : ~(<<j, d>> \in R)
    BY <1>0, <1>1, WFMin
  <1>3. \A j \in S : ~(j < d)
    BY <1>a, <1>1, <1>2
  <1>4. DOMAIN layers = 1 .. Len(layers)
    BY LenProperties
  <1>5. d \in DOMAIN layers /\ Within(box, layers[d].box)
    BY <1>4
  <1>6. \A l \in 1 .. d - 1 : ~Within(box, layers[l].box)
    <2> SUFFICES ASSUME NEW l \in 1 .. d - 1, Within(box, layers[l].box) PROVE FALSE
      OBVIOUS
    <2>1. d \in Nat /\ d \in 1 .. Len(layers) /\ Len(layers) \in Nat
      BY LenProperties
    <2>2. l \in S /\ l < d
      BY <2>1
    <2> QED BY <2>2, <1>3
  <1> DEFINE e == DepthOf(layers, box)
  <1>7. /\ e \in DOMAIN layers
        /\ Within(box, layers[e].box)
        /\ \A l \in 1 .. e - 1 : ~Within(box, layers[l].box)
    BY <1>5, <1>6 DEF DepthOf
  <1> HIDE DEF e
  <1>8. ~(k < e)
    BY <1>4, <1>7, LenProperties
  <1>9. e \in 1 .. k
    BY <1>4, <1>7, <1>8, LenProperties
  <1> QED BY <1>7, <1>9 DEF e

\* What is read of a known array is set, and comes from where the claim says.
LEMMA KnownOrigins ==
    ASSUME NEW M, NEW a, NEW t, Known(M.content[a], t), NEW box \in Margins, Within(box, t.box)
    PROVE  /\ IsSet(M, a, box)
           /\ \A r \in Origins(M, a, box) : Comes(r, t)
  <1> DEFINE layers == M.content[a]
  <1>1. PICK X : layers \in Seq(X)
    BY DEF Known
  <1>2. PICK k \in 1 .. Len(layers) :
          /\ Within(t.box, layers[k].box)
          /\ \A l \in 1 .. k : layers[l].box \in Margins /\ \A r \in layers[l].from : Comes(r, t)
    BY DEF Known
  <1>3. Len(layers) \in Nat /\ DOMAIN layers = 1 .. Len(layers)
    BY <1>1, LenProperties
  <1>4. layers[k].box \in Margins /\ t.box \in Margins
    BY <1>2, <1>3 DEF Known
  <1>5. Within(box, layers[k].box)
    BY <1>2, <1>4, WithinTrans
  <1>6. IsSet(M, a, box)
    BY <1>3, <1>5 DEF IsSet
  <1>7. DepthOf(layers, box) \in 1 .. k
    BY <1>1, <1>5, DepthFound
  <1>8. ASSUME NEW r \in Origins(M, a, box) PROVE Comes(r, t)
    <2>1. PICK l \in 1 .. DepthOf(layers, box) : r \in layers[l].from
      BY <1>6, <1>8 DEF Origins
    <2>2. l \in 1 .. k
      BY <2>1, <1>7, <1>3
    <2> QED BY <2>1, <2>2, <1>2
  <1> QED BY <1>6, <1>8

\* What a body computes from reads that are covered and carried comes from where its
\* own claim says.
LEMMA ProvenanceComes ==
    ASSUME NEW T, NEW Z, NEW M, AllKnown(T, Z, M), NEW box \in Margins, NEW R, Covered(T, Z, box, R),
           NEW t, t.from \in Margins, Carried(T, R, t)
    PROVE  \A q \in Provenance(M, box, R) : Comes(q, t)
  <1> SUFFICES ASSUME NEW q \in Provenance(M, box, R) PROVE Comes(q, t)
    OBVIOUS
  <1>1. PICK r \in R : q \in MovedBy(Origins(M, r[1], ReadAt(box, r[2])), r[2])
    BY DEF Provenance
  <1>2. PICK o \in Origins(M, r[1], ReadAt(box, r[2])) : q = <<o[1], Moved(o[2], r[2])>>
    BY <1>1 DEF MovedBy
  <1>3. r[1] \in Z /\ r[2] \in Offsets /\ Within(ReadAt(box, r[2]), T[r[1]].box)
    BY DEF Covered
  <1>4. Known(M.content[r[1]], T[r[1]])
    BY <1>3 DEF AllKnown
  <1>5. ReadAt(box, r[2]) \in Margins
    BY <1>3 DEF Offsets, Margins, ReadAt
  <1>6. Comes(o, T[r[1]])
    BY <1>2, <1>3, <1>4, <1>5, KnownOrigins
  <1>7. Within(ReadAt(T[r[1]].from, r[2]), t.from) /\ T[r[1]].of \subseteq t.of
    BY DEF Carried
  <1>8. T[r[1]].from \in Margins
    BY <1>4 DEF Known
  <1> DEFINE f == T[r[1]].from
             m == r[2]
             p == o[2]
  <1>9. /\ f.w \in Int /\ f.e \in Int /\ f.s \in Int /\ f.n \in Int
        /\ t.from.w \in Int /\ t.from.e \in Int /\ t.from.s \in Int /\ t.from.n \in Int
        /\ m[1] \in Int /\ m[2] \in Int /\ p[1] \in Int /\ p[2] \in Int
    BY <1>3, <1>6, <1>8 DEF Margins, Offsets, Comes
  <1>10. /\ f.w - m[1] <= t.from.w /\ f.e + m[1] <= t.from.e
         /\ f.s - m[2] <= t.from.s /\ f.n + m[2] <= t.from.n
    BY <1>7 DEF Within, ReadAt
  <1>11. /\ 0 - f.w <= p[1] /\ p[1] <= f.e
         /\ 0 - f.s <= p[2] /\ p[2] <= f.n
    BY <1>6 DEF Comes
  <1>12. q[1] = o[1] /\ q[2] = <<p[1] + m[1], p[2] + m[2]>> /\ o[1] \in t.of
    BY <1>2, <1>6, <1>7 DEF Moved, Comes
  <1> HIDE DEF f, m, p
  <1>13. /\ 0 - t.from.w <= p[1] + m[1] /\ p[1] + m[1] <= t.from.e
         /\ 0 - t.from.s <= p[2] + m[2] /\ p[2] + m[2] <= t.from.n
    BY <1>9, <1>10, <1>11
  <1>14. q[2] \in Offsets /\ q[2][1] = p[1] + m[1] /\ q[2][2] = p[2] + m[2]
    BY <1>9, <1>12 DEF Offsets
  <1> QED BY <1>12, <1>13, <1>14 DEF Comes

\* What a claim allows, a weaker one does.
LEMMA WeakerComes ==
    ASSUME NEW t, NEW u, t.from \in Margins, Weaker(t, u), NEW r, Comes(r, t)
    PROVE  Comes(r, u)
  <1> DEFINE f == t.from
             g == u.from
             p == r[2]
  <1>1. f \in Margins /\ g \in Margins /\ p \in Offsets
    BY DEF Weaker, Comes
  <1>3. f.w <= g.w /\ f.e <= g.e /\ f.s <= g.s /\ f.n <= g.n
    BY DEF Weaker, Within
  <1>4. 0 - f.w <= p[1] /\ p[1] <= f.e /\ 0 - f.s <= p[2] /\ p[2] <= f.n
    BY DEF Comes
  <1> HIDE DEF f, g, p
  <1>5. 0 - g.w <= p[1] /\ p[1] <= g.e /\ 0 - g.s <= p[2] /\ p[2] <= g.n
    BY <1>1, <1>3, <1>4 DEF Margins, Offsets
  <1>6. r[1] \in u.of /\ r[2] \in Offsets
    BY DEF Comes, Weaker
  <1> QED BY <1>5, <1>6 DEF Comes, g, p

\* A weaker claim is true where the stronger is.
LEMMA WeakerKnown ==
    ASSUME NEW layers, NEW t, NEW u, Known(layers, t), Weaker(t, u)
    PROVE  Known(layers, u)
  <1>1. PICK X : layers \in Seq(X)
    BY DEF Known
  <1>2. PICK k \in 1 .. Len(layers) :
          /\ Within(t.box, layers[k].box)
          /\ \A l \in 1 .. k : layers[l].box \in Margins /\ \A r \in layers[l].from : Comes(r, t)
    BY DEF Known
  <1>3. k \in 1 .. k /\ t.box \in Margins /\ t.from \in Margins /\ u.box \in Margins /\ u.from \in Margins
    BY <1>1, LenProperties DEF Weaker, Known
  <1>4. Within(u.box, layers[k].box)
    <2>1. layers[k].box \in Margins
      BY <1>2, <1>3
    <2> QED BY <2>1, <1>2, <1>3, WithinTrans DEF Weaker
  <1>5. \A r : Comes(r, t) => Comes(r, u)
    BY <1>3, WeakerComes
  <1> QED BY <1>1, <1>2, <1>3, <1>4, <1>5 DEF Known

\* A layer that comes from where the claim says keeps the claim true, and makes it true
\* where the layer covers the box of the claim.
LEMMA PushKnown ==
    ASSUME NEW layers, NEW X, layers \in Seq(X), NEW t, t.box \in Margins, t.from \in Margins, NEW layer,
           layer.box \in Margins, \A r \in layer.from : Comes(r, t),
           Known(layers, t) \/ Within(t.box, layer.box)
    PROVE  Known(<<layer>> \o layers, t)
  <1> DEFINE Y == X \cup {layer}
             more == <<layer>> \o layers
  <1>1. layers \in Seq(Y) /\ <<layer>> \in Seq(Y)
    OBVIOUS
  <1>2. /\ more \in Seq(Y) /\ Len(more) = Len(layers) + 1 /\ more[1] = layer /\ Len(layers) \in Nat
        /\ \A i \in 1 .. Len(layers) : more[i + 1] = layers[i]
    BY <1>1
  <1> HIDE DEF more, Y
  <1>3. CASE Within(t.box, layer.box)
    <2>1. 1 \in 1 .. Len(more)
      BY <1>2
    <2>2. \A l \in 1 .. 1 : more[l].box \in Margins /\ \A r \in more[l].from : Comes(r, t)
      BY <1>2
    <2> QED BY <1>2, <1>3, <2>1, <2>2 DEF Known, more
  <1>4. CASE Known(layers, t)
    <2>1. PICK k \in 1 .. Len(layers) :
          /\ Within(t.box, layers[k].box)
          /\ \A l \in 1 .. k : layers[l].box \in Margins /\ \A r \in layers[l].from : Comes(r, t)
      BY <1>4 DEF Known
    <2>2. k + 1 \in 1 .. Len(more) /\ Within(t.box, more[k + 1].box)
      BY <1>2, <2>1
    <2>3. ASSUME NEW l \in 1 .. k + 1 PROVE more[l].box \in Margins /\ \A r \in more[l].from : Comes(r, t)
      <3>1. CASE l = 1
        BY <3>1, <1>2
      <3>2. CASE l # 1
        <4>1. l - 1 \in 1 .. k /\ l - 1 \in 1 .. Len(layers) /\ (l - 1) + 1 = l
          BY <3>2, <1>2, <2>1
        <4>2. more[l] = layers[l - 1]
          BY <4>1, <1>2
        <4> QED BY <4>1, <4>2, <2>1
      <3> QED BY <3>1, <3>2
    <2> QED BY <1>2, <2>2, <2>3 DEF Known, more
  <1> QED BY <1>3, <1>4

-----------------------------------------------------------------------------
\* Sequences of steps

\* A step may start from more than it needs.
LEMMA StepFrom ==
    ASSUME NEW S, NEW W, NEW T, NEW Z, Follows(S, W, T, Z), NEW step, NEW U, NEW Y, StepGives(T, Z, step, U, Y)
    PROVE  StepGives(S, W, step, U, Y)
  <1>1. \A a \in Z : a \in W /\ T[a] = S[a]
    BY DEF Follows
  <1>2. ASSUME NEW box, NEW R, Covered(T, Z, box, R)
        PROVE  Covered(S, W, box, R) /\ \A t : Carried(T, R, t) => Carried(S, R, t)
    BY <1>1, <1>2 DEF Covered, Carried
  <1>3. CASE step.op = "scratch" /\ \A a \in Y : a \in Z /\ a \notin Writes(step) /\ U[a] = T[a]
    BY <1>1, <1>3 DEF StepGives
  <1>4. CASE /\ step.op = "loop"
             /\ step.box \in Margins
             /\ \A x \in step.sets : Covered(T, Z, step.box, x.reads)
             /\ \A a \in Y :
                   \/ a \in Z /\ a \notin Writes(step) /\ U[a] = T[a]
                   \/ /\ U[a].box \in Margins /\ U[a].from \in Margins
                      /\ (a \in Writes(step) /\ Within(U[a].box, step.box)) \/ (a \in Z /\ Weaker(T[a], U[a]))
                      /\ \A x \in step.sets : a \in x.writes => Carried(T, x.reads, U[a])
    <2>1. \A x \in step.sets : Covered(S, W, step.box, x.reads)
      BY <1>2, <1>4
    <2>2. ASSUME NEW a \in Y
          PROVE  \/ a \in W /\ a \notin Writes(step) /\ U[a] = S[a]
                 \/ /\ U[a].box \in Margins /\ U[a].from \in Margins
                    /\ (a \in Writes(step) /\ Within(U[a].box, step.box)) \/ (a \in W /\ Weaker(S[a], U[a]))
                    /\ \A x \in step.sets : a \in x.writes => Carried(S, x.reads, U[a])
      <3>1. CASE a \in Z /\ a \notin Writes(step) /\ U[a] = T[a]
        BY <3>1, <1>1
      <3>2. CASE /\ U[a].box \in Margins /\ U[a].from \in Margins
                 /\ (a \in Writes(step) /\ Within(U[a].box, step.box)) \/ (a \in Z /\ Weaker(T[a], U[a]))
                 /\ \A x \in step.sets : a \in x.writes => Carried(T, x.reads, U[a])
        <4>1. (a \in Writes(step) /\ Within(U[a].box, step.box)) \/ (a \in W /\ Weaker(S[a], U[a]))
          BY <3>2, <1>1
        <4>2. \A x \in step.sets : a \in x.writes => Carried(S, x.reads, U[a])
          BY <3>2, <1>2, <1>4
        <4> QED BY <3>2, <4>1, <4>2
      <3> QED BY <3>1, <3>2, <1>4
    <2> QED BY <1>4, <2>1, <2>2 DEF StepGives
  <1> QED BY <1>3, <1>4 DEF StepGives

\* No step at all.
LEMMA NoStepGives ==
    ASSUME NEW T, NEW Z, NEW U, NEW Y, Follows(T, Z, U, Y)
    PROVE  Gives(T, Z, <<>>, U, Y)
  <1> DEFINE e == [i \in {0} |-> <<T, Z>>]
  <1>1. <<>> \in Seq({}) /\ Len(<<>>) = 0
    OBVIOUS
  <1>2. e[0] = <<T, Z>> /\ e[0][1] = T /\ e[0][2] = Z
    OBVIOUS
  <1> HIDE DEF e
  <1> QED BY <1>1, <1>2 DEF Gives

\* One step.
LEMMA OneStepGives ==
    ASSUME NEW T, NEW Z, NEW step, NEW U, NEW Y, StepGives(T, Z, step, U, Y)
    PROVE  Gives(T, Z, <<step>>, U, Y)
  <1> DEFINE e == [i \in {0, 1} |-> IF i = 0 THEN <<T, Z>> ELSE <<U, Y>>]
             X == {step}
  <1>1. <<step>> \in Seq(X) /\ Len(<<step>>) = 1 /\ <<step>>[1] = step
    OBVIOUS
  <1>2. e[0] = <<T, Z>> /\ e[1] = <<U, Y>>
    OBVIOUS
  <1> HIDE DEF e, X
  <1>3. \A i \in 1 .. 1 : StepGives(e[i - 1][1], e[i - 1][2], <<step>>[i], e[i][1], e[i][2])
    <2>1. e[0][1] = T /\ e[0][2] = Z /\ e[1][1] = U /\ e[1][2] = Y
      BY <1>2
    <2> SUFFICES ASSUME NEW i \in 1 .. 1 PROVE StepGives(e[i - 1][1], e[i - 1][2], <<step>>[i], e[i][1], e[i][2])
      OBVIOUS
    <2>2. i = 1 /\ i - 1 = 0
      OBVIOUS
    <2> QED BY <2>1, <2>2, <1>1
  <1>4. Follows(e[1][1], e[1][2], U, Y)
    BY <1>2 DEF Follows
  <1> QED BY <1>1, <1>2, <1>3, <1>4 DEF Gives

\* One part of a kernel after another.
LEMMA ThenGives ==
    ASSUME NEW T, NEW Z, NEW s, NEW U, NEW Y, NEW t, NEW V, NEW X,
           Gives(T, Z, s, U, Y), Gives(U, Y, t, V, X)
    PROVE  Gives(T, Z, s \o t, V, X)
  <1>1. PICK A : s \in Seq(A)
    BY DEF Gives
  <1>2. PICK B : t \in Seq(B)
    BY DEF Gives
  <1>3. PICK e : /\ e[0] = <<T, Z>>
                 /\ Follows(e[Len(s)][1], e[Len(s)][2], U, Y)
                 /\ \A i \in 1 .. Len(s) : StepGives(e[i - 1][1], e[i - 1][2], s[i], e[i][1], e[i][2])
    BY DEF Gives
  <1>4. PICK f : /\ f[0] = <<U, Y>>
                 /\ Follows(f[Len(t)][1], f[Len(t)][2], V, X)
                 /\ \A i \in 1 .. Len(t) : StepGives(f[i - 1][1], f[i - 1][2], t[i], f[i][1], f[i][2])
    BY DEF Gives
  <1> DEFINE C == A \cup B
             n == Len(s)
             m == Len(t)
             st == s \o t
             g == [i \in 0 .. n + m |-> IF i <= n THEN e[i] ELSE f[i - n]]
  <1>5. s \in Seq(C) /\ t \in Seq(C)
    BY <1>1, <1>2
  <1>6. /\ st \in Seq(C) /\ n \in Nat /\ m \in Nat /\ Len(st) = n + m
        /\ \A i \in 1 .. n : st[i] = s[i]
        /\ \A i \in 1 .. m : st[n + i] = t[i]
    BY <1>5
  <1>7. /\ \A i \in 0 .. n : g[i] = e[i]
        /\ \A i \in 1 .. m : g[n + i] = f[i]
    BY <1>6
  <1> HIDE DEF g, n, m, st, C
  <1>8. g[0] = <<T, Z>>
    BY <1>3, <1>6, <1>7
  <1>9. ASSUME NEW i \in 1 .. n + m
        PROVE  StepGives(g[i - 1][1], g[i - 1][2], st[i], g[i][1], g[i][2])
    <2>1. CASE i <= n
      <3>1. i \in 1 .. n /\ i \in 0 .. n /\ i - 1 \in 0 .. n
        BY <1>6, <2>1
      <3>2. g[i] = e[i] /\ g[i - 1] = e[i - 1] /\ st[i] = s[i]
        BY <3>1, <1>6, <1>7
      <3> QED BY <3>1, <3>2, <1>3 DEF n
    <2>2. CASE i = n + 1
      <3>1. 1 \in 1 .. m /\ n \in 0 .. n /\ i - 1 = n /\ 1 - 1 = 0
        BY <1>6, <2>2
      <3>2. g[i] = f[1] /\ g[i - 1] = e[n] /\ st[i] = t[1]
        BY <3>1, <2>2, <1>6, <1>7
      <3>3. StepGives(f[0][1], f[0][2], t[1], f[1][1], f[1][2])
        BY <3>1, <1>4 DEF m
      <3>4. f[0][1] = U /\ f[0][2] = Y
        BY <1>4
      <3>5. Follows(e[n][1], e[n][2], U, Y)
        BY <1>3 DEF n
      <3>6. StepGives(e[n][1], e[n][2], t[1], f[1][1], f[1][2])
        BY <3>3, <3>4, <3>5, StepFrom
      <3> QED BY <3>2, <3>6
    <2>3. CASE i > n + 1
      <3> DEFINE j == i - n
      <3>1. j \in 1 .. m /\ j - 1 \in 1 .. m /\ n + j = i /\ n + (j - 1) = i - 1
        BY <1>6, <2>3
      <3> HIDE DEF j
      <3>2. g[i] = f[j] /\ g[i - 1] = f[j - 1] /\ st[i] = t[j]
        BY <3>1, <1>6, <1>7
      <3> QED BY <3>1, <3>2, <1>4 DEF m
    <2> QED BY <2>1, <2>2, <2>3, <1>6
  <1>10. Follows(g[n + m][1], g[n + m][2], V, X)
    <2>1. CASE m = 0
      <3>1. g[n + m] = e[n]
        BY <2>1, <1>6, <1>7
      <3>2. f[0][1] = U /\ f[0][2] = Y
        BY <1>4
      <3>3. Follows(U, Y, V, X) /\ Follows(e[n][1], e[n][2], U, Y)
        BY <2>1, <3>2, <1>3, <1>4 DEF m, n
      <3> QED BY <3>1, <3>3 DEF Follows
    <2>2. CASE m # 0
      <3>1. m \in 1 .. m
        BY <2>2, <1>6
      <3>2. g[n + m] = f[m]
        BY <3>1, <1>7
      <3> QED BY <3>2, <1>4 DEF m
    <2> QED BY <2>1, <2>2
  <1>11. Len(st) = n + m /\ st \in Seq(C)
    BY <1>6
  <1> QED BY <1>8, <1>9, <1>10, <1>11 DEF Gives, st

\* Less may be said in the end.
LEMMA GivesLess ==
    ASSUME NEW T, NEW Z, NEW s, NEW U, NEW Y, Gives(T, Z, s, U, Y), NEW V, NEW X, Follows(U, Y, V, X)
    PROVE  Gives(T, Z, s, V, X)
  <1>1. \A A, B, C, D : Follows(A, B, U, Y) /\ Follows(U, Y, V, X) => Follows(A, B, V, X)
    BY DEF Follows
  <1> QED BY <1>1 DEF Gives

-----------------------------------------------------------------------------
\* What the steps of a kernel give

\* What a body sets some arrays to bears out what T claims of them
Computes(T, Z, box, A, R) ==
    /\ Covered(T, Z, box, R)
    /\ \A a \in A : a \in DOMAIN T /\ Carried(T, R, T[a]) /\ (a \in Z \/ Within(T[a].box, box))

\* A claim says no more than itself.
LEMMA SameClaim ==
    ASSUME NEW T, Table(T), NEW a \in DOMAIN T
    PROVE  Weaker(T[a], T[a])
  <1> DEFINE b == T[a].box
             f == T[a].from
  <1>1. b \in Margins /\ f \in Margins
    BY DEF Table
  <1> HIDE DEF b, f
  <1>2. Within(b, b) /\ Within(f, f)
    BY <1>1 DEF Within, Margins
  <1> QED BY <1>1, <1>2 DEF Weaker, b, f

\* A loop that bears the claims out.
LEMMA LoopGives ==
    ASSUME NEW T, Table(T), NEW Z, NEW box \in Margins, NEW sets,
           \A x \in sets : Computes(T, Z, box, x.writes, x.reads),
           NEW Y, \A a \in Y : a \in Z \/ \E x \in sets : a \in x.writes
    PROVE  Gives(T, Z, <<Loop(box, sets)>>, T, Y)
  <1> DEFINE step == Loop(box, sets)
  <1>1. step.op = "loop" /\ step.box = box /\ step.sets = sets
    BY DEF Loop
  <1>2. Writes(step) = UNION {x.writes : x \in sets}
    BY <1>1 DEF Writes
  <1> HIDE DEF step
  <1>3. \A x \in sets : Covered(T, Z, box, x.reads)
    BY DEF Computes
  <1>4. ASSUME NEW a \in Y
        PROVE  \/ a \in Z /\ a \notin Writes(step) /\ T[a] = T[a]
               \/ /\ T[a].box \in Margins /\ T[a].from \in Margins
                  /\ (a \in Writes(step) /\ Within(T[a].box, box)) \/ (a \in Z /\ Weaker(T[a], T[a]))
                  /\ \A x \in sets : a \in x.writes => Carried(T, x.reads, T[a])
    <2>1. CASE a \in Writes(step)
      <3>1. PICK x \in sets : a \in x.writes
        BY <2>1, <1>2
      <3>2. a \in DOMAIN T /\ (a \in Z \/ Within(T[a].box, box))
        BY <3>1 DEF Computes
      <3>3. T[a].box \in Margins /\ T[a].from \in Margins /\ Weaker(T[a], T[a])
        BY <3>2, SameClaim DEF Table
      <3>4. \A y \in sets : a \in y.writes => Carried(T, y.reads, T[a])
        BY DEF Computes
      <3> QED BY <2>1, <3>2, <3>3, <3>4
    <2>2. CASE a \notin Writes(step)
      BY <2>2, <1>2
    <2> QED BY <2>1, <2>2
  <1>5. StepGives(T, Z, step, T, Y)
    BY <1>1, <1>3, <1>4 DEF StepGives
  <1>6. Gives(T, Z, <<step>>, T, Y)
    BY <1>5, OneStepGives
  <1> QED BY <1>6 DEF step

\* A loop whose body sets its arrays from one set of reads, and from two.
LEMMA OneSetGives ==
    ASSUME NEW T, Table(T), NEW Z, NEW box \in Margins, NEW A, NEW R, Computes(T, Z, box, A, R)
    PROVE  Gives(T, Z, <<Loop(box, {Set(A, R)})>>, T, Z \cup A)
  <1> DEFINE sets == {Set(A, R)}
  <1>1. \A x \in sets : x.writes = A /\ x.reads = R
    BY DEF Set
  <1>2. Set(A, R) \in sets
    OBVIOUS
  <1> HIDE DEF sets
  <1>3. \A x \in sets : Computes(T, Z, box, x.writes, x.reads)
    BY <1>1
  <1>4. \A a \in Z \cup A : a \in Z \/ \E x \in sets : a \in x.writes
    BY <1>1, <1>2
  <1>5. Gives(T, Z, <<Loop(box, sets)>>, T, Z \cup A)
    BY <1>3, <1>4, LoopGives
  <1> QED BY <1>5 DEF sets

\* The same with two.
LEMMA TwoSetsGive ==
    ASSUME NEW T, Table(T), NEW Z, NEW box \in Margins, NEW A, NEW R, NEW B, NEW Q,
           Computes(T, Z, box, A, R), Computes(T, Z, box, B, Q)
    PROVE  Gives(T, Z, <<Loop(box, {Set(A, R), Set(B, Q)})>>, T, Z \cup A \cup B)
  <1> DEFINE sets == {Set(A, R), Set(B, Q)}
             x1 == Set(A, R)
             x2 == Set(B, Q)
  <1>1. x1.writes = A /\ x1.reads = R /\ x2.writes = B /\ x2.reads = Q
    BY DEF Set
  <1>2. x1 \in sets /\ x2 \in sets /\ \A x \in sets : x = x1 \/ x = x2
    OBVIOUS
  <1> HIDE DEF sets, x1, x2
  <1>3. \A x \in sets : Computes(T, Z, box, x.writes, x.reads)
    BY <1>1, <1>2
  <1>4. \A a \in Z \cup A \cup B : a \in Z \/ \E x \in sets : a \in x.writes
    BY <1>1, <1>2
  <1>5. Gives(T, Z, <<Loop(box, sets)>>, T, Z \cup A \cup B)
    BY <1>3, <1>4, LoopGives
  <1> QED BY <1>5 DEF sets

\* A part of a kernel that is run only under a condition.
LEMMA IfGives ==
    ASSUME NEW T, NEW Z, NEW condition, NEW s, NEW U, NEW Y,
           condition => Gives(T, Z, s, U, Y), ~condition => Follows(T, Z, U, Y)
    PROVE  Gives(T, Z, IF condition THEN s ELSE <<>>, U, Y)
  <1>1. CASE condition
    BY <1>1
  <1>2. CASE ~condition
    BY <1>2, NoStepGives
  <1> QED BY <1>1, <1>2

\* The loop that sets one array under a condition.
LEMMA SetsGive ==
    ASSUME NEW T, Table(T), NEW Z, NEW condition, NEW box, NEW a, NEW R,
           condition => box \in Margins /\ Computes(T, Z, box, {a}, R)
    PROVE  Gives(T, Z, Sets(condition, box, a, R), T, Z \cup When(condition, {a}))
  <1>1. CASE condition
    <2>1. Z \cup When(condition, {a}) = Z \cup {a}
      BY <1>1 DEF When
    <2>2. Gives(T, Z, <<Loop(box, {Set({a}, R)})>>, T, Z \cup {a})
      BY <1>1, OneSetGives
    <2> QED BY <1>1, <2>1, <2>2 DEF Sets
  <1>2. CASE ~condition
    <2>1. Follows(T, Z, T, Z \cup When(condition, {a}))
      BY <1>2 DEF When, Follows
    <2> QED BY <1>2, <2>1, NoStepGives DEF Sets
  <1> QED BY <1>1, <1>2

\* The loop that changes an array in place under a condition.
LEMMA ChangesGive ==
    ASSUME NEW T, Table(T), NEW Z, NEW condition, NEW box, NEW a, NEW R,
           condition => /\ a \in Z /\ box \in Margins /\ Within(box, T[a].box)
                        /\ Computes(T, Z, box, {a}, R)
    PROVE  Gives(T, Z, Changes(condition, box, a, R), T, Z)
  <1> DEFINE Q == R \cup At({a}, Here)
  <1>1. ASSUME condition PROVE box \in Margins /\ Computes(T, Z, box, {a}, Q)
    <2>1. a \in DOMAIN T /\ a \in Z /\ Weaker(T[a], T[a])
      BY <1>1, SameClaim DEF Computes
    <2>2. ASSUME NEW r \in At({a}, Here) PROVE r[1] = a /\ r[2] = <<0, 0>>
      BY DEF At, Here
    <2>3. ASSUME NEW b \in Margins PROVE ReadAt(b, <<0, 0>>) = b
      <3>1. b.w \in Int /\ b.e \in Int /\ b.s \in Int /\ b.n \in Int /\ b = [w |-> b.w, e |-> b.e, s |-> b.s, n |-> b.n]
        BY DEF Margins
      <3>2. b.w - 0 = b.w /\ b.e + 0 = b.e /\ b.s - 0 = b.s /\ b.n + 0 = b.n
        BY <3>1
      <3>3. ReadAt(b, <<0, 0>>) = [w |-> b.w - 0, e |-> b.e + 0, s |-> b.s - 0, n |-> b.n + 0]
        BY DEF ReadAt
      <3> QED BY <3>1, <3>2, <3>3
    <2>4. ReadAt(box, <<0, 0>>) = box /\ ReadAt(T[a].from, <<0, 0>>) = T[a].from
      BY <1>1, <2>1, <2>3 DEF Weaker
    <2>5. Covered(T, Z, box, Q)
      <3> SUFFICES ASSUME NEW r \in Q
                   PROVE  r[1] \in Z /\ r[2] \in Offsets /\ Within(ReadAt(box, r[2]), T[r[1]].box)
        BY DEF Covered
      <3>1. CASE r \in R
        BY <3>1, <1>1 DEF Computes, Covered
      <3>2. CASE r \in At({a}, Here)
        <4>1. r[1] = a /\ r[2] = <<0, 0>>
          BY <3>2, <2>2
        <4>3. r[2] \in Offsets
          BY <4>1 DEF Offsets
        <4>2. Within(box, T[a].box)
          BY <1>1
        <4> QED BY <4>1, <4>2, <4>3, <2>1, <2>4
      <3> QED BY <3>1, <3>2
    <2>6. Carried(T, Q, T[a])
      <3> SUFFICES ASSUME NEW r \in Q
                   PROVE  Within(ReadAt(T[r[1]].from, r[2]), T[a].from) /\ T[r[1]].of \subseteq T[a].of
        BY DEF Carried
      <3>1. CASE r \in R
        BY <3>1, <1>1 DEF Computes, Carried
      <3>2. CASE r \in At({a}, Here)
        BY <3>2, <2>1, <2>2, <2>4 DEF Weaker
      <3> QED BY <3>1, <3>2
    <2> QED BY <1>1, <2>1, <2>5, <2>6 DEF Computes
  <1> HIDE DEF Q
  <1>2. Gives(T, Z, Sets(condition, box, a, Q), T, Z \cup When(condition, {a}))
    BY <1>1, SetsGive
  <1>3. Follows(T, Z \cup When(condition, {a}), T, Z)
    BY DEF Follows
  <1>4. Gives(T, Z, Sets(condition, box, a, Q), T, Z)
    BY <1>2, <1>3, GivesLess
  <1> QED BY <1>4 DEF Changes, Q

\* The allocation of scratch arrays.
LEMMA ScratchGives ==
    ASSUME NEW T, NEW Z, NEW box, NEW A, NEW Y, Y \subseteq Z, \A a \in A : a \notin Y
    PROVE  Gives(T, Z, <<Scratch(box, A)>>, T, Y)
  <1> DEFINE step == Scratch(box, A)
  <1>1. step.op = "scratch" /\ step.sets = {Set(A, {})} /\ Set(A, {}).writes = A /\ Set(A, {}).reads = {}
    BY DEF Scratch, Set
  <1> HIDE DEF step
  <1>2. Writes(step) = A /\ Reads(step) = {}
    BY <1>1 DEF Writes, Reads
  <1>3. StepGives(T, Z, step, T, Y)
    BY <1>1, <1>2 DEF StepGives
  <1> QED BY <1>3, OneStepGives DEF step

-----------------------------------------------------------------------------
\* A memory whose arrays have layers, and steps whose arrays it has
Layered(M) == "content" \in DOMAIN M /\ \A a \in DOMAIN M.content : \E X : M.content[a] \in Seq(X)
Housed(k, D) == \E X : k \in Seq(X) /\ \A x \in X : Writes(x) \subseteq D

\* A loop that the claims lead through reads only what is set, and what it leads to is
\* true afterwards.
LEMMA LoopTells ==
    ASSUME NEW T, NEW Z, NEW M, Layered(M), AllKnown(T, Z, M), NEW step, step.op = "loop", NEW U, NEW Y,
           StepGives(T, Z, step, U, Y), Writes(step) \subseteq DOMAIN M.content
    PROVE  /\ ReadsSet(M, step)
           /\ LET N == AfterLoop(M, step) IN
              Layered(N) /\ DOMAIN N.content = DOMAIN M.content /\ AllKnown(U, Y, N)
  <1>1. /\ step.box \in Margins
        /\ \A x \in step.sets : Covered(T, Z, step.box, x.reads)
        /\ \A a \in Y :
              \/ a \in Z /\ a \notin Writes(step) /\ U[a] = T[a]
              \/ /\ U[a].box \in Margins /\ U[a].from \in Margins
                 /\ (a \in Writes(step) /\ Within(U[a].box, step.box)) \/ (a \in Z /\ Weaker(T[a], U[a]))
                 /\ \A x \in step.sets : a \in x.writes => Carried(T, x.reads, U[a])
    BY DEF StepGives
  <1>2. ReadsSet(M, step)
    <2> SUFFICES ASSUME NEW x \in step.sets, NEW r \in x.reads
                 PROVE  IsSet(M, r[1], ReadAt(step.box, r[2]))
      BY DEF ReadsSet, Reads
    <2>1. r[1] \in Z /\ r[2] \in Offsets /\ Within(ReadAt(step.box, r[2]), T[r[1]].box)
      BY <1>1 DEF Covered
    <2>2. Known(M.content[r[1]], T[r[1]])
      BY <2>1 DEF AllKnown
    <2>3. ReadAt(step.box, r[2]) \in Margins
      BY <1>1, <2>1 DEF Offsets, Margins, ReadAt
    <2> QED BY <2>1, <2>2, <2>3, KnownOrigins
  <1> DEFINE N == AfterLoop(M, step)
             layer(a) == Layer(step.box, Provenance(M, step.box, SetBy(step, a).reads))
  <1>3. /\ DOMAIN N = DOMAIN M /\ DOMAIN N.content = DOMAIN M.content
        /\ \A a \in DOMAIN M.content : a \notin Writes(step) => N.content[a] = M.content[a]
        /\ \A a \in DOMAIN M.content : a \in Writes(step) => N.content[a] = <<layer(a)>> \o M.content[a]
    BY DEF AfterLoop, Layered
  <1>4. \A a : layer(a).box = step.box /\ layer(a).from = Provenance(M, step.box, SetBy(step, a).reads)
    BY DEF Layer
  <1> HIDE DEF N, layer
  <1>5. Layered(N)
    <2> SUFFICES ASSUME NEW a \in DOMAIN M.content PROVE \E X : N.content[a] \in Seq(X)
      BY <1>3 DEF Layered
    <2>1. PICK X : M.content[a] \in Seq(X)
      BY DEF Layered
    <2>2. CASE a \in Writes(step)
      <3> DEFINE A == X \cup {layer(a)}
                 l == layer(a)
      <3>1. l \in A /\ M.content[a] \in Seq(A)
        BY <2>1
      <3> HIDE DEF A, l
      <3>2. <<l>> \o M.content[a] \in Seq(A)
        BY <3>1
      <3> QED BY <1>3, <2>2, <3>2 DEF l
    <2>3. CASE a \notin Writes(step)
      BY <1>3, <2>1, <2>3
    <2> QED BY <2>2, <2>3
  <1>6. AllKnown(U, Y, N)
    <2> SUFFICES ASSUME NEW a \in Y PROVE a \in DOMAIN N.content /\ Known(N.content[a], U[a])
      BY DEF AllKnown
    <2>1. CASE a \in Z /\ a \notin Writes(step) /\ U[a] = T[a]
      BY <1>3, <2>1 DEF AllKnown
    <2>2. CASE /\ U[a].box \in Margins /\ U[a].from \in Margins
               /\ (a \in Writes(step) /\ Within(U[a].box, step.box)) \/ (a \in Z /\ Weaker(T[a], U[a]))
               /\ \A x \in step.sets : a \in x.writes => Carried(T, x.reads, U[a])
      <3>1. a \in DOMAIN M.content
        BY <2>2 DEF AllKnown
      <3>2. a \in Z /\ Weaker(T[a], U[a]) => Known(M.content[a], U[a])
        BY WeakerKnown DEF AllKnown
      <3>3. CASE a \notin Writes(step)
        BY <1>3, <2>2, <3>1, <3>2, <3>3
      <3>4. CASE a \in Writes(step)
        <4> DEFINE x == SetBy(step, a)
        <4>1. x \in step.sets /\ a \in x.writes
          BY <3>4 DEF SetBy, Writes
        <4> HIDE DEF x
        <4>2. Covered(T, Z, step.box, x.reads) /\ Carried(T, x.reads, U[a])
          BY <1>1, <2>2, <4>1
        <4>3. \A q \in Provenance(M, step.box, x.reads) : Comes(q, U[a])
          BY <1>1, <2>2, <4>2, ProvenanceComes
        <4> DEFINE l == layer(a)
        <4>4. l.box = step.box /\ \A r \in l.from : Comes(r, U[a])
          BY <1>4, <4>3 DEF x
        <4> HIDE DEF l
        <4>5. Known(M.content[a], U[a]) \/ Within(U[a].box, l.box)
          BY <2>2, <3>2, <4>4
        <4>6. PICK X : M.content[a] \in Seq(X)
          BY <3>1 DEF Layered
        <4>7. Known(<<l>> \o M.content[a], U[a])
          BY <1>1, <2>2, <4>4, <4>5, <4>6, PushKnown
        <4> QED BY <1>3, <3>1, <3>4, <4>7 DEF l
      <3> QED BY <3>3, <3>4
    <2> QED BY <1>1, <2>1, <2>2
  <1> QED BY <1>2, <1>3, <1>5, <1>6 DEF N

\* The same of an allocation.
LEMMA ScratchTells ==
    ASSUME NEW T, NEW Z, NEW M, Layered(M), AllKnown(T, Z, M), NEW step, step.op = "scratch", NEW U, NEW Y,
           StepGives(T, Z, step, U, Y)
    PROVE  LET N == AfterScratch(M, step) IN
           Layered(N) /\ DOMAIN N.content = DOMAIN M.content /\ AllKnown(U, Y, N)
  <1> DEFINE N == AfterScratch(M, step)
  <1>1. "content" \in DOMAIN N /\ DOMAIN N.content = DOMAIN M.content
    BY DEF AfterScratch
  <1>2. \A a \in DOMAIN M.content : N.content[a] = IF a \in Writes(step) THEN <<>> ELSE M.content[a]
    BY DEF AfterScratch
  <1> HIDE DEF N
  <1>3. Layered(N)
    <2>1. <<>> \in Seq({})
      OBVIOUS
    <2> QED BY <1>1, <1>2, <2>1 DEF Layered
  <1>4. AllKnown(U, Y, N)
    BY <1>1, <1>2 DEF StepGives, AllKnown
  <1> QED BY <1>1, <1>3, <1>4 DEF N

\* The first of some steps, and the others.
LEMMA FirstGives ==
    ASSUME NEW T, NEW Z, NEW k, k # <<>>, NEW U, NEW Y, Gives(T, Z, k, U, Y)
    PROVE  \E S, W : StepGives(T, Z, Head(k), S, W) /\ Gives(S, W, Tail(k), U, Y)
  <1>1. PICK X : k \in Seq(X)
    BY DEF Gives
  <1>2. PICK e : /\ e[0] = <<T, Z>>
                 /\ Follows(e[Len(k)][1], e[Len(k)][2], U, Y)
                 /\ \A i \in 1 .. Len(k) : StepGives(e[i - 1][1], e[i - 1][2], k[i], e[i][1], e[i][2])
    BY DEF Gives
  <1> DEFINE n == Len(k)
             rest == Tail(k)
             S == e[1][1]
             W == e[1][2]
             f == [i \in 0 .. n - 1 |-> IF i = 0 THEN <<S, W>> ELSE e[i + 1]]
  <1>3. /\ n \in Nat /\ n >= 1 /\ Head(k) = k[1] /\ rest \in Seq(X) /\ Len(rest) = n - 1
        /\ \A i \in 1 .. n - 1 : rest[i] = k[i + 1]
    BY <1>1
  <1>4. f[0] = <<S, W>> /\ \A i \in 1 .. n - 1 : f[i] = e[i + 1]
    BY <1>3
  <1>5. S = e[1][1] /\ W = e[1][2]
    OBVIOUS
  <1> HIDE DEF n, rest, f, S, W
  <1>6. StepGives(T, Z, Head(k), S, W)
    <2>1. 1 \in 1 .. Len(k) /\ 1 - 1 = 0
      BY <1>3 DEF n
    <2>2. StepGives(e[0][1], e[0][2], k[1], e[1][1], e[1][2])
      BY <1>2, <2>1
    <2>3. e[0][1] = T /\ e[0][2] = Z
      BY <1>2
    <2> QED BY <1>3, <1>5, <2>2, <2>3
  <1>7. ASSUME NEW i \in 1 .. Len(rest)
        PROVE  StepGives(f[i - 1][1], f[i - 1][2], rest[i], f[i][1], f[i][2])
    <2>1. i + 1 \in 1 .. Len(k) /\ (i + 1) - 1 = i /\ i \in 1 .. n - 1
      BY <1>3 DEF n
    <2>2. StepGives(e[i][1], e[i][2], k[i + 1], e[i + 1][1], e[i + 1][2])
      BY <1>2, <2>1
    <2>3. f[i - 1][1] = e[i][1] /\ f[i - 1][2] = e[i][2]
      <3>1. CASE i = 1
        BY <1>4, <1>5, <3>1
      <3>2. CASE i # 1
        <4>1. i - 1 \in 1 .. n - 1 /\ (i - 1) + 1 = i
          BY <1>3, <2>1, <3>2
        <4>2. f[i - 1] = e[i]
          BY <4>1, <1>4
        <4> QED BY <4>2
      <3> QED BY <3>1, <3>2
    <2> QED BY <1>3, <1>4, <2>1, <2>2, <2>3
  <1>8. Follows(f[Len(rest)][1], f[Len(rest)][2], U, Y)
    <2>1. f[n - 1][1] = e[n][1] /\ f[n - 1][2] = e[n][2]
      <3>1. CASE n = 1
        BY <1>4, <1>5, <3>1
      <3>2. CASE n # 1
        <4>1. n - 1 \in 1 .. n - 1 /\ (n - 1) + 1 = n
          BY <1>3, <3>2
        <4>2. f[n - 1] = e[n]
          BY <4>1, <1>4
        <4> QED BY <4>2
      <3> QED BY <3>1, <3>2
    <2> QED BY <1>2, <1>3, <2>1 DEF n
  <1>9. Gives(S, W, rest, U, Y)
    BY <1>3, <1>4, <1>7, <1>8 DEF Gives
  <1> QED BY <1>6, <1>9 DEF rest

-----------------------------------------------------------------------------
\* Boxes

\* A box by its margins
Box(w, e, s, n) == [w |-> w, e |-> e, s |-> s, n |-> n]

\* Growing a box, each way.
LEMMA GrowXBox ==
    ASSUME NEW w \in Int, NEW e \in Int, NEW s \in Int, NEW n \in Int, NEW k \in Int, NEW x, x = w + k, NEW y, y = e + k
    PROVE  GrowX(Box(w, e, s, n), k) = Box(x, y, s, n)
  <1> DEFINE g == GrowX(Box(w, e, s, n), k)
             b == Box(x, y, s, n)
  <1>1. g.w = x /\ g.e = y /\ g.s = s /\ g.n = n
    BY DEF GrowX, Box
  <1>2. g = [i \in {"w", "e", "s", "n"} |-> g[i]]
    BY DEF GrowX, Box
  <1>3. b = [i \in {"w", "e", "s", "n"} |-> b[i]]
    BY DEF Box
  <1>4. \A i \in {"w", "e", "s", "n"} : g[i] = b[i]
    BY <1>1 DEF Box
  <1> HIDE DEF g, b
  <1>5. g = b
    BY <1>2, <1>3, <1>4
  <1> QED BY <1>5 DEF g, b

\* North and south.
LEMMA GrowYBox ==
    ASSUME NEW w \in Int, NEW e \in Int, NEW s \in Int, NEW n \in Int, NEW k \in Int, NEW x, x = s + k, NEW y, y = n + k
    PROVE  GrowY(Box(w, e, s, n), k) = Box(w, e, x, y)
  <1> DEFINE g == GrowY(Box(w, e, s, n), k)
             b == Box(w, e, x, y)
  <1>1. g.w = w /\ g.e = e /\ g.s = x /\ g.n = y
    BY DEF GrowY, Box
  <1>2. g = [i \in {"w", "e", "s", "n"} |-> g[i]]
    BY DEF GrowY, Box
  <1>3. b = [i \in {"w", "e", "s", "n"} |-> b[i]]
    BY DEF Box
  <1>4. \A i \in {"w", "e", "s", "n"} : g[i] = b[i]
    BY <1>1 DEF Box
  <1> HIDE DEF g, b
  <1>5. g = b
    BY <1>2, <1>3, <1>4
  <1> QED BY <1>5 DEF g, b

\* At the start only.
LEMMA GrowLoXBox ==
    ASSUME NEW w \in Int, NEW e \in Int, NEW s \in Int, NEW n \in Int, NEW x, x = w + 1
    PROVE  GrowLoX(Box(w, e, s, n)) = Box(x, e, s, n)
  <1> DEFINE g == GrowLoX(Box(w, e, s, n))
             b == Box(x, e, s, n)
  <1>1. g.w = x /\ g.e = e /\ g.s = s /\ g.n = n
    BY DEF GrowLoX, Box
  <1>2. g = [i \in {"w", "e", "s", "n"} |-> g[i]]
    BY DEF GrowLoX, Box
  <1>3. b = [i \in {"w", "e", "s", "n"} |-> b[i]]
    BY DEF Box
  <1>4. \A i \in {"w", "e", "s", "n"} : g[i] = b[i]
    BY <1>1 DEF Box
  <1> HIDE DEF g, b
  <1>5. g = b
    BY <1>2, <1>3, <1>4
  <1> QED BY <1>5 DEF g, b

\* South only.
LEMMA GrowLoYBox ==
    ASSUME NEW w \in Int, NEW e \in Int, NEW s \in Int, NEW n \in Int, NEW x, x = s + 1
    PROVE  GrowLoY(Box(w, e, s, n)) = Box(w, e, x, n)
  <1> DEFINE g == GrowLoY(Box(w, e, s, n))
             b == Box(w, e, x, n)
  <1>1. g.w = w /\ g.e = e /\ g.s = x /\ g.n = n
    BY DEF GrowLoY, Box
  <1>2. g = [i \in {"w", "e", "s", "n"} |-> g[i]]
    BY DEF GrowLoY, Box
  <1>3. b = [i \in {"w", "e", "s", "n"} |-> b[i]]
    BY DEF Box
  <1>4. \A i \in {"w", "e", "s", "n"} : g[i] = b[i]
    BY <1>1 DEF Box
  <1> HIDE DEF g, b
  <1>5. g = b
    BY <1>2, <1>3, <1>4
  <1> QED BY <1>5 DEF g, b

\* Boxes are boxes.
LEMMA BoxIs ==
    ASSUME NEW w \in Int, NEW e \in Int, NEW s \in Int, NEW n \in Int
    PROVE  Box(w, e, s, n) \in Margins
  BY DEF Box, Margins

\* The caller's cells.
LEMMA DataBoxIs ==
    ASSUME NEW cfg, cfg.halo \in Nat
    PROVE  DataBox(cfg) = Box(cfg.halo, cfg.halo, cfg.halo, cfg.halo)
  <1> DEFINE H == cfg.halo
  <1>1. bx0 = Box(0, 0, 0, 0)
    BY DEF bx0, Box
  <1> HIDE DEF H
  <1>2. H \in Int
    BY DEF H
  <1>3. GrowY(Box(0, 0, 0, 0), H) = Box(0, 0, H, H)
    BY <1>2, GrowYBox
  <1>4. GrowX(Box(0, 0, H, H), H) = Box(H, H, H, H)
    BY <1>2, GrowXBox
  <1> QED BY <1>1, <1>3, <1>4 DEF DataBox, H

\* Reads of one part and of another.
LEMMA BothRead ==
    ASSUME NEW T, NEW R, NEW S
    PROVE  /\ \A Z, box : Covered(T, Z, box, R \cup S) <=> Covered(T, Z, box, R) /\ Covered(T, Z, box, S)
           /\ \A t : Carried(T, R \cup S, t) <=> Carried(T, R, t) /\ Carried(T, S, t)
  BY DEF Covered, Carried

\* Steps side by side.
LEMMA Joined == \A a, b : <<a>> \o <<b>> = <<a, b>>
  <1> TAKE a, b
  <1> DEFINE X == {a, b}
             x == <<a>>
             y == <<b>>
             z == x \o y
  <1>1. a \in X /\ b \in X
    OBVIOUS
  <1> HIDE DEF X
  <1>2. x \in Seq(X) /\ y \in Seq(X) /\ Len(x) = 1 /\ Len(y) = 1 /\ x[1] = a /\ y[1] = b
    BY <1>1
  <1> HIDE DEF x, y
  <1>3. z \in Seq(X) /\ Len(z) = 2 /\ z[1] = a /\ z[2] = b
    BY <1>2 DEF x, y
  <1> HIDE DEF z
  <1>4. z = <<a, b>>
    BY <1>3
  <1> QED BY <1>4 DEF x, y, z

\* Two steps.
LEMMA TwoStepsGive ==
    ASSUME NEW T, NEW Z, NEW a, NEW U, NEW Y, NEW b, NEW V, NEW X, Gives(T, Z, <<a>>, U, Y), Gives(U, Y, <<b>>, V, X)
    PROVE  Gives(T, Z, <<a, b>>, V, X)
  BY ThenGives, Joined

\* A loop that sets one array, of which another thing is claimed from then on.
LEMMA NewClaimGives ==
    ASSUME NEW T, Table(T), NEW Z, Z \subseteq DOMAIN T, NEW box \in Margins, NEW a \in DOMAIN T, NEW R, NEW claim,
           claim.box \in Margins, claim.from \in Margins, Within(claim.box, box),
           Covered(T, Z, box, R), Carried(T, R, claim)
    PROVE  Gives(T, Z, <<Loop(box, {Set({a}, R)})>>, [T EXCEPT ![a] = claim], Z \cup {a})
  <1> DEFINE step == Loop(box, {Set({a}, R)})
             U == [T EXCEPT ![a] = claim]
  <1>1. /\ step.op = "loop" /\ step.box = box
        /\ \A x \in step.sets : x.writes = {a} /\ x.reads = R
        /\ Writes(step) = {a}
    BY DEF Loop, Set, Writes
  <1>2. U[a] = claim /\ \A b \in DOMAIN T : b # a => U[b] = T[b]
    OBVIOUS
  <1> HIDE DEF step, U
  <1>4. StepGives(T, Z, step, U, Z \cup {a})
    BY <1>1, <1>2 DEF StepGives
  <1> QED BY <1>4, OneStepGives DEF step, U

-----------------------------------------------------------------------------
\* Claims about continuity

\* What is claimed of an array, and of one the caller hands over
Claims(T, a, claim) == a \in DOMAIN T /\ T[a] = claim
Argument(T, H, a, Q) == a \in Q /\ Claims(T, a, Claim(Box(H, H, H, H), Box(0, 0, 0, 0), {a}))

\* What a sweep is told: n is how far its cells reach to the sides, p how far to the
\* sides h comes from; m is how far the sweep reaches.
SweepOf(cfg, n, m, p, Q, R, D) ==
    /\ cfg.halo \in Nat /\ cfg.stencil \in Nat /\ n \in Nat /\ m \in Nat /\ p \in Nat
    /\ cfg.scheme \in Schemes /\ SchemeStencil(cfg.scheme) <= cfg.stencil
    /\ cfg.stencil <= m /\ m <= cfg.halo /\ n <= cfg.halo
    /\ cfg.aggress => 2 <= m
    /\ Q \subseteq D /\ D \subseteq R

\* What a sweep is told, in numbers.
LEMMA SweepNumbers ==
    ASSUME NEW cfg, NEW n, NEW m, NEW p, NEW Q, NEW R, NEW D, SweepOf(cfg, n, m, p, Q, R, D)
    PROVE  /\ cfg.halo \in Nat /\ cfg.stencil \in Nat /\ n \in Nat /\ m \in Nat /\ p \in Nat
           /\ 1 <= cfg.stencil /\ cfg.stencil <= m /\ 1 <= m /\ m <= cfg.halo /\ n <= cfg.halo
           /\ Q \subseteq D /\ D \subseteq R
  BY DEF SweepOf, Schemes, SchemeStencil

\* Facts about T[a] when only another claim changes.
LEMMA ClaimStays ==
    ASSUME NEW T, NEW a, NEW claim, NEW b, b # a, NEW c
    PROVE  /\ Claims(T, b, c) => Claims([T EXCEPT ![a] = claim], b, c)
           /\ \A H, Q : Argument(T, H, b, Q) => Argument([T EXCEPT ![a] = claim], H, b, Q)
  <1> DEFINE U == [T EXCEPT ![a] = claim]
  <1>1. b \in DOMAIN T => b \in DOMAIN U /\ U[b] = T[b]
    OBVIOUS
  <1> HIDE DEF U
  <1>2. \A x : Claims(T, b, x) => Claims(U, b, x)
    BY <1>1 DEF Claims
  <1>3. \A H, Q : Argument(T, H, b, Q) => Argument(U, H, b, Q)
    BY <1>2 DEF Argument
  <1> QED BY <1>2, <1>3 DEF U

\* A claim changed.
LEMMA ClaimChanged ==
    ASSUME NEW T, Table(T), NEW a \in DOMAIN T, NEW claim, claim.box \in Margins, claim.from \in Margins
    PROVE  /\ Table([T EXCEPT ![a] = claim]) /\ Claims([T EXCEPT ![a] = claim], a, claim)
           /\ \A Z : Follows(T, Z, [T EXCEPT ![a] = claim], (Z \cap DOMAIN T) \ {a})
           /\ \A Z : Follows([T EXCEPT ![a] = claim], Z, T, (Z \cap DOMAIN T) \ {a})
  <1> DEFINE U == [T EXCEPT ![a] = claim]
  <1>1. DOMAIN U = DOMAIN T /\ U[a] = claim /\ \A b \in DOMAIN T : b # a => U[b] = T[b]
    OBVIOUS
  <1>2. U = [b \in DOMAIN T |-> IF b = a THEN claim ELSE T[b]]
    OBVIOUS
  <1> HIDE DEF U
  <1>3. Table(U)
    BY <1>1 DEF Table
  <1>4. Claims(U, a, claim)
    BY <1>1 DEF Claims
  <1>5. \A Z : Follows(U, Z, T, (Z \cap DOMAIN T) \ {a}) /\ Follows(T, Z, U, (Z \cap DOMAIN T) \ {a})
    BY <1>1 DEF Follows
  <1> QED BY <1>3, <1>4, <1>5 DEF U

\* What is known may be put otherwise before some steps.
LEMMA GivesFrom ==
    ASSUME NEW S, NEW W, NEW T, NEW Z, Follows(S, W, T, Z), NEW k, NEW U, NEW Y, Gives(T, Z, k, U, Y)
    PROVE  Gives(S, W, k, U, Y)
  <1>1. Gives(S, W, <<>> \o k, U, Y)
    BY NoStepGives, ThenGives
  <1>2. PICK X : k \in Seq(X)
    BY DEF Gives
  <1>3. <<>> \o k = k
    BY <1>2
  <1> QED BY <1>1, <1>3

\* Four steps.
LEMMA JoinedPairs == \A a, b, c, d : <<a, b>> \o <<c, d>> = <<a, b, c, d>>
  <1> TAKE a, b, c, d
  <1> DEFINE X == {a, b, c, d}
             x == <<a, b>>
             y == <<c, d>>
             z == x \o y
  <1>1. a \in X /\ b \in X /\ c \in X /\ d \in X
    OBVIOUS
  <1> HIDE DEF X
  <1>2. x \in Seq(X) /\ y \in Seq(X) /\ Len(x) = 2 /\ Len(y) = 2 /\ x[1] = a /\ x[2] = b /\ y[1] = c /\ y[2] = d
    BY <1>1
  <1> HIDE DEF x, y
  <1>3. z \in Seq(X) /\ Len(z) = 4 /\ z[1] = a /\ z[2] = b /\ z[3] = c /\ z[4] = d
    BY <1>2 DEF x, y
  <1> HIDE DEF z
  <1>4. z = <<a, b, c, d>>
    BY <1>3
  <1> QED BY <1>4 DEF x, y, z
\* The arrays whose claims a zonal sweep uses: its arguments and h; the edges; and what
\* it finds at the faces, from arrays of Q, or of R where the transport that is asked
\* for counts, and du from those of D.
ZonalClaims(T, cfg, h, n, m, p, Q, R, D) ==
    /\ Table(T) /\ "h" \in DOMAIN T
    /\ Argument(T, cfg.halo, "u", Q)
    /\ Argument(T, cfg.halo, "face_u", Q)
    /\ Argument(T, cfg.halo, "cell_x", Q)
    /\ Argument(T, cfg.halo, "mask2dT", Q)
    /\ Argument(T, cfg.halo, "visc_rem_u", Q)
    /\ Argument(T, cfg.halo, "uhbt", R)
    /\ \E k \in Nat : n <= k /\ Claims(T, h, Claim(Box(cfg.stencil, cfg.stencil, k, k), Box(0, 0, p, p), Q))
    /\ Claims(T, "slp", Claim(Box(2, 2, n, n), Box(1, 1, p, p), Q))
    /\ Claims(T, "h_W", Claim(Box(1, 1, n, n), Box(m - 1, m - 1, p, p), Q))
    /\ Claims(T, "h_E", Claim(Box(1, 1, n, n), Box(m - 1, m - 1, p, p), Q))
    /\ Claims(T, "uh_tot_0", Claim(Box(1, 0, n, n), Box(m - 1, m, p, p), Q))
    /\ Claims(T, "duhdu_tot_0", Claim(Box(1, 0, n, n), Box(m - 1, m, p, p), Q))
    /\ Claims(T, "du_max_CFL", Claim(Box(1, 0, n, n), Box(m - 1, m, p, p), Q))
    /\ Claims(T, "du_min_CFL", Claim(Box(1, 0, n, n), Box(m - 1, m, p, p), Q))
    /\ Claims(T, "visc_rem_max", Claim(Box(1, 0, n, n), Box(m - 1, m, p, p), Q))
    /\ Claims(T, "do_I", Claim(Box(1, 0, n, n), Box(m - 1, m, p, p), Q))
    /\ Claims(T, "visc_rem_u_tmp", Claim(Box(1, 0, n, n), Box(m - 1, m, p, p), Q))
    /\ Claims(T, "FA_u", Claim(Box(1, 0, n, n), Box(m - 1, m, p, p), Q))
    /\ Claims(T, "uh", Claim(Box(1, 0, n, n), Box(m - 1, m, p, p), R))
    /\ Claims(T, "u_cor", Claim(Box(1, 0, n, n), Box(m - 1, m, p, p), R))
    /\ Claims(T, "du_cor", Claim(Box(1, 0, n, n), Box(m - 1, m, p, p), R))
    /\ Claims(T, "h_u", Claim(Box(1, 0, n, n), Box(m - 1, m, p, p), R))
    /\ Claims(T, "du", Claim(Box(1, 0, n, n), Box(m - 1, m, p, p), D))

\* The edges.
LEMMA ZonalEdgesGive ==
    ASSUME NEW cfg, NEW h, NEW n, NEW m, NEW p, NEW Q, NEW R, NEW D, SweepOf(cfg, n, m, p, Q, R, D),
           NEW T, ZonalClaims(T, cfg, h, n, m, p, Q, R, D), NEW Z, {h, "mask2dT"} \subseteq Z,
           h \notin {"slp", "h_W", "h_E"}
    PROVE  Gives(T, Z, zonal_edge_thickness(Box(0, 0, n, n), h, cfg), T, (Z \ {"slp"}) \cup {"h_W", "h_E"})
  <1> DEFINE H == cfg.halo
             cells == Box(0, 0, n, n)
             bx == Box(1, 1, n, n)
             bxE == Box(2, 2, n, n)
  <1> DEFINE st == cfg.stencil
  <1>1. /\ cells \in Margins /\ bx \in Margins /\ bxE \in Margins
        /\ GrowX(cells, 1) = bx /\ GrowX(cells, 2) = bxE
    <2>1. n \in Int
      BY DEF SweepOf
    <2>2. cells \in Margins /\ bx \in Margins /\ bxE \in Margins
      BY <2>1, BoxIs
    <2>3. GrowX(cells, 1) = bx
      BY <2>1, GrowXBox
    <2>4. GrowX(cells, 2) = bxE
      BY <2>1, GrowXBox
    <2> QED BY <2>2, <2>3, <2>4
  <1>2. /\ H \in Nat /\ n \in Nat /\ m \in Nat /\ p \in Nat /\ st \in Nat /\ n <= H /\ st <= m /\ m <= H
        /\ DataBox(cfg) = Box(H, H, H, H)
    BY DataBoxIs DEF SweepOf
  <1>3. Table(T)
    BY DEF ZonalClaims
  <1>6. /\ \E k \in Nat : n <= k /\ Claims(T, h, Claim(Box(st, st, k, k), Box(0, 0, p, p), Q))
        /\ Claims(T, "slp", Claim(bxE, Box(1, 1, p, p), Q))
        /\ Claims(T, "h_W", Claim(bx, Box(m - 1, m - 1, p, p), Q))
        /\ Claims(T, "h_E", Claim(bx, Box(m - 1, m - 1, p, p), Q))
        /\ Argument(T, H, "mask2dT", Q)
    BY DEF ZonalClaims
  <1>4. CASE cfg.scheme = "upwind_1st"
    <2>1. 1 <= st
      BY <1>4 DEF SweepOf, SchemeStencil
    <2>4. Computes(T, Z, bx, {"h_W", "h_E"}, At({h}, Here))
      BY <1>2, <1>6, <2>1 DEF Computes, Covered, Carried, At, Here, ReadAt, Within, Box, Claim, Claims, Argument, Offsets
    <2>5. Gives(T, Z, <<Loop(bx, {Set({"h_W", "h_E"}, At({h}, Here))})>>, T, Z \cup {"h_W", "h_E"})
      BY <1>1, <1>3, <2>4, OneSetGives
    <2>6. Follows(T, Z \cup {"h_W", "h_E"}, T, (Z \ {"slp"}) \cup {"h_W", "h_E"})
      BY DEF Follows
    <2>7. Gives(T, Z, <<Loop(bx, {Set({"h_W", "h_E"}, At({h}, Here))})>>, T, (Z \ {"slp"}) \cup {"h_W", "h_E"})
      BY <2>5, <2>6, GivesLess
    <2> QED BY <1>1, <1>4, <2>7 DEF zonal_edge_thickness
  <1>5. CASE cfg.scheme # "upwind_1st"
    <2> DEFINE X == Z \ {"slp"}
               W == X \cup When(cfg.scheme = "PPM", {"slp"})
    <2>1. 2 <= st /\ (cfg.scheme = "PPM" => 3 <= st)
      BY <1>5 DEF SweepOf, SchemeStencil, Schemes
    <2>4. Gives(T, Z, <<Scratch(bxE, {"slp"})>>, T, X)
      BY ScratchGives
    <2> DEFINE near == At({h, "mask2dT"}, West \cup Here \cup East)
               slopes == <<Loop(bxE, {Set({"slp"}, near)})>>
               reads == near \cup When(cfg.scheme = "PPM", At({"slp"}, West \cup Here \cup East))
               edges == <<Loop(bx, {Set({"h_W", "h_E"}, reads)})>>
    <2>5. cfg.scheme = "PPM" => Gives(T, X, slopes, T, W)
      <3> SUFFICES ASSUME cfg.scheme = "PPM" PROVE Gives(T, X, slopes, T, W)
        OBVIOUS
      <3>1. Computes(T, X, bxE, {"slp"}, near)
        BY <1>2, <1>6, <2>1 DEF Computes, Covered, Carried, At, Here, East, West, ReadAt, Within, Box, Claim, Claims, Argument, Offsets
      <3>2. Gives(T, X, slopes, T, X \cup {"slp"})
        BY <1>1, <1>3, <3>1, OneSetGives
      <3> QED BY <3>2 DEF When
    <2>6. Gives(T, W, edges, T, W \cup {"h_W", "h_E"})
      <3>1. Computes(T, W, bx, {"h_W", "h_E"}, reads)
        BY <1>2, <1>6, <2>1 DEF Computes, Covered, Carried, At, Here, East, West, ReadAt, Within, Box, Claim, Claims, Argument, Offsets, When
      <3> QED BY <1>1, <1>3, <3>1, OneSetGives
    <2>7. Gives(T, W \cup {"h_W", "h_E"}, LimitPosX(bx, h), T, W \cup {"h_W", "h_E"})
      <3> DEFINE V == W \cup {"h_W", "h_E"}
                 here == At({h, "h_W", "h_E"}, Here)
      <3>1. Computes(T, V, bx, {"h_W", "h_E"}, here)
        BY <1>2, <1>6, <2>1 DEF Computes, Covered, Carried, At, Here, ReadAt, Within, Box, Claim, Claims, Argument, Offsets
      <3>2. V \cup {"h_W", "h_E"} = V
        OBVIOUS
      <3> HIDE DEF V, here
      <3>3. Gives(T, V, <<Loop(bx, {Set({"h_W", "h_E"}, here)})>>, T, V \cup {"h_W", "h_E"})
        BY <1>1, <1>3, <3>1, OneSetGives
      <3> QED BY <3>2, <3>3 DEF LimitPosX, V, here
    <2>8. Follows(T, W \cup {"h_W", "h_E"}, T, (Z \ {"slp"}) \cup {"h_W", "h_E"})
      BY DEF Follows
    <2> DEFINE V == W \cup {"h_W", "h_E"}
               slopesIf == IF cfg.scheme = "PPM" THEN slopes \o edges ELSE edges
    <2>9. Gives(T, X, slopesIf, T, V)
      <3>1. CASE cfg.scheme = "PPM"
        BY <3>1, <2>5, <2>6, ThenGives
      <3>2. CASE cfg.scheme # "PPM"
        <4>1. W = X
          BY <3>2 DEF When
        <4> QED BY <4>1, <3>2, <2>6
      <3> QED BY <3>1, <3>2
    <2>10. Gives(T, Z, <<Scratch(bxE, {"slp"})>> \o slopesIf, T, V)
      BY <2>4, <2>9, ThenGives
    <2>11. Gives(T, Z, <<Scratch(bxE, {"slp"})>> \o slopesIf \o LimitPosX(bx, h), T, V)
      BY <2>7, <2>10, ThenGives
    <2>12. Gives(T, Z, <<Scratch(bxE, {"slp"})>> \o slopesIf \o LimitPosX(bx, h), T, (Z \ {"slp"}) \cup {"h_W", "h_E"})
      BY <2>8, <2>11, GivesLess
    <2>13. slopes \o edges = <<Loop(bxE, {Set({"slp"}, near)}), Loop(bx, {Set({"h_W", "h_E"}, reads)})>>
      BY Joined
    <2> QED BY <1>1, <1>5, <2>12, <2>13 DEF zonal_edge_thickness, PPM_reconstruction_x
  <1> QED BY <1>4, <1>5

\* What the transport through a face is found from.
LEMMA ZonalFluxFeeds ==
    ASSUME NEW cfg, NEW h, NEW n, NEW m, NEW p, NEW Q, NEW R, NEW D, SweepOf(cfg, n, m, p, Q, R, D),
           NEW T, ZonalClaims(T, cfg, h, n, m, p, Q, R, D), NEW Z, {h, "u", "face_u", "cell_x", "h_W", "h_E"} \subseteq Z
    PROVE  /\ Covered(T, Z, Box(1, 0, n, n), ZonalFlux("u", h))
           /\ \A B : Q \subseteq B => Carried(T, ZonalFlux("u", h), Claim(Box(1, 0, n, n), Box(m - 1, m, p, p), B))
  <1>1. /\ cfg.halo \in Nat /\ cfg.stencil \in Nat /\ n \in Nat /\ m \in Nat /\ p \in Nat
        /\ 1 <= cfg.stencil /\ cfg.stencil <= m /\ m <= cfg.halo /\ n <= cfg.halo
        /\ Argument(T, cfg.halo, "u", Q)
        /\ Argument(T, cfg.halo, "face_u", Q)
        /\ Argument(T, cfg.halo, "cell_x", Q)
        /\ \E k \in Nat : n <= k /\ Claims(T, h, Claim(Box(cfg.stencil, cfg.stencil, k, k), Box(0, 0, p, p), Q))
        /\ Claims(T, "h_W", Claim(Box(1, 1, n, n), Box(m - 1, m - 1, p, p), Q))
        /\ Claims(T, "h_E", Claim(Box(1, 1, n, n), Box(m - 1, m - 1, p, p), Q))
    BY SweepNumbers DEF ZonalClaims
  <1> DEFINE st == cfg.stencil
             H == cfg.halo
             reads == ZonalFlux("u", h)
             near == At({"u", "face_u"}, Here)
             wide == At({h, "h_W", "h_E", "cell_x"}, Here \cup East)
  <1> HIDE DEF st, H
  <1>2. Covered(T, Z, Box(1, 0, n, n), reads)
    BY <1>1 DEF st, H, ZonalFlux, Covered, At, Here, East, ReadAt, Within, Box, Claim, Claims, Argument, Offsets
  <1>3. ASSUME NEW B, Q \subseteq B
        PROVE  Carried(T, reads, Claim(Box(1, 0, n, n), Box(m - 1, m, p, p), B))
    BY <1>1, <1>3 DEF st, H, ZonalFlux, Carried, At, Here, East, ReadAt, Within, Box, Claim, Claims, Argument
  <1> QED BY <1>2, <1>3

\* The iteration to a transport, or to none.
LEMMA ZonalAdjustGives ==
    ASSUME NEW cfg, NEW h, NEW n, NEW m, NEW p, NEW Q, NEW R, NEW D, SweepOf(cfg, n, m, p, Q, R, D),
           NEW T, ZonalClaims(T, cfg, h, n, m, p, Q, R, D), NEW Z,
           {h, "u", "face_u", "cell_x", "h_W", "h_E", "do_I", "du_max_CFL", "du_min_CFL", "uh_tot_0",
            "duhdu_tot_0", "visc_rem_u_tmp"} \subseteq Z,
           NEW target, NEW uh_3d, target \subseteq {"uhbt"}, uh_3d \subseteq {"uh"}, target \cup uh_3d \subseteq Z,
           target \cup uh_3d # {} => R \subseteq D
    PROVE  Gives(T, Z, zonal_flux_adjust(Box(0, 0, n, n), h, target, uh_3d), T, Z \cup {"du"})
  <1> DEFINE bx == Box(1, 0, n, n)
             flux == ZonalFlux("u", h)
             own == At(target \cup uh_3d, Here)
             sums == At({"do_I", "du_max_CFL", "du_min_CFL", "uh_tot_0", "duhdu_tot_0", "visc_rem_u_tmp"}, Here)
             H == cfg.halo
             set == {"du"} \cup uh_3d
  <1>1. Table(T)
    BY DEF ZonalClaims
  <1>2. /\ H \in Nat /\ n \in Nat /\ m \in Nat /\ p \in Nat
        /\ 1 <= m /\ m <= H /\ n <= H /\ Q \subseteq D /\ D \subseteq R
    BY SweepNumbers
  <1>3. /\ Claims(T, "do_I", Claim(Box(1, 0, n, n), Box(m - 1, m, p, p), Q))
        /\ Claims(T, "du_max_CFL", Claim(Box(1, 0, n, n), Box(m - 1, m, p, p), Q))
        /\ Claims(T, "du_min_CFL", Claim(Box(1, 0, n, n), Box(m - 1, m, p, p), Q))
        /\ Claims(T, "uh_tot_0", Claim(Box(1, 0, n, n), Box(m - 1, m, p, p), Q))
        /\ Claims(T, "duhdu_tot_0", Claim(Box(1, 0, n, n), Box(m - 1, m, p, p), Q))
        /\ Claims(T, "visc_rem_u_tmp", Claim(Box(1, 0, n, n), Box(m - 1, m, p, p), Q))
        /\ Argument(T, cfg.halo, "uhbt", R)
        /\ Claims(T, "uh", Claim(Box(1, 0, n, n), Box(m - 1, m, p, p), R))
        /\ Claims(T, "du", Claim(Box(1, 0, n, n), Box(m - 1, m, p, p), D))
    BY DEF ZonalClaims
  <1>4. bx \in Margins /\ GrowLoX(Box(0, 0, n, n)) = bx
    <2>1. n \in Int
      BY <1>2
    <2>2. bx \in Margins
      BY <2>1, BoxIs
    <2>3. GrowLoX(Box(0, 0, n, n)) = bx
      BY <2>1, GrowLoXBox
    <2> QED BY <2>2, <2>3
  <1>5. Covered(T, Z, bx, flux) /\ \A B : Q \subseteq B => Carried(T, flux, Claim(bx, Box(m - 1, m, p, p), B))
    BY ZonalFluxFeeds
  <1>6. Covered(T, Z, bx, sums) /\ \A B : Q \subseteq B => Carried(T, sums, Claim(bx, Box(m - 1, m, p, p), B))
    BY <1>2, <1>3 DEF Covered, Carried, At, Here, ReadAt, Within, Box, Claim, Claims, Argument, Offsets
  <1>7. Covered(T, Z, bx, own) /\ Carried(T, own, T["du"]) /\ Carried(T, own, T["uh"])
    <2>1. own # {} => R \subseteq D
      BY DEF At
    <2>2. ASSUME NEW r \in own
          PROVE  /\ r[1] \in Z /\ r[2] \in Offsets /\ Within(ReadAt(bx, r[2]), T[r[1]].box)
                 /\ Within(ReadAt(T[r[1]].from, r[2]), Box(m - 1, m, p, p)) /\ T[r[1]].of \subseteq R
      <3>1. r[1] \in Z /\ r[1] \in {"uhbt", "uh"} /\ r[2] = <<0, 0>>
        BY DEF At, Here
      <3>2. CASE r[1] = "uhbt"
        BY <1>2, <1>3, <3>1, <3>2 DEF ReadAt, Within, Box, Claim, Claims, Argument, Offsets
      <3>3. CASE r[1] = "uh"
        BY <1>2, <1>3, <3>1, <3>3 DEF ReadAt, Within, Box, Claim, Claims, Argument, Offsets
      <3> QED BY <3>1, <3>2, <3>3
    <2>3. T["du"].from = Box(m - 1, m, p, p) /\ T["uh"].from = Box(m - 1, m, p, p) /\ T["du"].of = D /\ T["uh"].of = R
      BY <1>3 DEF Claim, Claims
    <2> HIDE DEF own, bx
    <2>4. R \subseteq D => R = D
      BY <1>2
    <2> QED BY <2>1, <2>2, <2>3, <2>4 DEF Covered, Carried
  <1> HIDE DEF flux, sums, own
  <1>8. Carried(T, flux, T["du"]) /\ Carried(T, flux, T["uh"]) /\ Carried(T, sums, T["du"]) /\ Carried(T, sums, T["uh"])
    BY <1>2, <1>3, <1>5, <1>6 DEF Claims
  <1>9. Within(T["du"].box, bx) /\ Within(T["uh"].box, bx)
    BY <1>2, <1>3 DEF Within, Box, Claim, Claims, Argument
  <1>10. Computes(T, Z, bx, set, flux \cup own \cup sums)
    <2>1. Covered(T, Z, bx, flux \cup own \cup sums)
      BY <1>5, <1>6, <1>7, BothRead
    <2>2. Carried(T, flux \cup own \cup sums, T["du"]) /\ Carried(T, flux \cup own \cup sums, T["uh"])
      BY <1>7, <1>8, BothRead
    <2>3. \A a \in set : a = "du" \/ a = "uh"
      OBVIOUS
    <2> HIDE DEF set, bx
    <2> QED BY <1>3, <1>9, <2>1, <2>2, <2>3 DEF Computes, Claims
  <1>11. Z \cup set = Z \cup {"du"}
    OBVIOUS
  <1> DEFINE reads == flux \cup own \cup sums
  <1> HIDE DEF bx, set
  <1>12. Gives(T, Z, <<Loop(bx, {Set(set, reads)})>>, T, Z \cup set)
    BY <1>1, <1>4, <1>10, OneSetGives
  <1> QED BY <1>4, <1>11, <1>12 DEF zonal_flux_adjust, bx, set, flux, own, sums

\* The face areas, from the correction to no transport, and the thicknesses at faces.
LEMMA ZonalBTContGives ==
    ASSUME NEW cfg, NEW h, NEW n, NEW m, NEW p, NEW Q, NEW R, SweepOf(cfg, n, m, p, Q, R, Q),
           NEW T, ZonalClaims(T, cfg, h, n, m, p, Q, R, Q), NEW Z,
           {h, "u", "face_u", "cell_x", "h_W", "h_E", "do_I", "du_max_CFL", "du_min_CFL", "uh_tot_0",
            "duhdu_tot_0", "visc_rem_u_tmp", "visc_rem_max"} \subseteq Z,
           NEW given, "u_cor" \in given => "u_cor" \in Z
    PROVE  Gives(T, Z, zonal_BT_cont(Box(0, 0, n, n), h, given), T,
                 Z \cup {"du", "FA_u"} \cup When("h_u" \in given, {"h_u"}))
  <1> DEFINE bx == Box(1, 0, n, n)
             cells == Box(0, 0, n, n)
             flux == ZonalFlux("u", h)
             H == cfg.halo
             st == cfg.stencil
             Y == Z \cup {"du"}
             X == Y \cup {"FA_u"}
  <1>1. Table(T)
    BY DEF ZonalClaims
  <1>2. /\ H \in Nat /\ st \in Nat /\ n \in Nat /\ m \in Nat /\ p \in Nat
        /\ 1 <= st /\ st <= m /\ m <= H /\ n <= H /\ Q \subseteq R
    BY SweepNumbers
  <1>3. /\ Claims(T, "do_I", Claim(Box(1, 0, n, n), Box(m - 1, m, p, p), Q))
        /\ Claims(T, "visc_rem_u_tmp", Claim(Box(1, 0, n, n), Box(m - 1, m, p, p), Q))
        /\ Claims(T, "visc_rem_max", Claim(Box(1, 0, n, n), Box(m - 1, m, p, p), Q))
        /\ Claims(T, "FA_u", Claim(Box(1, 0, n, n), Box(m - 1, m, p, p), Q))
        /\ Claims(T, "h_u", Claim(Box(1, 0, n, n), Box(m - 1, m, p, p), R))
        /\ Claims(T, "du", Claim(Box(1, 0, n, n), Box(m - 1, m, p, p), Q))
    BY DEF ZonalClaims
  <1>4. bx \in Margins /\ GrowLoX(Box(0, 0, n, n)) = bx
    <2>1. n \in Int
      BY <1>2
    <2>2. bx \in Margins
      BY <2>1, BoxIs
    <2>3. GrowLoX(Box(0, 0, n, n)) = bx
      BY <2>1, GrowLoXBox
    <2> QED BY <2>2, <2>3
  <1>5. Covered(T, Z, bx, flux) /\ \A B : Q \subseteq B => Carried(T, flux, Claim(bx, Box(m - 1, m, p, p), B))
    BY ZonalFluxFeeds
  <1>6. Gives(T, Z, zonal_flux_adjust(cells, h, {}, {}), T, Y)
    BY ZonalAdjustGives
  <1>7. Gives(T, Y, set_zonal_BT_cont(cells, h), T, X)
    <2> DEFINE sums == At({"du", "do_I", "visc_rem_u_tmp", "visc_rem_max"}, Here)
               reads == flux \cup sums
    <2>1. Covered(T, Y, bx, sums) /\ Carried(T, sums, T["FA_u"])
      BY <1>2, <1>3 DEF Covered, Carried, At, Here, ReadAt, Within, Box, Claim, Claims, Argument, Offsets
    <2>2. Covered(T, Y, bx, flux) /\ Carried(T, flux, T["FA_u"])
      BY <1>3, <1>5 DEF Covered, Claims
    <2>3. Within(T["FA_u"].box, bx)
      BY <1>2, <1>3 DEF Within, Box, Claim, Claims, Argument
    <2> HIDE DEF bx, flux, sums
    <2>4. Covered(T, Y, bx, reads) /\ Carried(T, reads, T["FA_u"])
      BY <2>1, <2>2, BothRead
    <2> HIDE DEF reads
    <2>5. Computes(T, Y, bx, {"FA_u"}, reads)
      BY <1>3, <2>3, <2>4 DEF Computes, Claims
    <2>6. Gives(T, Y, <<Loop(bx, {Set({"FA_u"}, reads)})>>, T, X)
      BY <1>1, <1>4, <2>5, OneSetGives
    <2> QED BY <1>4, <2>6 DEF set_zonal_BT_cont, reads, flux, sums
  <1>13. /\ Argument(T, cfg.halo, "u", Q)
         /\ Claims(T, "u_cor", Claim(Box(1, 0, n, n), Box(m - 1, m, p, p), R))
         /\ Argument(T, cfg.halo, "face_u", Q)
         /\ Argument(T, cfg.halo, "cell_x", Q)
    BY DEF ZonalClaims
  <1>14. /\ \E k \in Nat : n <= k /\ Claims(T, h, Claim(Box(cfg.stencil, cfg.stencil, k, k), Box(0, 0, p, p), Q))
         /\ Claims(T, "h_W", Claim(Box(1, 1, n, n), Box(m - 1, m - 1, p, p), Q))
         /\ Claims(T, "h_E", Claim(Box(1, 1, n, n), Box(m - 1, m - 1, p, p), Q))
    BY DEF ZonalClaims
  <1>8. \A velocity \in {"u", "u_cor"} : velocity \in Z =>
           Gives(T, X, zonal_flux_thickness(cells, velocity, h), T, X \cup {"h_u"})
    <2> SUFFICES ASSUME NEW velocity \in {"u", "u_cor"}, velocity \in Z
                 PROVE  Gives(T, X, zonal_flux_thickness(cells, velocity, h), T, X \cup {"h_u"})
      OBVIOUS
    <2> DEFINE reads == ZonalFlux(velocity, h) \cup At({"visc_rem_u_tmp"}, Here)
    <2>2. Covered(T, X, bx, reads) /\ Carried(T, reads, T["h_u"])
      <3>1. \A a \in {h, "u", "u_cor", "face_u", "cell_x", "h_W", "h_E", "visc_rem_u_tmp"} : a \in Z => a \in X
        OBVIOUS
      <3> HIDE DEF X, H, st
      <3>2. CASE velocity = "u"
        BY <1>2, <1>3, <1>13, <1>14, <3>1, <3>2 DEF H, st, ZonalFlux, Covered, Carried, At, Here, East, ReadAt, Within, Box, Claim, Claims, Argument, Offsets
      <3>3. CASE velocity = "u_cor"
        BY <1>2, <1>3, <1>13, <1>14, <3>1, <3>3 DEF H, st, ZonalFlux, Covered, Carried, At, Here, East, ReadAt, Within, Box, Claim, Claims, Argument, Offsets
      <3> QED BY <3>2, <3>3
    <2>3. Within(T["h_u"].box, bx)
      BY <1>2, <1>3 DEF Within, Box, Claim, Claims, Argument
    <2> HIDE DEF bx, reads, X
    <2>4. Computes(T, X, bx, {"h_u"}, reads)
      BY <1>3, <2>2, <2>3 DEF Computes, Claims
    <2>5. Gives(T, X, <<Loop(bx, {Set({"h_u"}, reads)})>>, T, X \cup {"h_u"})
      BY <1>1, <1>4, <2>4, OneSetGives
    <2> QED BY <1>4, <2>5 DEF zonal_flux_thickness, reads
  <1> DEFINE W == X \cup When("h_u" \in given, {"h_u"})
             last == IF "h_u" \in given
                     THEN zonal_flux_thickness(cells, IF "u_cor" \in given THEN "u_cor" ELSE "u", h)
                     ELSE <<>>
  <1>9. Gives(T, X, last, T, W)
    <2>1. CASE "h_u" \in given
      <3>1. W = X \cup {"h_u"}
        BY <2>1 DEF When
      <3>2. CASE "u_cor" \in given
        BY <1>8, <2>1, <3>1, <3>2
      <3>3. CASE "u_cor" \notin given
        BY <1>8, <2>1, <3>1, <3>3
      <3> QED BY <3>2, <3>3
    <2>2. CASE "h_u" \notin given
      <3>1. Follows(T, X, T, W)
        BY <2>2 DEF When, Follows
      <3> QED BY <2>2, <3>1, NoStepGives
    <2> QED BY <2>1, <2>2
  <1>10. Gives(T, Z, zonal_flux_adjust(cells, h, {}, {}) \o set_zonal_BT_cont(cells, h), T, X)
    BY <1>6, <1>7, ThenGives
  <1>11. Gives(T, Z, zonal_flux_adjust(cells, h, {}, {}) \o set_zonal_BT_cont(cells, h) \o last, T, W)
    BY <1>9, <1>10, ThenGives
  <1>12. W = Z \cup {"du", "FA_u"} \cup When("h_u" \in given, {"h_u"})
    OBVIOUS
  <1> QED BY <1>11, <1>12 DEF zonal_BT_cont

\* The corrected velocities.
LEMMA ZonalCorrectedGives ==
    ASSUME NEW cfg, NEW h, NEW n, NEW m, NEW p, NEW Q, NEW R, NEW D, SweepOf(cfg, n, m, p, Q, R, D),
           NEW T, ZonalClaims(T, cfg, h, n, m, p, Q, R, D), NEW Z,
           R \subseteq D, {"u", "du", "visc_rem_u_tmp"} \subseteq Z, NEW given
    PROVE  Gives(T, Z, zonal_corrected(Box(1, 0, n, n), given), T, Z \cup (given \cap {"u_cor", "du_cor"}))
  <1> DEFINE bx == Box(1, 0, n, n)
             Y == Z \cup (given \cap {"u_cor", "du_cor"})
             from_u == At({"u", "du", "visc_rem_u_tmp"}, Here)
             from_du == At({"du"}, Here)
             sets == {Set(given \cap {"u_cor"}, from_u), Set(given \cap {"du_cor"}, from_du)}
  <1>1. Table(T)
    BY DEF ZonalClaims
  <1>2. cfg.halo \in Nat /\ n \in Nat /\ m \in Nat /\ p \in Nat /\ 1 <= m /\ m <= cfg.halo /\ n <= cfg.halo
    BY SweepNumbers
  <1>3. Q \subseteq R /\ D = R
    BY SweepNumbers
  <1>4. /\ Argument(T, cfg.halo, "u", Q)
        /\ Claims(T, "du", Claim(Box(1, 0, n, n), Box(m - 1, m, p, p), D))
        /\ Claims(T, "visc_rem_u_tmp", Claim(Box(1, 0, n, n), Box(m - 1, m, p, p), Q))
        /\ Claims(T, "u_cor", Claim(Box(1, 0, n, n), Box(m - 1, m, p, p), R))
        /\ Claims(T, "du_cor", Claim(Box(1, 0, n, n), Box(m - 1, m, p, p), R))
    BY DEF ZonalClaims
  <1>5. bx \in Margins
    BY <1>2, BoxIs
  <1>6. CASE given \cap {"u_cor", "du_cor"} = {}
    <2>1. Follows(T, Z, T, Y)
      BY <1>6 DEF Follows
    <2> QED BY <1>6, <2>1, NoStepGives DEF zonal_corrected
  <1>7. CASE given \cap {"u_cor", "du_cor"} # {}
    <2>1. Computes(T, Z, bx, {"u_cor"}, from_u)
      BY <1>2, <1>3, <1>4 DEF Computes, Covered, Carried, At, Here, ReadAt, Within, Box, Claim, Claims, Argument, Offsets
    <2>2. Computes(T, Z, bx, {"du_cor"}, from_du)
      BY <1>2, <1>3, <1>4 DEF Computes, Covered, Carried, At, Here, ReadAt, Within, Box, Claim, Claims, Argument, Offsets
    <2>3. ASSUME NEW x \in sets PROVE Computes(T, Z, bx, x.writes, x.reads)
      <3> HIDE DEF bx, from_u, from_du
      <3>1. \/ x.writes = given \cap {"u_cor"} /\ x.reads = from_u
            \/ x.writes = given \cap {"du_cor"} /\ x.reads = from_du
        BY DEF Set
      <3> QED BY <2>1, <2>2, <3>1 DEF Computes
    <2>4. ASSUME NEW a \in Y PROVE a \in Z \/ \E x \in sets : a \in x.writes
      <3> HIDE DEF bx, from_u, from_du
      <3>1. Set(given \cap {"u_cor"}, from_u) \in sets /\ Set(given \cap {"du_cor"}, from_du) \in sets
        OBVIOUS
      <3>2. \A A, B : Set(A, B).writes = A
        BY DEF Set
      <3> QED BY <3>1, <3>2
    <2> HIDE DEF sets, bx, Y
    <2>5. Gives(T, Z, <<Loop(bx, sets)>>, T, Y)
      BY <1>1, <1>5, <2>3, <2>4, LoopGives
    <2> QED BY <1>7, <2>5 DEF zonal_corrected, sets, bx, Y
  <1> QED BY <1>6, <1>7

\* What the sums and limits are found from.
LEMMA ZonalLimitsFeed ==
    ASSUME NEW cfg, NEW h, NEW n, NEW m, NEW p, NEW Q, NEW R, NEW D, SweepOf(cfg, n, m, p, Q, R, D),
           NEW T, ZonalClaims(T, cfg, h, n, m, p, Q, R, D), NEW Z,
           {"u", "face_u", "cell_x"} \subseteq Z
    PROVE  LET near == At({"u", "face_u"}, Here) \cup At({"cell_x"}, Here \cup East)
               wide == When(cfg.aggress, At({"u"}, West \cup East))
           IN  /\ Covered(T, Z, Box(1, 0, n, n), near) /\ Covered(T, Z, Box(1, 0, n, n), wide)
               /\ \A B : Q \subseteq B => /\ Carried(T, near, Claim(Box(1, 0, n, n), Box(m - 1, m, p, p), B))
                                       /\ Carried(T, wide, Claim(Box(1, 0, n, n), Box(m - 1, m, p, p), B))
  <1>1. cfg.halo \in Nat /\ n \in Nat /\ m \in Nat /\ p \in Nat /\ 1 <= m /\ m <= cfg.halo /\ n <= cfg.halo
    BY SweepNumbers
  <1>2. /\ Argument(T, cfg.halo, "u", Q)
        /\ Argument(T, cfg.halo, "face_u", Q)
        /\ Argument(T, cfg.halo, "cell_x", Q)
    BY DEF ZonalClaims
  <1>3. cfg.aggress => 2 <= m
    BY DEF SweepOf
  <1> DEFINE near == At({"u", "face_u"}, Here) \cup At({"cell_x"}, Here \cup East)
             wide == When(cfg.aggress, At({"u"}, West \cup East))
  <1>4. Covered(T, Z, Box(1, 0, n, n), near) /\ Covered(T, Z, Box(1, 0, n, n), wide)
    BY <1>1, <1>2, <1>3 DEF Covered, At, Here, East, West, When, ReadAt, Within, Box, Claim, Claims, Argument, Offsets
  <1>5. ASSUME NEW B, Q \subseteq B
        PROVE  /\ Carried(T, near, Claim(Box(1, 0, n, n), Box(m - 1, m, p, p), B))
               /\ Carried(T, wide, Claim(Box(1, 0, n, n), Box(m - 1, m, p, p), B))
    BY <1>1, <1>2, <1>3, <1>5 DEF Carried, At, Here, East, West, When, ReadAt, Within, Box, Claim, Claims, Argument
  <1> QED BY <1>4, <1>5

\* The arrays a zonal mass flux allocates.
ZonalFaceScratch == {"visc_rem_u_tmp", "uh_tot_0", "duhdu_tot_0", "du_max_CFL", "du_min_CFL",
                     "visc_rem_max", "du", "do_I"}

\* The first loop of the fluxes, with the sums that are needed.
LEMMA ZonalFirstLoopGives ==
    ASSUME NEW cfg, NEW h, NEW n, NEW m, NEW p, NEW Q, NEW R, NEW D, SweepOf(cfg, n, m, p, Q, R, D),
           NEW T, ZonalClaims(T, cfg, h, n, m, p, Q, R, D), NEW Z,
           {h, "u", "face_u", "cell_x", "h_W", "h_E"} \subseteq Z, cfg.given \cap {"visc_rem_u"} \subseteq Z,
           NEW needed
    PROVE  LET given == cfg.given
               visc_rem == At(given \cap {"visc_rem_u"}, Here)
               sums == {Set({"uh_tot_0", "duhdu_tot_0"}, ZonalFlux("u", h) \cup visc_rem),
                        Set({"du_max_CFL", "du_min_CFL"}, zonal_limits(cfg, visc_rem)),
                        Set({"visc_rem_max"}, visc_rem),
                        Set({"do_I"}, {})}
           IN  Gives(T, Z, <<Loop(Box(1, 0, n, n), {Set({"uh"}, ZonalFlux("u", h)), Set({"visc_rem_u_tmp"}, visc_rem),
                     Set(given \cap {"du_cor"}, {})} \cup When(needed, sums))>>, T,
                     Z \cup {"uh", "visc_rem_u_tmp"} \cup (given \cap {"du_cor"})
                       \cup When(needed, {"uh_tot_0", "duhdu_tot_0", "du_max_CFL", "du_min_CFL", "visc_rem_max", "do_I"}))
  <1> DEFINE bx == Box(1, 0, n, n)
             given == cfg.given
             flux == ZonalFlux("u", h)
             visc_rem == At(given \cap {"visc_rem_u"}, Here)
             near == At({"u", "face_u"}, Here) \cup At({"cell_x"}, Here \cup East)
             wide == When(cfg.aggress, At({"u"}, West \cup East))
             limits == zonal_limits(cfg, visc_rem)
             s1 == Set({"uh"}, flux)
             s2 == Set({"visc_rem_u_tmp"}, visc_rem)
             s3 == Set(given \cap {"du_cor"}, {})
             s4 == Set({"uh_tot_0", "duhdu_tot_0"}, flux \cup visc_rem)
             s5 == Set({"du_max_CFL", "du_min_CFL"}, limits)
             s6 == Set({"visc_rem_max"}, visc_rem)
             s7 == Set({"do_I"}, {})
             sums == {s4, s5, s6, s7}
             sets == {s1, s2, s3} \cup When(needed, sums)
             Y == Z \cup {"uh", "visc_rem_u_tmp"} \cup (given \cap {"du_cor"})
                    \cup When(needed, {"uh_tot_0", "duhdu_tot_0", "du_max_CFL", "du_min_CFL", "visc_rem_max", "do_I"})
             found(Q1) == Claim(Box(1, 0, n, n), Box(m - 1, m, p, p), Q1)
  <1>1. /\ cfg.halo \in Nat /\ n \in Nat /\ m \in Nat /\ p \in Nat /\ 1 <= m /\ m <= cfg.halo /\ n <= cfg.halo
        /\ Q \subseteq D /\ D \subseteq R
    BY SweepNumbers
  <1>2. bx \in Margins
    BY <1>1, BoxIs
  <1>3. Covered(T, Z, bx, flux) /\ \A B : Q \subseteq B => Carried(T, flux, found(B))
    BY ZonalFluxFeeds
  <1>4. Covered(T, Z, bx, visc_rem) /\ \A B : Q \subseteq B => Carried(T, visc_rem, found(B))
    <2>1. Argument(T, cfg.halo, "visc_rem_u", Q)
      BY DEF ZonalClaims
    <2> QED BY <1>1, <2>1 DEF Covered, Carried, At, Here, ReadAt, Within, Box, Claim, Claims, Argument, Offsets
  <1>5. Covered(T, Z, bx, limits) /\ \A B : Q \subseteq B => Carried(T, limits, found(B))
    <2>1. /\ Covered(T, Z, bx, near) /\ Covered(T, Z, bx, wide)
          /\ \A B : Q \subseteq B => Carried(T, near, found(B)) /\ Carried(T, wide, found(B))
      BY ZonalLimitsFeed
    <2>2. limits = near \cup visc_rem \cup wide
      BY DEF zonal_limits
    <2> HIDE DEF limits, near, visc_rem, wide, bx, found
    <2> QED BY <1>4, <2>1, <2>2, BothRead
  <1>6. /\ Claims(T, "uh", found(R)) /\ Claims(T, "visc_rem_u_tmp", found(Q)) /\ Claims(T, "du_cor", found(R))
        /\ Claims(T, "uh_tot_0", found(Q)) /\ Claims(T, "duhdu_tot_0", found(Q))
        /\ Claims(T, "du_max_CFL", found(Q)) /\ Claims(T, "du_min_CFL", found(Q))
        /\ Claims(T, "visc_rem_max", found(Q)) /\ Claims(T, "do_I", found(Q))
    BY DEF ZonalClaims
  <1>7. \A B : Within(found(B).box, bx)
    BY <1>1 DEF Within, Box, Claim
  <1>8. Covered(T, Z, bx, {}) /\ \A t : Carried(T, {}, t)
    BY DEF Covered, Carried
  <1>9. Q \subseteq R /\ Q \subseteq Q
    BY <1>1
  <1> HIDE DEF bx, flux, visc_rem, limits, found
  <1>10. \A a, reads, B : /\ Claims(T, a, found(B)) /\ Covered(T, Z, bx, reads) /\ Carried(T, reads, found(B))
                           => Computes(T, Z, bx, {a}, reads)
    BY <1>7 DEF Computes, Claims
  <1>11. \A a, b, reads : Computes(T, Z, bx, {a}, reads) /\ Computes(T, Z, bx, {b}, reads) => Computes(T, Z, bx, {a, b}, reads)
    BY DEF Computes
  <1>12. Computes(T, Z, bx, {"uh"}, flux)
    BY <1>3, <1>6, <1>9, <1>10
  <1>13. Computes(T, Z, bx, {"visc_rem_u_tmp"}, visc_rem) /\ Computes(T, Z, bx, {"visc_rem_max"}, visc_rem)
    BY <1>4, <1>6, <1>9, <1>10
  <1>14. Computes(T, Z, bx, {"do_I"}, {}) /\ Computes(T, Z, bx, {"du_cor"}, {})
    BY <1>6, <1>8, <1>10
  <1>15. Computes(T, Z, bx, {"du_max_CFL", "du_min_CFL"}, limits)
    BY <1>5, <1>6, <1>9, <1>10, <1>11
  <1>16. Computes(T, Z, bx, {"uh_tot_0", "duhdu_tot_0"}, flux \cup visc_rem)
    <2>1. Covered(T, Z, bx, flux \cup visc_rem) /\ Carried(T, flux \cup visc_rem, found(Q))
      BY <1>3, <1>4, <1>9, BothRead
    <2> QED BY <2>1, <1>6, <1>10, <1>11
  <1>17. Computes(T, Z, bx, given \cap {"du_cor"}, {})
    BY <1>14 DEF Computes
  <1>18. /\ s1.writes = {"uh"} /\ s1.reads = flux
         /\ s2.writes = {"visc_rem_u_tmp"} /\ s2.reads = visc_rem
         /\ s3.writes = given \cap {"du_cor"} /\ s3.reads = {}
         /\ s4.writes = {"uh_tot_0", "duhdu_tot_0"} /\ s4.reads = flux \cup visc_rem
         /\ s5.writes = {"du_max_CFL", "du_min_CFL"} /\ s5.reads = limits
         /\ s6.writes = {"visc_rem_max"} /\ s6.reads = visc_rem
         /\ s7.writes = {"do_I"} /\ s7.reads = {}
    BY DEF Set
  <1> HIDE DEF s1, s2, s3, s4, s5, s6, s7
  <1>19. \A x \in sets : Computes(T, Z, bx, x.writes, x.reads)
    <2> SUFFICES ASSUME NEW x \in sets PROVE Computes(T, Z, bx, x.writes, x.reads)
      OBVIOUS
    <2>1. x = s1 \/ x = s2 \/ x = s3 \/ x = s4 \/ x = s5 \/ x = s6 \/ x = s7
      BY DEF When
    <2> HIDE DEF sets
    <2>2. CASE x = s1
      BY <2>2, <1>12, <1>18
    <2>3. CASE x = s2
      BY <2>3, <1>13, <1>18
    <2>4. CASE x = s3
      BY <2>4, <1>17, <1>18
    <2>5. CASE x = s4
      BY <2>5, <1>16, <1>18
    <2>6. CASE x = s5
      BY <2>6, <1>15, <1>18
    <2>7. CASE x = s6
      BY <2>7, <1>13, <1>18
    <2>8. CASE x = s7
      BY <2>8, <1>14, <1>18
    <2> QED BY <2>1, <2>2, <2>3, <2>4, <2>5, <2>6, <2>7, <2>8
  <1>20. \A a \in Y : a \in Z \/ \E x \in sets : a \in x.writes
    <2>1. /\ s1 \in sets /\ s2 \in sets /\ s3 \in sets
          /\ needed => s4 \in sets /\ s5 \in sets /\ s6 \in sets /\ s7 \in sets
      BY DEF When
    <2> HIDE DEF sets
    <2>2. CASE needed
      BY <2>1, <2>2, <1>18 DEF When
    <2>3. CASE ~needed
      BY <2>1, <2>3, <1>18 DEF When
    <2> QED BY <2>2, <2>3
  <1>21. Table(T)
    BY DEF ZonalClaims
  <1> HIDE DEF sets, Y
  <1>22. Gives(T, Z, <<Loop(bx, sets)>>, T, Y)
    BY <1>2, <1>19, <1>20, <1>21, LoopGives
  <1> QED BY <1>22 DEF sets, Y, bx, flux, visc_rem, limits, s1, s2, s3, s4, s5, s6, s7

\* The fluxes, with what hangs on them.
LEMMA ZonalMassFluxGives ==
    ASSUME NEW cfg, NEW h, NEW n, NEW m, NEW p, NEW Q, NEW R, SweepOf(cfg, n, m, p, Q, R, R), OutputsTogether(cfg),
           NEW T, ZonalClaims(T, cfg, h, n, m, p, Q, R, R), NEW Z, Z \subseteq DOMAIN T,
           {h, "u", "face_u", "cell_x", "h_W", "h_E"} \subseteq Z,
           "visc_rem_u" \in cfg.given => "visc_rem_u" \in Z, "uhbt" \in cfg.given => "uhbt" \in Z,
           h \notin ZonalFaceScratch
    PROVE  Gives(T, Z, zonal_mass_flux(Box(0, 0, n, n), h, cfg), T,
                 (Z \ ZonalFaceScratch) \cup {"uh"} \cup (cfg.given \cap {"u_cor", "du_cor", "FA_u", "h_u"}))
  <1> DEFINE bx == Box(1, 0, n, n)
             cells == Box(0, 0, n, n)
             given == cfg.given
             visc_rem == At(given \cap {"visc_rem_u"}, Here)
             sums == {Set({"uh_tot_0", "duhdu_tot_0"}, ZonalFlux("u", h) \cup visc_rem),
                      Set({"du_max_CFL", "du_min_CFL"}, zonal_limits(cfg, visc_rem)),
                      Set({"visc_rem_max"}, visc_rem),
                      Set({"do_I"}, {})}
             needed == needs_sums(given, "uhbt", "FA_u")
             k1 == Scratch(bx, {"visc_rem_u_tmp", "uh_tot_0", "duhdu_tot_0", "du_max_CFL", "du_min_CFL",
                        "visc_rem_max", "du", "do_I"})
             k2 == Loop(bx, {Set({"uh"}, ZonalFlux("u", h)), Set({"visc_rem_u_tmp"}, visc_rem),
                     Set(given \cap {"du_cor"}, {})} \cup When(needed, sums))
             k3 == IF "uhbt" \in given
                   THEN zonal_flux_adjust(cells, h, {"uhbt"}, {"uh"}) \o zonal_corrected(bx, given) ELSE <<>>
             k4 == IF "FA_u" \in given THEN zonal_BT_cont(cells, h, given) ELSE <<>>
             X0 == Z \ ZonalFaceScratch
             X1 == X0 \cup {"uh", "visc_rem_u_tmp"} \cup (given \cap {"du_cor"})
                      \cup When(needed, {"uh_tot_0", "duhdu_tot_0", "du_max_CFL", "du_min_CFL", "visc_rem_max", "do_I"})
             X2 == X1 \cup (given \cap {"u_cor", "du_cor"})
             X3 == X2 \cup (given \cap {"FA_u", "h_u"})
             Y == X0 \cup {"uh"} \cup (given \cap {"u_cor", "du_cor", "FA_u", "h_u"})
  <1>1. n \in Nat /\ m \in Nat /\ p \in Nat /\ 1 <= m
    BY SweepNumbers
  <1>2. GrowLoX(cells) = bx
    <2>1. n \in Int
      BY <1>1
    <2> QED BY <2>1, GrowLoXBox
  <1>3. Gives(T, Z, <<k1>>, T, X0)
    BY ScratchGives DEF ZonalFaceScratch
  <1>4. Gives(T, X0, <<k2>>, T, X1)
    <2>1. {h, "u", "face_u", "cell_x", "h_W", "h_E"} \subseteq X0 /\ given \cap {"visc_rem_u"} \subseteq X0
      BY DEF ZonalFaceScratch
    <2> HIDE DEF X0
    <2> QED BY <2>1, ZonalFirstLoopGives
  <1>5. /\ {h, "u", "face_u", "cell_x", "h_W", "h_E"} \subseteq X1 /\ {"visc_rem_u_tmp", "uh"} \subseteq X1
        /\ "uhbt" \in given => "uhbt" \in X1
        /\ "uhbt" \in given \/ "FA_u" \in given =>
              {"uh_tot_0", "duhdu_tot_0", "du_max_CFL", "du_min_CFL", "visc_rem_max", "do_I"} \subseteq X1
    BY DEF ZonalFaceScratch, When, needs_sums
  <1>6. "du" \notin X2 /\ X1 \subseteq X2
    BY DEF ZonalFaceScratch, When
  <1>7. /\ "uhbt" \notin given => "u_cor" \notin given /\ X2 = X1
        /\ "FA_u" \notin given => "h_u" \notin given /\ X3 = X2
        /\ "FA_u" \in given => X3 = X2 \cup {"FA_u"} \cup When("h_u" \in given, {"h_u"})
    BY DEF OutputsTogether, When
  <1>8. Y \subseteq X3 /\ "du" \notin X3
    BY <1>6
  <1>9. X3 \subseteq DOMAIN T /\ X2 \subseteq DOMAIN T /\ "du" \in DOMAIN T /\ Table(T)
    <2>1. /\ "u_cor" \in DOMAIN T /\ "du_cor" \in DOMAIN T /\ "FA_u" \in DOMAIN T /\ "h_u" \in DOMAIN T
          /\ "uh" \in DOMAIN T /\ "visc_rem_u_tmp" \in DOMAIN T /\ "uh_tot_0" \in DOMAIN T /\ "duhdu_tot_0" \in DOMAIN T
          /\ "du_max_CFL" \in DOMAIN T /\ "du_min_CFL" \in DOMAIN T /\ "visc_rem_max" \in DOMAIN T /\ "do_I" \in DOMAIN T
          /\ "du" \in DOMAIN T /\ Table(T)
      BY DEF ZonalClaims, Claims
    <2> QED BY <2>1 DEF When
  <1>10. "u_cor" \in given => "u_cor" \in X2
    OBVIOUS
  <1> HIDE DEF X0, X1, X2, X3, Y, sums, visc_rem, bx, cells, needed
  <1>11. Gives(T, X1, k3, T, X2)
    <2>1. CASE "uhbt" \in given
      <3>1. Gives(T, X1, zonal_flux_adjust(cells, h, {"uhbt"}, {"uh"}), T, X1 \cup {"du"})
        <4>1. {h, "u", "face_u", "cell_x", "h_W", "h_E", "do_I", "du_max_CFL", "du_min_CFL", "uh_tot_0",
               "duhdu_tot_0", "visc_rem_u_tmp"} \subseteq X1 /\ {"uhbt"} \cup {"uh"} \subseteq X1
          BY <1>5, <2>1
        <4>2. {"uhbt"} \subseteq {"uhbt"} /\ {"uh"} \subseteq {"uh"} /\ R \subseteq R
          OBVIOUS
        <4> QED BY <4>1, <4>2, ZonalAdjustGives DEF cells
      <3>2. Gives(T, X1 \cup {"du"}, zonal_corrected(bx, given), T, (X1 \cup {"du"}) \cup (given \cap {"u_cor", "du_cor"}))
        <4>1. {"u", "du", "visc_rem_u_tmp"} \subseteq X1 \cup {"du"} /\ R \subseteq R
          BY <1>5
        <4> QED BY <4>1, ZonalCorrectedGives DEF bx
      <3>3. Gives(T, X1, k3, T, (X1 \cup {"du"}) \cup (given \cap {"u_cor", "du_cor"}))
        BY <2>1, <3>1, <3>2, ThenGives
      <3>4. Follows(T, (X1 \cup {"du"}) \cup (given \cap {"u_cor", "du_cor"}), T, X2)
        BY DEF Follows, X2
      <3> QED BY <3>3, <3>4, GivesLess
    <2>2. CASE "uhbt" \notin given
      <3>1. Follows(T, X1, T, X2)
        BY <1>7, <2>2 DEF Follows
      <3> QED BY <2>2, <3>1, NoStepGives
    <2> QED BY <2>1, <2>2
  <1>12. Gives(T, X2, k4, T, X3)
    <2>1. CASE "FA_u" \in given
      <3> DEFINE claim == Claim(Box(1, 0, n, n), Box(m - 1, m, p, p), Q)
                 U == [T EXCEPT !["du"] = claim]
                 V == X2 \cup {"du", "FA_u"} \cup When("h_u" \in given, {"h_u"})
      <3>1. claim.box \in Margins /\ claim.from \in Margins
        BY <1>1 DEF Claim, Box, Margins
      <3>2. SweepOf(cfg, n, m, p, Q, R, Q)
        BY DEF SweepOf
      <3>3. ZonalClaims(U, cfg, h, n, m, p, Q, R, Q)
        <4>1. Table(U) /\ Claims(U, "du", claim)
          BY <1>9, <3>1, ClaimChanged
        <4>2. "h" \in DOMAIN U
          BY DEF ZonalClaims
        <4>3. h # "du"
          BY DEF ZonalFaceScratch
        <4> DEFINE same(b) == /\ \A c : Claims(T, b, c) => Claims(U, b, c)
                              /\ \A H, A : Argument(T, H, b, A) => Argument(U, H, b, A)
        <4>4. \A b : b # "du" => same(b)
          BY ClaimStays
        <4> HIDE DEF U, claim
        <4>5. /\ Argument(U, cfg.halo, "u", Q)
              /\ Argument(U, cfg.halo, "face_u", Q)
              /\ Argument(U, cfg.halo, "cell_x", Q)
              /\ Argument(U, cfg.halo, "mask2dT", Q)
              /\ Argument(U, cfg.halo, "visc_rem_u", Q)
              /\ Argument(U, cfg.halo, "uhbt", R)
          BY <4>4 DEF ZonalClaims
        <4>6. /\ \E k \in Nat : n <= k /\ Claims(U, h, Claim(Box(cfg.stencil, cfg.stencil, k, k), Box(0, 0, p, p), Q))
              /\ Claims(U, "slp", Claim(Box(2, 2, n, n), Box(1, 1, p, p), Q))
              /\ Claims(U, "h_W", Claim(Box(1, 1, n, n), Box(m - 1, m - 1, p, p), Q))
              /\ Claims(U, "h_E", Claim(Box(1, 1, n, n), Box(m - 1, m - 1, p, p), Q))
              /\ Claims(U, "uh_tot_0", Claim(Box(1, 0, n, n), Box(m - 1, m, p, p), Q))
              /\ Claims(U, "duhdu_tot_0", Claim(Box(1, 0, n, n), Box(m - 1, m, p, p), Q))
              /\ Claims(U, "du_max_CFL", Claim(Box(1, 0, n, n), Box(m - 1, m, p, p), Q))
              /\ Claims(U, "du_min_CFL", Claim(Box(1, 0, n, n), Box(m - 1, m, p, p), Q))
          BY <4>3, <4>4 DEF ZonalClaims
        <4>7. /\ Claims(U, "visc_rem_max", Claim(Box(1, 0, n, n), Box(m - 1, m, p, p), Q))
              /\ Claims(U, "do_I", Claim(Box(1, 0, n, n), Box(m - 1, m, p, p), Q))
              /\ Claims(U, "visc_rem_u_tmp", Claim(Box(1, 0, n, n), Box(m - 1, m, p, p), Q))
              /\ Claims(U, "FA_u", Claim(Box(1, 0, n, n), Box(m - 1, m, p, p), Q))
              /\ Claims(U, "uh", Claim(Box(1, 0, n, n), Box(m - 1, m, p, p), R))
              /\ Claims(U, "u_cor", Claim(Box(1, 0, n, n), Box(m - 1, m, p, p), R))
              /\ Claims(U, "du_cor", Claim(Box(1, 0, n, n), Box(m - 1, m, p, p), R))
              /\ Claims(U, "h_u", Claim(Box(1, 0, n, n), Box(m - 1, m, p, p), R))
          BY <4>4 DEF ZonalClaims
        <4> QED BY <4>1, <4>2, <4>5, <4>6, <4>7 DEF ZonalClaims, claim
      <3>4. Follows(T, X2, U, X2) /\ Follows(U, V, T, X3)
        <4>1. /\ Follows(T, X2, U, (X2 \cap DOMAIN T) \ {"du"})
              /\ Follows(U, V, T, (V \cap DOMAIN T) \ {"du"})
          BY <1>9, <3>1, ClaimChanged
        <4>2. (X2 \cap DOMAIN T) \ {"du"} = X2
          BY <1>6, <1>9
        <4>3. X3 \subseteq (V \cap DOMAIN T) \ {"du"}
          BY <1>7, <1>8, <1>9, <2>1
        <4> HIDE DEF U, V
        <4> QED BY <4>1, <4>2, <4>3 DEF Follows
      <3>5. Gives(U, X2, zonal_BT_cont(cells, h, given), U, V)
        <4>1. {h, "u", "face_u", "cell_x", "h_W", "h_E", "do_I", "du_max_CFL", "du_min_CFL", "uh_tot_0",
               "duhdu_tot_0", "visc_rem_u_tmp", "visc_rem_max"} \subseteq X2
          BY <1>5, <1>6, <2>1
        <4> HIDE DEF U
        <4> QED BY <3>2, <3>3, <4>1, <1>10, ZonalBTContGives DEF cells
      <3> HIDE DEF U, V
      <3>6. Gives(T, X2, zonal_BT_cont(cells, h, given), U, V)
        BY <3>4, <3>5, GivesFrom
      <3> QED BY <2>1, <3>4, <3>6, GivesLess
    <2>2. CASE "FA_u" \notin given
      <3>1. Follows(T, X2, T, X3)
        BY <1>7, <2>2 DEF Follows
      <3> QED BY <2>2, <3>1, NoStepGives
    <2> QED BY <2>1, <2>2
  <1> HIDE DEF k1, k2, k3, k4
  <1>13. Gives(T, Z, <<k1, k2>>, T, X1)
    BY <1>3, <1>4, TwoStepsGive
  <1>14. Gives(T, Z, <<k1, k2>> \o k3, T, X2)
    BY <1>11, <1>13, ThenGives
  <1>15. Gives(T, Z, <<k1, k2>> \o k3 \o k4, T, X3)
    BY <1>12, <1>14, ThenGives
  <1>16. Gives(T, Z, <<k1, k2>> \o k3 \o k4, T, Y)
    BY <1>8, <1>15, GivesLess DEF Follows
  <1> QED BY <1>2, <1>16 DEF zonal_mass_flux, k1, k2, k3, k4, bx, cells, visc_rem, sums, needed, Y, X0

\* All the arrays a zonal sweep allocates.
ZonalScratch == ZonalFaceScratch \cup {"slp", "h_W", "h_E"}

\* A sweep.
LEMMA ZonalSweepGives ==
    ASSUME NEW cfg, NEW h, NEW n, NEW m, NEW p, NEW Q, NEW R, SweepOf(cfg, n, m, p, Q, R, R), OutputsTogether(cfg),
           NEW T, ZonalClaims(T, cfg, h, n, m, p, Q, R, R), NEW Z, Z \subseteq DOMAIN T,
           {h, "u", "face_u", "cell_x", "mask2dT"} \subseteq Z,
           "visc_rem_u" \in cfg.given => "visc_rem_u" \in Z, "uhbt" \in cfg.given => "uhbt" \in Z,
           h \notin ZonalScratch
    PROVE  Gives(T, Z, ZonalSweep(Box(0, 0, n, n), h, cfg),
                 [T EXCEPT !["h"] = Claim(Box(0, 0, n, n), Box(m, m, p, p), R)],
                 (Z \ ZonalScratch) \cup {"uh", "h"} \cup (cfg.given \cap {"u_cor", "du_cor", "FA_u", "h_u"}))
  <1> DEFINE cells == Box(0, 0, n, n)
             given == cfg.given
             k1 == Scratch(DataBox(cfg), {"h_W", "h_E"})
             k2 == zonal_edge_thickness(cells, h, cfg)
             k3 == zonal_mass_flux(cells, h, cfg)
             reads == At({h, "cell_x"}, Here) \cup At({"uh"}, West \cup Here)
             k4 == <<Loop(cells, {Set({"h"}, reads)})>>
             claim == Claim(Box(0, 0, n, n), Box(m, m, p, p), R)
             X1 == Z \ {"h_W", "h_E"}
             X2 == (X1 \ {"slp"}) \cup {"h_W", "h_E"}
             X3 == (X2 \ ZonalFaceScratch) \cup {"uh"} \cup (given \cap {"u_cor", "du_cor", "FA_u", "h_u"})
             Y == (Z \ ZonalScratch) \cup {"uh", "h"} \cup (given \cap {"u_cor", "du_cor", "FA_u", "h_u"})
             U == [T EXCEPT !["h"] = claim]
  <1>1. /\ cfg.halo \in Nat /\ cfg.stencil \in Nat /\ n \in Nat /\ m \in Nat /\ p \in Nat
        /\ 1 <= cfg.stencil /\ 1 <= m /\ m <= cfg.halo /\ n <= cfg.halo /\ Q \subseteq R
    BY SweepNumbers
  <1>2. h \notin ZonalFaceScratch /\ h \notin {"slp", "h_W", "h_E"}
    BY DEF ZonalScratch
  <1>3. Gives(T, Z, <<k1>>, T, X1)
    BY ScratchGives
  <1>4. Gives(T, X1, k2, T, X2)
    <2>1. {h, "mask2dT"} \subseteq X1
      BY <1>2
    <2> HIDE DEF X1
    <2> QED BY <1>2, <2>1, ZonalEdgesGive
  <1>5. Gives(T, X2, k3, T, X3)
    <2>1. /\ {h, "u", "face_u", "cell_x", "h_W", "h_E"} \subseteq X2
          /\ "visc_rem_u" \in given => "visc_rem_u" \in X2
          /\ "uhbt" \in given => "uhbt" \in X2
      BY <1>2
    <2>2. "h_W" \in DOMAIN T /\ "h_E" \in DOMAIN T
      BY DEF ZonalClaims, Claims
    <2>3. X2 \subseteq DOMAIN T
      BY <2>2
    <2> HIDE DEF X2
    <2> QED BY <1>2, <2>1, <2>3, ZonalMassFluxGives
  <1>6. X3 \subseteq DOMAIN T /\ "h" \in DOMAIN T /\ Table(T)
    <2>1. /\ "u_cor" \in DOMAIN T /\ "du_cor" \in DOMAIN T /\ "FA_u" \in DOMAIN T /\ "h_u" \in DOMAIN T
          /\ "uh" \in DOMAIN T /\ "h_W" \in DOMAIN T /\ "h_E" \in DOMAIN T /\ "h" \in DOMAIN T /\ Table(T)
      BY DEF ZonalClaims, Claims
    <2> QED BY <2>1
  <1>7. h \in X3 /\ "cell_x" \in X3 /\ "uh" \in X3
    BY <1>2 DEF ZonalFaceScratch
  <1>8. Y \subseteq X3 \cup {"h"}
    BY DEF ZonalScratch
  <1> HIDE DEF X1, X2, X3, Y
  <1>9. Gives(T, X3, k4, U, X3 \cup {"h"})
    <2>1. /\ Argument(T, cfg.halo, "cell_x", Q)
          /\ \E k \in Nat : n <= k /\ Claims(T, h, Claim(Box(cfg.stencil, cfg.stencil, k, k), Box(0, 0, p, p), Q))
          /\ Claims(T, "uh", Claim(Box(1, 0, n, n), Box(m - 1, m, p, p), R))
      BY DEF ZonalClaims
    <2>2. claim.box \in Margins /\ claim.from \in Margins /\ cells \in Margins /\ Within(claim.box, cells)
      BY <1>1 DEF Claim, Box, Margins, Within
    <2>3. Covered(T, X3, cells, reads)
      BY <1>1, <1>7, <2>1 DEF Covered, At, Here, West, ReadAt, Within, Box, Claim, Claims, Argument, Offsets
    <2>4. Carried(T, reads, claim)
      BY <1>1, <2>1 DEF Carried, At, Here, West, ReadAt, Within, Box, Claim, Claims, Argument
    <2> HIDE DEF cells, reads, claim
    <2> QED BY <1>6, <2>2, <2>3, <2>4, NewClaimGives
  <1> HIDE DEF k1, k2, k3, k4, U
  <1>10. Gives(T, Z, <<k1>> \o k2, T, X2)
    BY <1>3, <1>4, ThenGives
  <1>11. Gives(T, Z, <<k1>> \o k2 \o k3, T, X3)
    BY <1>5, <1>10, ThenGives
  <1>12. Gives(T, Z, <<k1>> \o k2 \o k3 \o k4, U, X3 \cup {"h"})
    BY <1>9, <1>11, ThenGives
  <1>13. Gives(T, Z, <<k1>> \o k2 \o k3 \o k4, U, Y)
    BY <1>8, <1>12, GivesLess DEF Follows
  <1> QED BY <1>13 DEF ZonalSweep, continuity_zonal_convergence, k1, k2, k3, k4, U, Y

\* The vertical sums alone.
LEMMA ZonalBTFluxGives ==
    ASSUME NEW cfg, NEW n, NEW m, NEW p, NEW Q, NEW R, NEW D, SweepOf(cfg, n, m, p, Q, R, D),
           NEW T, ZonalClaims(T, cfg, "h", n, m, p, Q, R, D), NEW Z, Z \subseteq DOMAIN T,
           {"h", "u", "face_u", "cell_x", "mask2dT"} \subseteq Z
    PROVE  Gives(T, Z, <<Scratch(DataBox(cfg), {"h_W", "h_E"})>> \o zonal_edge_thickness(Box(0, 0, n, n), "h", cfg)
                       \o zonal_BT_mass_flux(Box(0, 0, n, n), cfg),
                 [T EXCEPT !["uhbt"] = Claim(Box(1, 0, n, n), Box(m - 1, m, p, p), Q)],
                 (Z \ {"slp", "h_W", "h_E"}) \cup {"uhbt"})
  <1> DEFINE cells == Box(0, 0, n, n)
             bx == Box(1, 0, n, n)
             all == DataBox(cfg)
             k1 == Scratch(all, {"h_W", "h_E"})
             k2 == zonal_edge_thickness(cells, "h", cfg)
             flux == ZonalFlux("u", "h")
             k3 == Loop(all, {Set({"uhbt"}, {})})
             k4 == Loop(bx, {Set({"uhbt"}, flux)})
             claim == Claim(Box(1, 0, n, n), Box(m - 1, m, p, p), Q)
             X1 == Z \ {"h_W", "h_E"}
             X2 == (X1 \ {"slp"}) \cup {"h_W", "h_E"}
             X3 == X2 \cup {"uhbt"}
             Y == (Z \ {"slp", "h_W", "h_E"}) \cup {"uhbt"}
             U == [T EXCEPT !["uhbt"] = claim]
  <1>1. /\ cfg.halo \in Nat /\ cfg.stencil \in Nat /\ n \in Nat /\ m \in Nat /\ p \in Nat
        /\ 1 <= m /\ m <= cfg.halo /\ n <= cfg.halo /\ Q \subseteq D
    BY SweepNumbers
  <1>2. GrowLoX(cells) = bx
    <2>1. n \in Int
      BY <1>1
    <2> QED BY <2>1, GrowLoXBox
  <1>3. Gives(T, Z, <<k1>>, T, X1)
    BY ScratchGives
  <1>4. Gives(T, X1, k2, T, X2)
    <2>1. {"h", "mask2dT"} \subseteq X1
      OBVIOUS
    <2> HIDE DEF X1
    <2> QED BY <2>1, ZonalEdgesGive
  <1>5. X3 \subseteq DOMAIN T /\ "uhbt" \in DOMAIN T /\ Table(T)
    <2>1. "uhbt" \in DOMAIN T /\ "h_W" \in DOMAIN T /\ "h_E" \in DOMAIN T /\ Table(T)
      BY DEF ZonalClaims, Claims, Argument
    <2> QED BY <2>1
  <1>6. {"h", "u", "face_u", "cell_x", "h_W", "h_E"} \subseteq X3 /\ Y \subseteq X3 \cup {"uhbt"}
    OBVIOUS
  <1>7. Argument(T, cfg.halo, "uhbt", R)
    BY DEF ZonalClaims
  <1>8. /\ claim.box \in Margins /\ claim.from \in Margins /\ bx \in Margins /\ Within(claim.box, bx)
        /\ all \in Margins
    BY <1>1, DataBoxIs DEF Claim, Box, Margins, Within
  <1>9. Computes(T, X2, all, {"uhbt"}, {})
    BY <1>1, <1>7, DataBoxIs DEF Computes, Covered, Carried, Within, Box, Claim, Claims, Argument
  <1> HIDE DEF X1, X2, cells, bx, all, claim, flux
  <1>10. Gives(T, X2, <<k3>>, T, X3)
    BY <1>5, <1>8, <1>9, OneSetGives
  <1> HIDE DEF X3
  <1>11. Gives(T, X3, <<k4>>, U, X3 \cup {"uhbt"})
    <2>1. Covered(T, X3, bx, flux) /\ Carried(T, flux, claim)
      <3>1. Q \subseteq Q
        OBVIOUS
      <3> QED BY <1>6, <3>1, ZonalFluxFeeds DEF flux, claim, bx
    <2> QED BY <1>5, <1>8, <2>1, NewClaimGives
  <1> HIDE DEF k1, k2, k3, k4, U, Y
  <1>12. Gives(T, Z, <<k1>> \o k2, T, X2)
    BY <1>3, <1>4, ThenGives
  <1>13. Gives(T, X2, <<k3, k4>>, U, X3 \cup {"uhbt"})
    BY <1>10, <1>11, TwoStepsGive
  <1>14. Gives(T, Z, <<k1>> \o k2 \o <<k3, k4>>, U, X3 \cup {"uhbt"})
    BY <1>12, <1>13, ThenGives
  <1>15. Gives(T, Z, <<k1>> \o k2 \o <<k3, k4>>, U, Y)
    BY <1>6, <1>14, GivesLess DEF Follows
  <1> QED BY <1>2, <1>15 DEF zonal_BT_mass_flux, k1, k2, k3, k4, U, Y, cells, bx, all, claim, flux

-----------------------------------------------------------------------------
\* The arrays whose claims a meridional sweep uses: its arguments and h; the edges; and what
\* it finds at the faces, from arrays of Q, or of R where the transport that is asked
\* for counts, and du from those of D.
MeridionalClaims(T, cfg, h, n, m, p, Q, R, D) ==
    /\ Table(T) /\ "h" \in DOMAIN T
    /\ Argument(T, cfg.halo, "v", Q)
    /\ Argument(T, cfg.halo, "face_v", Q)
    /\ Argument(T, cfg.halo, "cell_y", Q)
    /\ Argument(T, cfg.halo, "mask2dT", Q)
    /\ Argument(T, cfg.halo, "visc_rem_v", Q)
    /\ Argument(T, cfg.halo, "vhbt", R)
    /\ \E k \in Nat : n <= k /\ Claims(T, h, Claim(Box(k, k, cfg.stencil, cfg.stencil), Box(p, p, 0, 0), Q))
    /\ Claims(T, "slp", Claim(Box(n, n, 2, 2), Box(p, p, 1, 1), Q))
    /\ Claims(T, "h_S", Claim(Box(n, n, 1, 1), Box(p, p, m - 1, m - 1), Q))
    /\ Claims(T, "h_N", Claim(Box(n, n, 1, 1), Box(p, p, m - 1, m - 1), Q))
    /\ Claims(T, "vh_tot_0", Claim(Box(n, n, 1, 0), Box(p, p, m - 1, m), Q))
    /\ Claims(T, "dvhdv_tot_0", Claim(Box(n, n, 1, 0), Box(p, p, m - 1, m), Q))
    /\ Claims(T, "dv_max_CFL", Claim(Box(n, n, 1, 0), Box(p, p, m - 1, m), Q))
    /\ Claims(T, "dv_min_CFL", Claim(Box(n, n, 1, 0), Box(p, p, m - 1, m), Q))
    /\ Claims(T, "visc_rem_max", Claim(Box(n, n, 1, 0), Box(p, p, m - 1, m), Q))
    /\ Claims(T, "do_I", Claim(Box(n, n, 1, 0), Box(p, p, m - 1, m), Q))
    /\ Claims(T, "visc_rem_v_tmp", Claim(Box(n, n, 1, 0), Box(p, p, m - 1, m), Q))
    /\ Claims(T, "FA_v", Claim(Box(n, n, 1, 0), Box(p, p, m - 1, m), Q))
    /\ Claims(T, "vh", Claim(Box(n, n, 1, 0), Box(p, p, m - 1, m), R))
    /\ Claims(T, "v_cor", Claim(Box(n, n, 1, 0), Box(p, p, m - 1, m), R))
    /\ Claims(T, "dv_cor", Claim(Box(n, n, 1, 0), Box(p, p, m - 1, m), R))
    /\ Claims(T, "h_v", Claim(Box(n, n, 1, 0), Box(p, p, m - 1, m), R))
    /\ Claims(T, "dv", Claim(Box(n, n, 1, 0), Box(p, p, m - 1, m), D))

\* The edges.
LEMMA MeridionalEdgesGive ==
    ASSUME NEW cfg, NEW h, NEW n, NEW m, NEW p, NEW Q, NEW R, NEW D, SweepOf(cfg, n, m, p, Q, R, D),
           NEW T, MeridionalClaims(T, cfg, h, n, m, p, Q, R, D), NEW Z, {h, "mask2dT"} \subseteq Z,
           h \notin {"slp", "h_S", "h_N"}
    PROVE  Gives(T, Z, meridional_edge_thickness(Box(n, n, 0, 0), h, cfg), T, (Z \ {"slp"}) \cup {"h_S", "h_N"})
  <1> DEFINE H == cfg.halo
             cells == Box(n, n, 0, 0)
             bx == Box(n, n, 1, 1)
             bxE == Box(n, n, 2, 2)
  <1> DEFINE st == cfg.stencil
  <1>1. /\ cells \in Margins /\ bx \in Margins /\ bxE \in Margins
        /\ GrowY(cells, 1) = bx /\ GrowY(cells, 2) = bxE
    <2>1. n \in Int
      BY DEF SweepOf
    <2>2. cells \in Margins /\ bx \in Margins /\ bxE \in Margins
      BY <2>1, BoxIs
    <2>3. GrowY(cells, 1) = bx
      BY <2>1, GrowYBox
    <2>4. GrowY(cells, 2) = bxE
      BY <2>1, GrowYBox
    <2> QED BY <2>2, <2>3, <2>4
  <1>2. /\ H \in Nat /\ n \in Nat /\ m \in Nat /\ p \in Nat /\ st \in Nat /\ n <= H /\ st <= m /\ m <= H
        /\ DataBox(cfg) = Box(H, H, H, H)
    BY DataBoxIs DEF SweepOf
  <1>3. Table(T)
    BY DEF MeridionalClaims
  <1>6. /\ \E k \in Nat : n <= k /\ Claims(T, h, Claim(Box(k, k, st, st), Box(p, p, 0, 0), Q))
        /\ Claims(T, "slp", Claim(bxE, Box(p, p, 1, 1), Q))
        /\ Claims(T, "h_S", Claim(bx, Box(p, p, m - 1, m - 1), Q))
        /\ Claims(T, "h_N", Claim(bx, Box(p, p, m - 1, m - 1), Q))
        /\ Argument(T, H, "mask2dT", Q)
    BY DEF MeridionalClaims
  <1>4. CASE cfg.scheme = "upwind_1st"
    <2>1. 1 <= st
      BY <1>4 DEF SweepOf, SchemeStencil
    <2>4. Computes(T, Z, bx, {"h_S", "h_N"}, At({h}, Here))
      BY <1>2, <1>6, <2>1 DEF Computes, Covered, Carried, At, Here, ReadAt, Within, Box, Claim, Claims, Argument, Offsets
    <2>5. Gives(T, Z, <<Loop(bx, {Set({"h_S", "h_N"}, At({h}, Here))})>>, T, Z \cup {"h_S", "h_N"})
      BY <1>1, <1>3, <2>4, OneSetGives
    <2>6. Follows(T, Z \cup {"h_S", "h_N"}, T, (Z \ {"slp"}) \cup {"h_S", "h_N"})
      BY DEF Follows
    <2>7. Gives(T, Z, <<Loop(bx, {Set({"h_S", "h_N"}, At({h}, Here))})>>, T, (Z \ {"slp"}) \cup {"h_S", "h_N"})
      BY <2>5, <2>6, GivesLess
    <2> QED BY <1>1, <1>4, <2>7 DEF meridional_edge_thickness
  <1>5. CASE cfg.scheme # "upwind_1st"
    <2> DEFINE X == Z \ {"slp"}
               W == X \cup When(cfg.scheme = "PPM", {"slp"})
    <2>1. 2 <= st /\ (cfg.scheme = "PPM" => 3 <= st)
      BY <1>5 DEF SweepOf, SchemeStencil, Schemes
    <2>4. Gives(T, Z, <<Scratch(bxE, {"slp"})>>, T, X)
      BY ScratchGives
    <2> DEFINE near == At({h, "mask2dT"}, South \cup Here \cup North)
               slopes == <<Loop(bxE, {Set({"slp"}, near)})>>
               reads == near \cup When(cfg.scheme = "PPM", At({"slp"}, South \cup Here \cup North))
               edges == <<Loop(bx, {Set({"h_S", "h_N"}, reads)})>>
    <2>5. cfg.scheme = "PPM" => Gives(T, X, slopes, T, W)
      <3> SUFFICES ASSUME cfg.scheme = "PPM" PROVE Gives(T, X, slopes, T, W)
        OBVIOUS
      <3>1. Computes(T, X, bxE, {"slp"}, near)
        BY <1>2, <1>6, <2>1 DEF Computes, Covered, Carried, At, Here, North, South, ReadAt, Within, Box, Claim, Claims, Argument, Offsets
      <3>2. Gives(T, X, slopes, T, X \cup {"slp"})
        BY <1>1, <1>3, <3>1, OneSetGives
      <3> QED BY <3>2 DEF When
    <2>6. Gives(T, W, edges, T, W \cup {"h_S", "h_N"})
      <3>1. Computes(T, W, bx, {"h_S", "h_N"}, reads)
        BY <1>2, <1>6, <2>1 DEF Computes, Covered, Carried, At, Here, North, South, ReadAt, Within, Box, Claim, Claims, Argument, Offsets, When
      <3> QED BY <1>1, <1>3, <3>1, OneSetGives
    <2>7. Gives(T, W \cup {"h_S", "h_N"}, LimitPosY(bx, h), T, W \cup {"h_S", "h_N"})
      <3> DEFINE V == W \cup {"h_S", "h_N"}
                 here == At({h, "h_S", "h_N"}, Here)
      <3>1. Computes(T, V, bx, {"h_S", "h_N"}, here)
        BY <1>2, <1>6, <2>1 DEF Computes, Covered, Carried, At, Here, ReadAt, Within, Box, Claim, Claims, Argument, Offsets
      <3>2. V \cup {"h_S", "h_N"} = V
        OBVIOUS
      <3> HIDE DEF V, here
      <3>3. Gives(T, V, <<Loop(bx, {Set({"h_S", "h_N"}, here)})>>, T, V \cup {"h_S", "h_N"})
        BY <1>1, <1>3, <3>1, OneSetGives
      <3> QED BY <3>2, <3>3 DEF LimitPosY, V, here
    <2>8. Follows(T, W \cup {"h_S", "h_N"}, T, (Z \ {"slp"}) \cup {"h_S", "h_N"})
      BY DEF Follows
    <2> DEFINE V == W \cup {"h_S", "h_N"}
               slopesIf == IF cfg.scheme = "PPM" THEN slopes \o edges ELSE edges
    <2>9. Gives(T, X, slopesIf, T, V)
      <3>1. CASE cfg.scheme = "PPM"
        BY <3>1, <2>5, <2>6, ThenGives
      <3>2. CASE cfg.scheme # "PPM"
        <4>1. W = X
          BY <3>2 DEF When
        <4> QED BY <4>1, <3>2, <2>6
      <3> QED BY <3>1, <3>2
    <2>10. Gives(T, Z, <<Scratch(bxE, {"slp"})>> \o slopesIf, T, V)
      BY <2>4, <2>9, ThenGives
    <2>11. Gives(T, Z, <<Scratch(bxE, {"slp"})>> \o slopesIf \o LimitPosY(bx, h), T, V)
      BY <2>7, <2>10, ThenGives
    <2>12. Gives(T, Z, <<Scratch(bxE, {"slp"})>> \o slopesIf \o LimitPosY(bx, h), T, (Z \ {"slp"}) \cup {"h_S", "h_N"})
      BY <2>8, <2>11, GivesLess
    <2>13. slopes \o edges = <<Loop(bxE, {Set({"slp"}, near)}), Loop(bx, {Set({"h_S", "h_N"}, reads)})>>
      BY Joined
    <2> QED BY <1>1, <1>5, <2>12, <2>13 DEF meridional_edge_thickness, PPM_reconstruction_y
  <1> QED BY <1>4, <1>5

\* What the transport through a face is found from.
LEMMA MeridionalFluxFeeds ==
    ASSUME NEW cfg, NEW h, NEW n, NEW m, NEW p, NEW Q, NEW R, NEW D, SweepOf(cfg, n, m, p, Q, R, D),
           NEW T, MeridionalClaims(T, cfg, h, n, m, p, Q, R, D), NEW Z, {h, "v", "face_v", "cell_y", "h_S", "h_N"} \subseteq Z
    PROVE  /\ Covered(T, Z, Box(n, n, 1, 0), MeridionalFlux("v", h))
           /\ \A B : Q \subseteq B => Carried(T, MeridionalFlux("v", h), Claim(Box(n, n, 1, 0), Box(p, p, m - 1, m), B))
  <1>1. /\ cfg.halo \in Nat /\ cfg.stencil \in Nat /\ n \in Nat /\ m \in Nat /\ p \in Nat
        /\ 1 <= cfg.stencil /\ cfg.stencil <= m /\ m <= cfg.halo /\ n <= cfg.halo
        /\ Argument(T, cfg.halo, "v", Q)
        /\ Argument(T, cfg.halo, "face_v", Q)
        /\ Argument(T, cfg.halo, "cell_y", Q)
        /\ \E k \in Nat : n <= k /\ Claims(T, h, Claim(Box(k, k, cfg.stencil, cfg.stencil), Box(p, p, 0, 0), Q))
        /\ Claims(T, "h_S", Claim(Box(n, n, 1, 1), Box(p, p, m - 1, m - 1), Q))
        /\ Claims(T, "h_N", Claim(Box(n, n, 1, 1), Box(p, p, m - 1, m - 1), Q))
    BY SweepNumbers DEF MeridionalClaims
  <1> DEFINE st == cfg.stencil
             H == cfg.halo
             reads == MeridionalFlux("v", h)
             near == At({"v", "face_v"}, Here)
             wide == At({h, "h_S", "h_N", "cell_y"}, Here \cup North)
  <1> HIDE DEF st, H
  <1>2. Covered(T, Z, Box(n, n, 1, 0), reads)
    BY <1>1 DEF st, H, MeridionalFlux, Covered, At, Here, North, ReadAt, Within, Box, Claim, Claims, Argument, Offsets
  <1>3. ASSUME NEW B, Q \subseteq B
        PROVE  Carried(T, reads, Claim(Box(n, n, 1, 0), Box(p, p, m - 1, m), B))
    BY <1>1, <1>3 DEF st, H, MeridionalFlux, Carried, At, Here, North, ReadAt, Within, Box, Claim, Claims, Argument
  <1> QED BY <1>2, <1>3

\* The iteration to a transport, or to none.
LEMMA MeridionalAdjustGives ==
    ASSUME NEW cfg, NEW h, NEW n, NEW m, NEW p, NEW Q, NEW R, NEW D, SweepOf(cfg, n, m, p, Q, R, D),
           NEW T, MeridionalClaims(T, cfg, h, n, m, p, Q, R, D), NEW Z,
           {h, "v", "face_v", "cell_y", "h_S", "h_N", "do_I", "dv_max_CFL", "dv_min_CFL", "vh_tot_0",
            "dvhdv_tot_0", "visc_rem_v_tmp"} \subseteq Z,
           NEW target, NEW vh_3d, target \subseteq {"vhbt"}, vh_3d \subseteq {"vh"}, target \cup vh_3d \subseteq Z,
           target \cup vh_3d # {} => R \subseteq D
    PROVE  Gives(T, Z, meridional_flux_adjust(Box(n, n, 0, 0), h, target, vh_3d), T, Z \cup {"dv"})
  <1> DEFINE bx == Box(n, n, 1, 0)
             flux == MeridionalFlux("v", h)
             own == At(target \cup vh_3d, Here)
             sums == At({"do_I", "dv_max_CFL", "dv_min_CFL", "vh_tot_0", "dvhdv_tot_0", "visc_rem_v_tmp"}, Here)
             H == cfg.halo
             set == {"dv"} \cup vh_3d
  <1>1. Table(T)
    BY DEF MeridionalClaims
  <1>2. /\ H \in Nat /\ n \in Nat /\ m \in Nat /\ p \in Nat
        /\ 1 <= m /\ m <= H /\ n <= H /\ Q \subseteq D /\ D \subseteq R
    BY SweepNumbers
  <1>3. /\ Claims(T, "do_I", Claim(Box(n, n, 1, 0), Box(p, p, m - 1, m), Q))
        /\ Claims(T, "dv_max_CFL", Claim(Box(n, n, 1, 0), Box(p, p, m - 1, m), Q))
        /\ Claims(T, "dv_min_CFL", Claim(Box(n, n, 1, 0), Box(p, p, m - 1, m), Q))
        /\ Claims(T, "vh_tot_0", Claim(Box(n, n, 1, 0), Box(p, p, m - 1, m), Q))
        /\ Claims(T, "dvhdv_tot_0", Claim(Box(n, n, 1, 0), Box(p, p, m - 1, m), Q))
        /\ Claims(T, "visc_rem_v_tmp", Claim(Box(n, n, 1, 0), Box(p, p, m - 1, m), Q))
        /\ Argument(T, cfg.halo, "vhbt", R)
        /\ Claims(T, "vh", Claim(Box(n, n, 1, 0), Box(p, p, m - 1, m), R))
        /\ Claims(T, "dv", Claim(Box(n, n, 1, 0), Box(p, p, m - 1, m), D))
    BY DEF MeridionalClaims
  <1>4. bx \in Margins /\ GrowLoY(Box(n, n, 0, 0)) = bx
    <2>1. n \in Int
      BY <1>2
    <2>2. bx \in Margins
      BY <2>1, BoxIs
    <2>3. GrowLoY(Box(n, n, 0, 0)) = bx
      BY <2>1, GrowLoYBox
    <2> QED BY <2>2, <2>3
  <1>5. Covered(T, Z, bx, flux) /\ \A B : Q \subseteq B => Carried(T, flux, Claim(bx, Box(p, p, m - 1, m), B))
    BY MeridionalFluxFeeds
  <1>6. Covered(T, Z, bx, sums) /\ \A B : Q \subseteq B => Carried(T, sums, Claim(bx, Box(p, p, m - 1, m), B))
    BY <1>2, <1>3 DEF Covered, Carried, At, Here, ReadAt, Within, Box, Claim, Claims, Argument, Offsets
  <1>7. Covered(T, Z, bx, own) /\ Carried(T, own, T["dv"]) /\ Carried(T, own, T["vh"])
    <2>1. own # {} => R \subseteq D
      BY DEF At
    <2>2. ASSUME NEW r \in own
          PROVE  /\ r[1] \in Z /\ r[2] \in Offsets /\ Within(ReadAt(bx, r[2]), T[r[1]].box)
                 /\ Within(ReadAt(T[r[1]].from, r[2]), Box(p, p, m - 1, m)) /\ T[r[1]].of \subseteq R
      <3>1. r[1] \in Z /\ r[1] \in {"vhbt", "vh"} /\ r[2] = <<0, 0>>
        BY DEF At, Here
      <3>2. CASE r[1] = "vhbt"
        BY <1>2, <1>3, <3>1, <3>2 DEF ReadAt, Within, Box, Claim, Claims, Argument, Offsets
      <3>3. CASE r[1] = "vh"
        BY <1>2, <1>3, <3>1, <3>3 DEF ReadAt, Within, Box, Claim, Claims, Argument, Offsets
      <3> QED BY <3>1, <3>2, <3>3
    <2>3. T["dv"].from = Box(p, p, m - 1, m) /\ T["vh"].from = Box(p, p, m - 1, m) /\ T["dv"].of = D /\ T["vh"].of = R
      BY <1>3 DEF Claim, Claims
    <2> HIDE DEF own, bx
    <2>4. R \subseteq D => R = D
      BY <1>2
    <2> QED BY <2>1, <2>2, <2>3, <2>4 DEF Covered, Carried
  <1> HIDE DEF flux, sums, own
  <1>8. Carried(T, flux, T["dv"]) /\ Carried(T, flux, T["vh"]) /\ Carried(T, sums, T["dv"]) /\ Carried(T, sums, T["vh"])
    BY <1>2, <1>3, <1>5, <1>6 DEF Claims
  <1>9. Within(T["dv"].box, bx) /\ Within(T["vh"].box, bx)
    BY <1>2, <1>3 DEF Within, Box, Claim, Claims, Argument
  <1>10. Computes(T, Z, bx, set, flux \cup own \cup sums)
    <2>1. Covered(T, Z, bx, flux \cup own \cup sums)
      BY <1>5, <1>6, <1>7, BothRead
    <2>2. Carried(T, flux \cup own \cup sums, T["dv"]) /\ Carried(T, flux \cup own \cup sums, T["vh"])
      BY <1>7, <1>8, BothRead
    <2>3. \A a \in set : a = "dv" \/ a = "vh"
      OBVIOUS
    <2> HIDE DEF set, bx
    <2> QED BY <1>3, <1>9, <2>1, <2>2, <2>3 DEF Computes, Claims
  <1>11. Z \cup set = Z \cup {"dv"}
    OBVIOUS
  <1> DEFINE reads == flux \cup own \cup sums
  <1> HIDE DEF bx, set
  <1>12. Gives(T, Z, <<Loop(bx, {Set(set, reads)})>>, T, Z \cup set)
    BY <1>1, <1>4, <1>10, OneSetGives
  <1> QED BY <1>4, <1>11, <1>12 DEF meridional_flux_adjust, bx, set, flux, own, sums

\* The face areas, from the correction to no transport, and the thicknesses at faces.
LEMMA MeridionalBTContGives ==
    ASSUME NEW cfg, NEW h, NEW n, NEW m, NEW p, NEW Q, NEW R, SweepOf(cfg, n, m, p, Q, R, Q),
           NEW T, MeridionalClaims(T, cfg, h, n, m, p, Q, R, Q), NEW Z,
           {h, "v", "face_v", "cell_y", "h_S", "h_N", "do_I", "dv_max_CFL", "dv_min_CFL", "vh_tot_0",
            "dvhdv_tot_0", "visc_rem_v_tmp", "visc_rem_max"} \subseteq Z,
           NEW given, "v_cor" \in given => "v_cor" \in Z
    PROVE  Gives(T, Z, meridional_BT_cont(Box(n, n, 0, 0), h, given), T,
                 Z \cup {"dv", "FA_v"} \cup When("h_v" \in given, {"h_v"}))
  <1> DEFINE bx == Box(n, n, 1, 0)
             cells == Box(n, n, 0, 0)
             flux == MeridionalFlux("v", h)
             H == cfg.halo
             st == cfg.stencil
             Y == Z \cup {"dv"}
             X == Y \cup {"FA_v"}
  <1>1. Table(T)
    BY DEF MeridionalClaims
  <1>2. /\ H \in Nat /\ st \in Nat /\ n \in Nat /\ m \in Nat /\ p \in Nat
        /\ 1 <= st /\ st <= m /\ m <= H /\ n <= H /\ Q \subseteq R
    BY SweepNumbers
  <1>3. /\ Claims(T, "do_I", Claim(Box(n, n, 1, 0), Box(p, p, m - 1, m), Q))
        /\ Claims(T, "visc_rem_v_tmp", Claim(Box(n, n, 1, 0), Box(p, p, m - 1, m), Q))
        /\ Claims(T, "visc_rem_max", Claim(Box(n, n, 1, 0), Box(p, p, m - 1, m), Q))
        /\ Claims(T, "FA_v", Claim(Box(n, n, 1, 0), Box(p, p, m - 1, m), Q))
        /\ Claims(T, "h_v", Claim(Box(n, n, 1, 0), Box(p, p, m - 1, m), R))
        /\ Claims(T, "dv", Claim(Box(n, n, 1, 0), Box(p, p, m - 1, m), Q))
    BY DEF MeridionalClaims
  <1>4. bx \in Margins /\ GrowLoY(Box(n, n, 0, 0)) = bx
    <2>1. n \in Int
      BY <1>2
    <2>2. bx \in Margins
      BY <2>1, BoxIs
    <2>3. GrowLoY(Box(n, n, 0, 0)) = bx
      BY <2>1, GrowLoYBox
    <2> QED BY <2>2, <2>3
  <1>5. Covered(T, Z, bx, flux) /\ \A B : Q \subseteq B => Carried(T, flux, Claim(bx, Box(p, p, m - 1, m), B))
    BY MeridionalFluxFeeds
  <1>6. Gives(T, Z, meridional_flux_adjust(cells, h, {}, {}), T, Y)
    BY MeridionalAdjustGives
  <1>7. Gives(T, Y, set_merid_BT_cont(cells, h), T, X)
    <2> DEFINE sums == At({"dv", "do_I", "visc_rem_v_tmp", "visc_rem_max"}, Here)
               reads == flux \cup sums
    <2>1. Covered(T, Y, bx, sums) /\ Carried(T, sums, T["FA_v"])
      BY <1>2, <1>3 DEF Covered, Carried, At, Here, ReadAt, Within, Box, Claim, Claims, Argument, Offsets
    <2>2. Covered(T, Y, bx, flux) /\ Carried(T, flux, T["FA_v"])
      BY <1>3, <1>5 DEF Covered, Claims
    <2>3. Within(T["FA_v"].box, bx)
      BY <1>2, <1>3 DEF Within, Box, Claim, Claims, Argument
    <2> HIDE DEF bx, flux, sums
    <2>4. Covered(T, Y, bx, reads) /\ Carried(T, reads, T["FA_v"])
      BY <2>1, <2>2, BothRead
    <2> HIDE DEF reads
    <2>5. Computes(T, Y, bx, {"FA_v"}, reads)
      BY <1>3, <2>3, <2>4 DEF Computes, Claims
    <2>6. Gives(T, Y, <<Loop(bx, {Set({"FA_v"}, reads)})>>, T, X)
      BY <1>1, <1>4, <2>5, OneSetGives
    <2> QED BY <1>4, <2>6 DEF set_merid_BT_cont, reads, flux, sums
  <1>13. /\ Argument(T, cfg.halo, "v", Q)
         /\ Claims(T, "v_cor", Claim(Box(n, n, 1, 0), Box(p, p, m - 1, m), R))
         /\ Argument(T, cfg.halo, "face_v", Q)
         /\ Argument(T, cfg.halo, "cell_y", Q)
    BY DEF MeridionalClaims
  <1>14. /\ \E k \in Nat : n <= k /\ Claims(T, h, Claim(Box(k, k, cfg.stencil, cfg.stencil), Box(p, p, 0, 0), Q))
         /\ Claims(T, "h_S", Claim(Box(n, n, 1, 1), Box(p, p, m - 1, m - 1), Q))
         /\ Claims(T, "h_N", Claim(Box(n, n, 1, 1), Box(p, p, m - 1, m - 1), Q))
    BY DEF MeridionalClaims
  <1>8. \A velocity \in {"v", "v_cor"} : velocity \in Z =>
           Gives(T, X, meridional_flux_thickness(cells, velocity, h), T, X \cup {"h_v"})
    <2> SUFFICES ASSUME NEW velocity \in {"v", "v_cor"}, velocity \in Z
                 PROVE  Gives(T, X, meridional_flux_thickness(cells, velocity, h), T, X \cup {"h_v"})
      OBVIOUS
    <2> DEFINE reads == MeridionalFlux(velocity, h) \cup At({"visc_rem_v_tmp"}, Here)
    <2>2. Covered(T, X, bx, reads) /\ Carried(T, reads, T["h_v"])
      <3>1. \A a \in {h, "v", "v_cor", "face_v", "cell_y", "h_S", "h_N", "visc_rem_v_tmp"} : a \in Z => a \in X
        OBVIOUS
      <3> HIDE DEF X, H, st
      <3>2. CASE velocity = "v"
        BY <1>2, <1>3, <1>13, <1>14, <3>1, <3>2 DEF H, st, MeridionalFlux, Covered, Carried, At, Here, North, ReadAt, Within, Box, Claim, Claims, Argument, Offsets
      <3>3. CASE velocity = "v_cor"
        BY <1>2, <1>3, <1>13, <1>14, <3>1, <3>3 DEF H, st, MeridionalFlux, Covered, Carried, At, Here, North, ReadAt, Within, Box, Claim, Claims, Argument, Offsets
      <3> QED BY <3>2, <3>3
    <2>3. Within(T["h_v"].box, bx)
      BY <1>2, <1>3 DEF Within, Box, Claim, Claims, Argument
    <2> HIDE DEF bx, reads, X
    <2>4. Computes(T, X, bx, {"h_v"}, reads)
      BY <1>3, <2>2, <2>3 DEF Computes, Claims
    <2>5. Gives(T, X, <<Loop(bx, {Set({"h_v"}, reads)})>>, T, X \cup {"h_v"})
      BY <1>1, <1>4, <2>4, OneSetGives
    <2> QED BY <1>4, <2>5 DEF meridional_flux_thickness, reads
  <1> DEFINE W == X \cup When("h_v" \in given, {"h_v"})
             last == IF "h_v" \in given
                     THEN meridional_flux_thickness(cells, IF "v_cor" \in given THEN "v_cor" ELSE "v", h)
                     ELSE <<>>
  <1>9. Gives(T, X, last, T, W)
    <2>1. CASE "h_v" \in given
      <3>1. W = X \cup {"h_v"}
        BY <2>1 DEF When
      <3>2. CASE "v_cor" \in given
        BY <1>8, <2>1, <3>1, <3>2
      <3>3. CASE "v_cor" \notin given
        BY <1>8, <2>1, <3>1, <3>3
      <3> QED BY <3>2, <3>3
    <2>2. CASE "h_v" \notin given
      <3>1. Follows(T, X, T, W)
        BY <2>2 DEF When, Follows
      <3> QED BY <2>2, <3>1, NoStepGives
    <2> QED BY <2>1, <2>2
  <1>10. Gives(T, Z, meridional_flux_adjust(cells, h, {}, {}) \o set_merid_BT_cont(cells, h), T, X)
    BY <1>6, <1>7, ThenGives
  <1>11. Gives(T, Z, meridional_flux_adjust(cells, h, {}, {}) \o set_merid_BT_cont(cells, h) \o last, T, W)
    BY <1>9, <1>10, ThenGives
  <1>12. W = Z \cup {"dv", "FA_v"} \cup When("h_v" \in given, {"h_v"})
    OBVIOUS
  <1> QED BY <1>11, <1>12 DEF meridional_BT_cont

\* The corrected velocities.
LEMMA MeridionalCorrectedGives ==
    ASSUME NEW cfg, NEW h, NEW n, NEW m, NEW p, NEW Q, NEW R, NEW D, SweepOf(cfg, n, m, p, Q, R, D),
           NEW T, MeridionalClaims(T, cfg, h, n, m, p, Q, R, D), NEW Z,
           R \subseteq D, {"v", "dv", "visc_rem_v_tmp"} \subseteq Z, NEW given
    PROVE  Gives(T, Z, meridional_corrected(Box(n, n, 1, 0), given), T, Z \cup (given \cap {"v_cor", "dv_cor"}))
  <1> DEFINE bx == Box(n, n, 1, 0)
             Y == Z \cup (given \cap {"v_cor", "dv_cor"})
             from_v == At({"v", "dv", "visc_rem_v_tmp"}, Here)
             from_dv == At({"dv"}, Here)
             sets == {Set(given \cap {"v_cor"}, from_v), Set(given \cap {"dv_cor"}, from_dv)}
  <1>1. Table(T)
    BY DEF MeridionalClaims
  <1>2. cfg.halo \in Nat /\ n \in Nat /\ m \in Nat /\ p \in Nat /\ 1 <= m /\ m <= cfg.halo /\ n <= cfg.halo
    BY SweepNumbers
  <1>3. Q \subseteq R /\ D = R
    BY SweepNumbers
  <1>4. /\ Argument(T, cfg.halo, "v", Q)
        /\ Claims(T, "dv", Claim(Box(n, n, 1, 0), Box(p, p, m - 1, m), D))
        /\ Claims(T, "visc_rem_v_tmp", Claim(Box(n, n, 1, 0), Box(p, p, m - 1, m), Q))
        /\ Claims(T, "v_cor", Claim(Box(n, n, 1, 0), Box(p, p, m - 1, m), R))
        /\ Claims(T, "dv_cor", Claim(Box(n, n, 1, 0), Box(p, p, m - 1, m), R))
    BY DEF MeridionalClaims
  <1>5. bx \in Margins
    BY <1>2, BoxIs
  <1>6. CASE given \cap {"v_cor", "dv_cor"} = {}
    <2>1. Follows(T, Z, T, Y)
      BY <1>6 DEF Follows
    <2> QED BY <1>6, <2>1, NoStepGives DEF meridional_corrected
  <1>7. CASE given \cap {"v_cor", "dv_cor"} # {}
    <2>1. Computes(T, Z, bx, {"v_cor"}, from_v)
      BY <1>2, <1>3, <1>4 DEF Computes, Covered, Carried, At, Here, ReadAt, Within, Box, Claim, Claims, Argument, Offsets
    <2>2. Computes(T, Z, bx, {"dv_cor"}, from_dv)
      BY <1>2, <1>3, <1>4 DEF Computes, Covered, Carried, At, Here, ReadAt, Within, Box, Claim, Claims, Argument, Offsets
    <2>3. ASSUME NEW x \in sets PROVE Computes(T, Z, bx, x.writes, x.reads)
      <3> HIDE DEF bx, from_v, from_dv
      <3>1. \/ x.writes = given \cap {"v_cor"} /\ x.reads = from_v
            \/ x.writes = given \cap {"dv_cor"} /\ x.reads = from_dv
        BY DEF Set
      <3> QED BY <2>1, <2>2, <3>1 DEF Computes
    <2>4. ASSUME NEW a \in Y PROVE a \in Z \/ \E x \in sets : a \in x.writes
      <3> HIDE DEF bx, from_v, from_dv
      <3>1. Set(given \cap {"v_cor"}, from_v) \in sets /\ Set(given \cap {"dv_cor"}, from_dv) \in sets
        OBVIOUS
      <3>2. \A A, B : Set(A, B).writes = A
        BY DEF Set
      <3> QED BY <3>1, <3>2
    <2> HIDE DEF sets, bx, Y
    <2>5. Gives(T, Z, <<Loop(bx, sets)>>, T, Y)
      BY <1>1, <1>5, <2>3, <2>4, LoopGives
    <2> QED BY <1>7, <2>5 DEF meridional_corrected, sets, bx, Y
  <1> QED BY <1>6, <1>7

\* What the sums and limits are found from.
LEMMA MeridionalLimitsFeed ==
    ASSUME NEW cfg, NEW h, NEW n, NEW m, NEW p, NEW Q, NEW R, NEW D, SweepOf(cfg, n, m, p, Q, R, D),
           NEW T, MeridionalClaims(T, cfg, h, n, m, p, Q, R, D), NEW Z,
           {"v", "face_v", "cell_y"} \subseteq Z
    PROVE  LET near == At({"v", "face_v"}, Here) \cup At({"cell_y"}, Here \cup North)
               wide == When(cfg.aggress, At({"v"}, South \cup North))
           IN  /\ Covered(T, Z, Box(n, n, 1, 0), near) /\ Covered(T, Z, Box(n, n, 1, 0), wide)
               /\ \A B : Q \subseteq B => /\ Carried(T, near, Claim(Box(n, n, 1, 0), Box(p, p, m - 1, m), B))
                                       /\ Carried(T, wide, Claim(Box(n, n, 1, 0), Box(p, p, m - 1, m), B))
  <1>1. cfg.halo \in Nat /\ n \in Nat /\ m \in Nat /\ p \in Nat /\ 1 <= m /\ m <= cfg.halo /\ n <= cfg.halo
    BY SweepNumbers
  <1>2. /\ Argument(T, cfg.halo, "v", Q)
        /\ Argument(T, cfg.halo, "face_v", Q)
        /\ Argument(T, cfg.halo, "cell_y", Q)
    BY DEF MeridionalClaims
  <1>3. cfg.aggress => 2 <= m
    BY DEF SweepOf
  <1> DEFINE near == At({"v", "face_v"}, Here) \cup At({"cell_y"}, Here \cup North)
             wide == When(cfg.aggress, At({"v"}, South \cup North))
  <1>4. Covered(T, Z, Box(n, n, 1, 0), near) /\ Covered(T, Z, Box(n, n, 1, 0), wide)
    BY <1>1, <1>2, <1>3 DEF Covered, At, Here, North, South, When, ReadAt, Within, Box, Claim, Claims, Argument, Offsets
  <1>5. ASSUME NEW B, Q \subseteq B
        PROVE  /\ Carried(T, near, Claim(Box(n, n, 1, 0), Box(p, p, m - 1, m), B))
               /\ Carried(T, wide, Claim(Box(n, n, 1, 0), Box(p, p, m - 1, m), B))
    BY <1>1, <1>2, <1>3, <1>5 DEF Carried, At, Here, North, South, When, ReadAt, Within, Box, Claim, Claims, Argument
  <1> QED BY <1>4, <1>5

\* The arrays a meridional mass flux allocates.
MeridionalFaceScratch == {"visc_rem_v_tmp", "vh_tot_0", "dvhdv_tot_0", "dv_max_CFL", "dv_min_CFL",
                     "visc_rem_max", "dv", "do_I"}

\* The first loop of the fluxes, with the sums that are needed.
LEMMA MeridionalFirstLoopGives ==
    ASSUME NEW cfg, NEW h, NEW n, NEW m, NEW p, NEW Q, NEW R, NEW D, SweepOf(cfg, n, m, p, Q, R, D),
           NEW T, MeridionalClaims(T, cfg, h, n, m, p, Q, R, D), NEW Z,
           {h, "v", "face_v", "cell_y", "h_S", "h_N"} \subseteq Z, "visc_rem_v_tmp" \in Z,
           NEW needed
    PROVE  LET given == cfg.given
               visc_rem == At({"visc_rem_v_tmp"}, Here)
               sums == {Set({"vh_tot_0", "dvhdv_tot_0"}, MeridionalFlux("v", h) \cup visc_rem),
                        Set({"dv_max_CFL", "dv_min_CFL"}, meridional_limits(cfg, visc_rem)),
                        Set({"visc_rem_max"}, visc_rem),
                        Set({"do_I"}, {})}
           IN  Gives(T, Z, <<Loop(Box(n, n, 1, 0), {Set({"vh"}, MeridionalFlux("v", h)), Set(given \cap {"dv_cor"}, {})} \cup When(needed, sums))>>, T,
                     Z \cup {"vh"} \cup (given \cap {"dv_cor"})
                       \cup When(needed, {"vh_tot_0", "dvhdv_tot_0", "dv_max_CFL", "dv_min_CFL", "visc_rem_max", "do_I"}))
  <1> DEFINE bx == Box(n, n, 1, 0)
             given == cfg.given
             flux == MeridionalFlux("v", h)
             visc_rem == At({"visc_rem_v_tmp"}, Here)
             near == At({"v", "face_v"}, Here) \cup At({"cell_y"}, Here \cup North)
             wide == When(cfg.aggress, At({"v"}, South \cup North))
             limits == meridional_limits(cfg, visc_rem)
             s1 == Set({"vh"}, flux)
             s3 == Set(given \cap {"dv_cor"}, {})
             s4 == Set({"vh_tot_0", "dvhdv_tot_0"}, flux \cup visc_rem)
             s5 == Set({"dv_max_CFL", "dv_min_CFL"}, limits)
             s6 == Set({"visc_rem_max"}, visc_rem)
             s7 == Set({"do_I"}, {})
             sums == {s4, s5, s6, s7}
             sets == {s1, s3} \cup When(needed, sums)
             Y == Z \cup {"vh"} \cup (given \cap {"dv_cor"})
                    \cup When(needed, {"vh_tot_0", "dvhdv_tot_0", "dv_max_CFL", "dv_min_CFL", "visc_rem_max", "do_I"})
             found(Q1) == Claim(Box(n, n, 1, 0), Box(p, p, m - 1, m), Q1)
  <1>1. /\ cfg.halo \in Nat /\ n \in Nat /\ m \in Nat /\ p \in Nat /\ 1 <= m /\ m <= cfg.halo /\ n <= cfg.halo
        /\ Q \subseteq D /\ D \subseteq R
    BY SweepNumbers
  <1>2. bx \in Margins
    BY <1>1, BoxIs
  <1>3. Covered(T, Z, bx, flux) /\ \A B : Q \subseteq B => Carried(T, flux, found(B))
    BY MeridionalFluxFeeds
  <1>4. Covered(T, Z, bx, visc_rem) /\ \A B : Q \subseteq B => Carried(T, visc_rem, found(B))
    <2>1. Claims(T, "visc_rem_v_tmp", Claim(Box(n, n, 1, 0), Box(p, p, m - 1, m), Q))
      BY DEF MeridionalClaims
    <2> QED BY <1>1, <2>1 DEF Covered, Carried, At, Here, ReadAt, Within, Box, Claim, Claims, Argument, Offsets
  <1>5. Covered(T, Z, bx, limits) /\ \A B : Q \subseteq B => Carried(T, limits, found(B))
    <2>1. /\ Covered(T, Z, bx, near) /\ Covered(T, Z, bx, wide)
          /\ \A B : Q \subseteq B => Carried(T, near, found(B)) /\ Carried(T, wide, found(B))
      BY MeridionalLimitsFeed
    <2>2. limits = near \cup visc_rem \cup wide
      BY DEF meridional_limits
    <2> HIDE DEF limits, near, visc_rem, wide, bx, found
    <2> QED BY <1>4, <2>1, <2>2, BothRead
  <1>6. /\ Claims(T, "vh", found(R)) /\ Claims(T, "dv_cor", found(R))
        /\ Claims(T, "vh_tot_0", found(Q)) /\ Claims(T, "dvhdv_tot_0", found(Q))
        /\ Claims(T, "dv_max_CFL", found(Q)) /\ Claims(T, "dv_min_CFL", found(Q))
        /\ Claims(T, "visc_rem_max", found(Q)) /\ Claims(T, "do_I", found(Q))
    BY DEF MeridionalClaims
  <1>7. \A B : Within(found(B).box, bx)
    BY <1>1 DEF Within, Box, Claim
  <1>8. Covered(T, Z, bx, {}) /\ \A t : Carried(T, {}, t)
    BY DEF Covered, Carried
  <1>9. Q \subseteq R /\ Q \subseteq Q
    BY <1>1
  <1> HIDE DEF bx, flux, visc_rem, limits, found
  <1>10. \A a, reads, B : /\ Claims(T, a, found(B)) /\ Covered(T, Z, bx, reads) /\ Carried(T, reads, found(B))
                           => Computes(T, Z, bx, {a}, reads)
    BY <1>7 DEF Computes, Claims
  <1>11. \A a, b, reads : Computes(T, Z, bx, {a}, reads) /\ Computes(T, Z, bx, {b}, reads) => Computes(T, Z, bx, {a, b}, reads)
    BY DEF Computes
  <1>12. Computes(T, Z, bx, {"vh"}, flux)
    BY <1>3, <1>6, <1>9, <1>10
  <1>13. Computes(T, Z, bx, {"visc_rem_max"}, visc_rem)
    BY <1>4, <1>6, <1>9, <1>10
  <1>14. Computes(T, Z, bx, {"do_I"}, {}) /\ Computes(T, Z, bx, {"dv_cor"}, {})
    BY <1>6, <1>8, <1>10
  <1>15. Computes(T, Z, bx, {"dv_max_CFL", "dv_min_CFL"}, limits)
    BY <1>5, <1>6, <1>9, <1>10, <1>11
  <1>16. Computes(T, Z, bx, {"vh_tot_0", "dvhdv_tot_0"}, flux \cup visc_rem)
    <2>1. Covered(T, Z, bx, flux \cup visc_rem) /\ Carried(T, flux \cup visc_rem, found(Q))
      BY <1>3, <1>4, <1>9, BothRead
    <2> QED BY <2>1, <1>6, <1>10, <1>11
  <1>17. Computes(T, Z, bx, given \cap {"dv_cor"}, {})
    BY <1>14 DEF Computes
  <1>18. /\ s1.writes = {"vh"} /\ s1.reads = flux
         /\ s3.writes = given \cap {"dv_cor"} /\ s3.reads = {}
         /\ s4.writes = {"vh_tot_0", "dvhdv_tot_0"} /\ s4.reads = flux \cup visc_rem
         /\ s5.writes = {"dv_max_CFL", "dv_min_CFL"} /\ s5.reads = limits
         /\ s6.writes = {"visc_rem_max"} /\ s6.reads = visc_rem
         /\ s7.writes = {"do_I"} /\ s7.reads = {}
    BY DEF Set
  <1> HIDE DEF s1, s3, s4, s5, s6, s7
  <1>19. \A x \in sets : Computes(T, Z, bx, x.writes, x.reads)
    <2> SUFFICES ASSUME NEW x \in sets PROVE Computes(T, Z, bx, x.writes, x.reads)
      OBVIOUS
    <2>1. x = s1 \/ x = s3 \/ x = s4 \/ x = s5 \/ x = s6 \/ x = s7
      BY DEF When
    <2> HIDE DEF sets
    <2>2. CASE x = s1
      BY <2>2, <1>12, <1>18
    <2>4. CASE x = s3
      BY <2>4, <1>17, <1>18
    <2>5. CASE x = s4
      BY <2>5, <1>16, <1>18
    <2>6. CASE x = s5
      BY <2>6, <1>15, <1>18
    <2>7. CASE x = s6
      BY <2>7, <1>13, <1>18
    <2>8. CASE x = s7
      BY <2>8, <1>14, <1>18
    <2> QED BY <2>1, <2>2, <2>4, <2>5, <2>6, <2>7, <2>8
  <1>20. \A a \in Y : a \in Z \/ \E x \in sets : a \in x.writes
    <2>1. /\ s1 \in sets /\ s3 \in sets
          /\ needed => s4 \in sets /\ s5 \in sets /\ s6 \in sets /\ s7 \in sets
      BY DEF When
    <2> HIDE DEF sets
    <2>2. CASE needed
      BY <2>1, <2>2, <1>18 DEF When
    <2>3. CASE ~needed
      BY <2>1, <2>3, <1>18 DEF When
    <2> QED BY <2>2, <2>3
  <1>21. Table(T)
    BY DEF MeridionalClaims
  <1> HIDE DEF sets, Y
  <1>22. Gives(T, Z, <<Loop(bx, sets)>>, T, Y)
    BY <1>2, <1>19, <1>20, <1>21, LoopGives
  <1> QED BY <1>22 DEF sets, Y, bx, flux, visc_rem, limits, s1, s3, s4, s5, s6, s7

\* The fluxes, with what hangs on them.
LEMMA MeridionalMassFluxGives ==
    ASSUME NEW cfg, NEW h, NEW n, NEW m, NEW p, NEW Q, NEW R, SweepOf(cfg, n, m, p, Q, R, R), OutputsTogether(cfg),
           NEW T, MeridionalClaims(T, cfg, h, n, m, p, Q, R, R), NEW Z, Z \subseteq DOMAIN T,
           {h, "v", "face_v", "cell_y", "h_S", "h_N"} \subseteq Z,
           "visc_rem_v" \in cfg.given => "visc_rem_v" \in Z, "vhbt" \in cfg.given => "vhbt" \in Z,
           h \notin MeridionalFaceScratch
    PROVE  Gives(T, Z, meridional_mass_flux(Box(n, n, 0, 0), h, cfg), T,
                 (Z \ MeridionalFaceScratch) \cup {"vh"} \cup (cfg.given \cap {"v_cor", "dv_cor", "FA_v", "h_v"}))
  <1> DEFINE bx == Box(n, n, 1, 0)
             cells == Box(n, n, 0, 0)
             given == cfg.given
             visc_rem == At({"visc_rem_v_tmp"}, Here)
             wide == Box(cfg.halo, cfg.halo, 1, 0)
             filling == At(given \cap {"visc_rem_v"}, Here)
             sums == {Set({"vh_tot_0", "dvhdv_tot_0"}, MeridionalFlux("v", h) \cup visc_rem),
                      Set({"dv_max_CFL", "dv_min_CFL"}, meridional_limits(cfg, visc_rem)),
                      Set({"visc_rem_max"}, visc_rem),
                      Set({"do_I"}, {})}
             needed == needs_sums(given, "vhbt", "FA_v")
             k0 == Scratch(wide, {"visc_rem_v_tmp"})
             k1 == Scratch(bx, {"vh_tot_0", "dvhdv_tot_0", "dv_max_CFL", "dv_min_CFL",
                        "visc_rem_max", "dv", "do_I"})
             k5 == Loop(wide, {Set({"visc_rem_v_tmp"}, filling)})
             k2 == Loop(bx, {Set({"vh"}, MeridionalFlux("v", h)), Set(given \cap {"dv_cor"}, {})} \cup When(needed, sums))
             k3 == IF "vhbt" \in given
                   THEN meridional_flux_adjust(cells, h, {"vhbt"}, {"vh"}) \o meridional_corrected(bx, given) ELSE <<>>
             k4 == IF "FA_v" \in given THEN meridional_BT_cont(cells, h, given) ELSE <<>>
             W0 == Z \ {"visc_rem_v_tmp"}
             W1 == Z \ MeridionalFaceScratch
             X0 == W1 \cup {"visc_rem_v_tmp"}
             X1 == X0 \cup {"vh"} \cup (given \cap {"dv_cor"})
                      \cup When(needed, {"vh_tot_0", "dvhdv_tot_0", "dv_max_CFL", "dv_min_CFL", "visc_rem_max", "do_I"})
             X2 == X1 \cup (given \cap {"v_cor", "dv_cor"})
             X3 == X2 \cup (given \cap {"FA_v", "h_v"})
             Y == W1 \cup {"vh"} \cup (given \cap {"v_cor", "dv_cor", "FA_v", "h_v"})
  <1>1. n \in Nat /\ m \in Nat /\ p \in Nat /\ 1 <= m
    BY SweepNumbers
  <1>2. GrowLoY(cells) = bx
    <2>1. n \in Int
      BY <1>1
    <2> QED BY <2>1, GrowLoYBox
  <1>17. n <= cfg.halo /\ m <= cfg.halo /\ cfg.halo \in Nat
    BY SweepNumbers
  <1>18. [bx EXCEPT !.w = cfg.halo, !.e = cfg.halo] = wide
    <2> DEFINE g == [bx EXCEPT !.w = cfg.halo, !.e = cfg.halo]
    <2>1. g.w = cfg.halo /\ g.e = cfg.halo /\ g.s = 1 /\ g.n = 0
      BY DEF Box
    <2>2. g = [i \in {"w", "e", "s", "n"} |-> g[i]]
      BY DEF Box
    <2>3. wide = [i \in {"w", "e", "s", "n"} |-> wide[i]]
      BY DEF Box
    <2>6. wide.w = cfg.halo /\ wide.e = cfg.halo /\ wide.s = 1 /\ wide.n = 0
      BY DEF Box
    <2> HIDE DEF g, wide
    <2>4. \A i \in {"w", "e", "s", "n"} : g[i] = wide[i]
      BY <2>1, <2>6
    <2>5. g = wide
      BY <2>2, <2>3, <2>4
    <2> QED BY <2>5 DEF g
  <1>19. Gives(T, Z, <<k0>>, T, W0)
    BY ScratchGives
  <1>20. Gives(T, W0, <<k1>>, T, W1)
    BY ScratchGives DEF MeridionalFaceScratch
  <1>3. Gives(T, Z, <<k0, k1>>, T, W1)
    BY <1>19, <1>20, TwoStepsGive
  <1>21. Gives(T, W1, <<k5>>, T, X0)
    <2>1. Argument(T, cfg.halo, "visc_rem_v", Q) /\ Claims(T, "visc_rem_v_tmp", Claim(Box(n, n, 1, 0), Box(p, p, m - 1, m), Q))
      BY DEF MeridionalClaims
    <2>2. "visc_rem_v" \in given => "visc_rem_v" \in W1
      BY DEF MeridionalFaceScratch
    <2> HIDE DEF W1
    <2>3. Computes(T, W1, wide, {"visc_rem_v_tmp"}, filling)
      BY <1>1, <1>17, <2>1, <2>2 DEF Computes, Covered, Carried, At, Here, ReadAt, Within, Box, Claim, Claims, Argument, Offsets
    <2>4. wide \in Margins /\ Table(T)
      BY <1>17, BoxIs DEF MeridionalClaims
    <2> HIDE DEF wide, filling
    <2> QED BY <2>3, <2>4, OneSetGives
  <1>4. Gives(T, X0, <<k2>>, T, X1)
    <2>1. {h, "v", "face_v", "cell_y", "h_S", "h_N"} \subseteq X0 /\ "visc_rem_v_tmp" \in X0
      BY DEF MeridionalFaceScratch
    <2> HIDE DEF X0
    <2> QED BY <2>1, MeridionalFirstLoopGives
  <1>5. /\ {h, "v", "face_v", "cell_y", "h_S", "h_N"} \subseteq X1 /\ {"visc_rem_v_tmp", "vh"} \subseteq X1
        /\ "vhbt" \in given => "vhbt" \in X1
        /\ "vhbt" \in given \/ "FA_v" \in given =>
              {"vh_tot_0", "dvhdv_tot_0", "dv_max_CFL", "dv_min_CFL", "visc_rem_max", "do_I"} \subseteq X1
    BY DEF MeridionalFaceScratch, When, needs_sums
  <1>6. "dv" \notin X2 /\ X1 \subseteq X2
    BY DEF MeridionalFaceScratch, When
  <1>7. /\ "vhbt" \notin given => "v_cor" \notin given /\ X2 = X1
        /\ "FA_v" \notin given => "h_v" \notin given /\ X3 = X2
        /\ "FA_v" \in given => X3 = X2 \cup {"FA_v"} \cup When("h_v" \in given, {"h_v"})
    BY DEF OutputsTogether, When
  <1>8. Y \subseteq X3 /\ "dv" \notin X3
    BY <1>6
  <1>9. X3 \subseteq DOMAIN T /\ X2 \subseteq DOMAIN T /\ "dv" \in DOMAIN T /\ Table(T)
    <2>1. /\ "v_cor" \in DOMAIN T /\ "dv_cor" \in DOMAIN T /\ "FA_v" \in DOMAIN T /\ "h_v" \in DOMAIN T
          /\ "vh" \in DOMAIN T /\ "visc_rem_v_tmp" \in DOMAIN T /\ "vh_tot_0" \in DOMAIN T /\ "dvhdv_tot_0" \in DOMAIN T
          /\ "dv_max_CFL" \in DOMAIN T /\ "dv_min_CFL" \in DOMAIN T /\ "visc_rem_max" \in DOMAIN T /\ "do_I" \in DOMAIN T
          /\ "dv" \in DOMAIN T /\ Table(T)
      BY DEF MeridionalClaims, Claims
    <2> QED BY <2>1 DEF When
  <1>10. "v_cor" \in given => "v_cor" \in X2
    OBVIOUS
  <1> HIDE DEF W0, W1, X0, X1, X2, X3, Y, sums, visc_rem, bx, cells, needed, wide, filling
  <1>11. Gives(T, X1, k3, T, X2)
    <2>1. CASE "vhbt" \in given
      <3>1. Gives(T, X1, meridional_flux_adjust(cells, h, {"vhbt"}, {"vh"}), T, X1 \cup {"dv"})
        <4>1. {h, "v", "face_v", "cell_y", "h_S", "h_N", "do_I", "dv_max_CFL", "dv_min_CFL", "vh_tot_0",
               "dvhdv_tot_0", "visc_rem_v_tmp"} \subseteq X1 /\ {"vhbt"} \cup {"vh"} \subseteq X1
          BY <1>5, <2>1
        <4>2. {"vhbt"} \subseteq {"vhbt"} /\ {"vh"} \subseteq {"vh"} /\ R \subseteq R
          OBVIOUS
        <4> QED BY <4>1, <4>2, MeridionalAdjustGives DEF cells
      <3>2. Gives(T, X1 \cup {"dv"}, meridional_corrected(bx, given), T, (X1 \cup {"dv"}) \cup (given \cap {"v_cor", "dv_cor"}))
        <4>1. {"v", "dv", "visc_rem_v_tmp"} \subseteq X1 \cup {"dv"} /\ R \subseteq R
          BY <1>5
        <4> QED BY <4>1, MeridionalCorrectedGives DEF bx
      <3>3. Gives(T, X1, k3, T, (X1 \cup {"dv"}) \cup (given \cap {"v_cor", "dv_cor"}))
        BY <2>1, <3>1, <3>2, ThenGives
      <3>4. Follows(T, (X1 \cup {"dv"}) \cup (given \cap {"v_cor", "dv_cor"}), T, X2)
        BY DEF Follows, X2
      <3> QED BY <3>3, <3>4, GivesLess
    <2>2. CASE "vhbt" \notin given
      <3>1. Follows(T, X1, T, X2)
        BY <1>7, <2>2 DEF Follows
      <3> QED BY <2>2, <3>1, NoStepGives
    <2> QED BY <2>1, <2>2
  <1>12. Gives(T, X2, k4, T, X3)
    <2>1. CASE "FA_v" \in given
      <3> DEFINE claim == Claim(Box(n, n, 1, 0), Box(p, p, m - 1, m), Q)
                 U == [T EXCEPT !["dv"] = claim]
                 V == X2 \cup {"dv", "FA_v"} \cup When("h_v" \in given, {"h_v"})
      <3>1. claim.box \in Margins /\ claim.from \in Margins
        BY <1>1 DEF Claim, Box, Margins
      <3>2. SweepOf(cfg, n, m, p, Q, R, Q)
        BY DEF SweepOf
      <3>3. MeridionalClaims(U, cfg, h, n, m, p, Q, R, Q)
        <4>1. Table(U) /\ Claims(U, "dv", claim)
          BY <1>9, <3>1, ClaimChanged
        <4>2. "h" \in DOMAIN U
          BY DEF MeridionalClaims
        <4>3. h # "dv"
          BY DEF MeridionalFaceScratch
        <4> DEFINE same(b) == /\ \A c : Claims(T, b, c) => Claims(U, b, c)
                              /\ \A H, A : Argument(T, H, b, A) => Argument(U, H, b, A)
        <4>4. \A b : b # "dv" => same(b)
          BY ClaimStays
        <4> HIDE DEF U, claim
        <4>5. /\ Argument(U, cfg.halo, "v", Q)
              /\ Argument(U, cfg.halo, "face_v", Q)
              /\ Argument(U, cfg.halo, "cell_y", Q)
              /\ Argument(U, cfg.halo, "mask2dT", Q)
              /\ Argument(U, cfg.halo, "visc_rem_v", Q)
              /\ Argument(U, cfg.halo, "vhbt", R)
          BY <4>4 DEF MeridionalClaims
        <4>6. /\ \E k \in Nat : n <= k /\ Claims(U, h, Claim(Box(k, k, cfg.stencil, cfg.stencil), Box(p, p, 0, 0), Q))
              /\ Claims(U, "slp", Claim(Box(n, n, 2, 2), Box(p, p, 1, 1), Q))
              /\ Claims(U, "h_S", Claim(Box(n, n, 1, 1), Box(p, p, m - 1, m - 1), Q))
              /\ Claims(U, "h_N", Claim(Box(n, n, 1, 1), Box(p, p, m - 1, m - 1), Q))
              /\ Claims(U, "vh_tot_0", Claim(Box(n, n, 1, 0), Box(p, p, m - 1, m), Q))
              /\ Claims(U, "dvhdv_tot_0", Claim(Box(n, n, 1, 0), Box(p, p, m - 1, m), Q))
              /\ Claims(U, "dv_max_CFL", Claim(Box(n, n, 1, 0), Box(p, p, m - 1, m), Q))
              /\ Claims(U, "dv_min_CFL", Claim(Box(n, n, 1, 0), Box(p, p, m - 1, m), Q))
          BY <4>3, <4>4 DEF MeridionalClaims
        <4>7. /\ Claims(U, "visc_rem_max", Claim(Box(n, n, 1, 0), Box(p, p, m - 1, m), Q))
              /\ Claims(U, "do_I", Claim(Box(n, n, 1, 0), Box(p, p, m - 1, m), Q))
              /\ Claims(U, "visc_rem_v_tmp", Claim(Box(n, n, 1, 0), Box(p, p, m - 1, m), Q))
              /\ Claims(U, "FA_v", Claim(Box(n, n, 1, 0), Box(p, p, m - 1, m), Q))
              /\ Claims(U, "vh", Claim(Box(n, n, 1, 0), Box(p, p, m - 1, m), R))
              /\ Claims(U, "v_cor", Claim(Box(n, n, 1, 0), Box(p, p, m - 1, m), R))
              /\ Claims(U, "dv_cor", Claim(Box(n, n, 1, 0), Box(p, p, m - 1, m), R))
              /\ Claims(U, "h_v", Claim(Box(n, n, 1, 0), Box(p, p, m - 1, m), R))
          BY <4>4 DEF MeridionalClaims
        <4> QED BY <4>1, <4>2, <4>5, <4>6, <4>7 DEF MeridionalClaims, claim
      <3>4. Follows(T, X2, U, X2) /\ Follows(U, V, T, X3)
        <4>1. /\ Follows(T, X2, U, (X2 \cap DOMAIN T) \ {"dv"})
              /\ Follows(U, V, T, (V \cap DOMAIN T) \ {"dv"})
          BY <1>9, <3>1, ClaimChanged
        <4>2. (X2 \cap DOMAIN T) \ {"dv"} = X2
          BY <1>6, <1>9
        <4>3. X3 \subseteq (V \cap DOMAIN T) \ {"dv"}
          BY <1>7, <1>8, <1>9, <2>1
        <4> HIDE DEF U, V
        <4> QED BY <4>1, <4>2, <4>3 DEF Follows
      <3>5. Gives(U, X2, meridional_BT_cont(cells, h, given), U, V)
        <4>1. {h, "v", "face_v", "cell_y", "h_S", "h_N", "do_I", "dv_max_CFL", "dv_min_CFL", "vh_tot_0",
               "dvhdv_tot_0", "visc_rem_v_tmp", "visc_rem_max"} \subseteq X2
          BY <1>5, <1>6, <2>1
        <4> HIDE DEF U
        <4> QED BY <3>2, <3>3, <4>1, <1>10, MeridionalBTContGives DEF cells
      <3> HIDE DEF U, V
      <3>6. Gives(T, X2, meridional_BT_cont(cells, h, given), U, V)
        BY <3>4, <3>5, GivesFrom
      <3> QED BY <2>1, <3>4, <3>6, GivesLess
    <2>2. CASE "FA_v" \notin given
      <3>1. Follows(T, X2, T, X3)
        BY <1>7, <2>2 DEF Follows
      <3> QED BY <2>2, <3>1, NoStepGives
    <2> QED BY <2>1, <2>2
  <1> HIDE DEF k0, k1, k2, k3, k4, k5
  <1>22. Gives(T, W1, <<k5, k2>>, T, X1)
    BY <1>4, <1>21, TwoStepsGive
  <1>13. Gives(T, Z, <<k0, k1, k5, k2>>, T, X1)
    <2>1. Gives(T, Z, <<k0, k1>> \o <<k5, k2>>, T, X1)
      BY <1>3, <1>22, ThenGives
    <2>2. <<k0, k1>> \o <<k5, k2>> = <<k0, k1, k5, k2>>
      BY JoinedPairs
    <2> QED BY <2>1, <2>2
  <1>14. Gives(T, Z, <<k0, k1, k5, k2>> \o k3, T, X2)
    BY <1>11, <1>13, ThenGives
  <1>15. Gives(T, Z, <<k0, k1, k5, k2>> \o k3 \o k4, T, X3)
    BY <1>12, <1>14, ThenGives
  <1>16. Gives(T, Z, <<k0, k1, k5, k2>> \o k3 \o k4, T, Y)
    BY <1>8, <1>15, GivesLess DEF Follows
  <1> QED BY <1>2, <1>16, <1>18 DEF meridional_mass_flux, k0, k1, k2, k3, k4, k5, bx, cells, visc_rem, sums, needed, wide, filling, Y, W1

\* All the arrays a meridional sweep allocates.
MeridionalScratch == MeridionalFaceScratch \cup {"slp", "h_S", "h_N"}

\* A sweep.
LEMMA MeridionalSweepGives ==
    ASSUME NEW cfg, NEW h, NEW n, NEW m, NEW p, NEW Q, NEW R, SweepOf(cfg, n, m, p, Q, R, R), OutputsTogether(cfg),
           NEW T, MeridionalClaims(T, cfg, h, n, m, p, Q, R, R), NEW Z, Z \subseteq DOMAIN T,
           {h, "v", "face_v", "cell_y", "mask2dT"} \subseteq Z,
           "visc_rem_v" \in cfg.given => "visc_rem_v" \in Z, "vhbt" \in cfg.given => "vhbt" \in Z,
           h \notin MeridionalScratch
    PROVE  Gives(T, Z, MeridionalSweep(Box(n, n, 0, 0), h, cfg),
                 [T EXCEPT !["h"] = Claim(Box(n, n, 0, 0), Box(p, p, m, m), R)],
                 (Z \ MeridionalScratch) \cup {"vh", "h"} \cup (cfg.given \cap {"v_cor", "dv_cor", "FA_v", "h_v"}))
  <1> DEFINE cells == Box(n, n, 0, 0)
             given == cfg.given
             k1 == Scratch(DataBox(cfg), {"h_S", "h_N"})
             k2 == meridional_edge_thickness(cells, h, cfg)
             k3 == meridional_mass_flux(cells, h, cfg)
             reads == At({h, "cell_y"}, Here) \cup At({"vh"}, South \cup Here)
             k4 == <<Loop(cells, {Set({"h"}, reads)})>>
             claim == Claim(Box(n, n, 0, 0), Box(p, p, m, m), R)
             X1 == Z \ {"h_S", "h_N"}
             X2 == (X1 \ {"slp"}) \cup {"h_S", "h_N"}
             X3 == (X2 \ MeridionalFaceScratch) \cup {"vh"} \cup (given \cap {"v_cor", "dv_cor", "FA_v", "h_v"})
             Y == (Z \ MeridionalScratch) \cup {"vh", "h"} \cup (given \cap {"v_cor", "dv_cor", "FA_v", "h_v"})
             U == [T EXCEPT !["h"] = claim]
  <1>1. /\ cfg.halo \in Nat /\ cfg.stencil \in Nat /\ n \in Nat /\ m \in Nat /\ p \in Nat
        /\ 1 <= cfg.stencil /\ 1 <= m /\ m <= cfg.halo /\ n <= cfg.halo /\ Q \subseteq R
    BY SweepNumbers
  <1>2. h \notin MeridionalFaceScratch /\ h \notin {"slp", "h_S", "h_N"}
    BY DEF MeridionalScratch
  <1>3. Gives(T, Z, <<k1>>, T, X1)
    BY ScratchGives
  <1>4. Gives(T, X1, k2, T, X2)
    <2>1. {h, "mask2dT"} \subseteq X1
      BY <1>2
    <2> HIDE DEF X1
    <2> QED BY <1>2, <2>1, MeridionalEdgesGive
  <1>5. Gives(T, X2, k3, T, X3)
    <2>1. /\ {h, "v", "face_v", "cell_y", "h_S", "h_N"} \subseteq X2
          /\ "visc_rem_v" \in given => "visc_rem_v" \in X2
          /\ "vhbt" \in given => "vhbt" \in X2
      BY <1>2
    <2>2. "h_S" \in DOMAIN T /\ "h_N" \in DOMAIN T
      BY DEF MeridionalClaims, Claims
    <2>3. X2 \subseteq DOMAIN T
      BY <2>2
    <2> HIDE DEF X2
    <2> QED BY <1>2, <2>1, <2>3, MeridionalMassFluxGives
  <1>6. X3 \subseteq DOMAIN T /\ "h" \in DOMAIN T /\ Table(T)
    <2>1. /\ "v_cor" \in DOMAIN T /\ "dv_cor" \in DOMAIN T /\ "FA_v" \in DOMAIN T /\ "h_v" \in DOMAIN T
          /\ "vh" \in DOMAIN T /\ "h_S" \in DOMAIN T /\ "h_N" \in DOMAIN T /\ "h" \in DOMAIN T /\ Table(T)
      BY DEF MeridionalClaims, Claims
    <2> QED BY <2>1
  <1>7. h \in X3 /\ "cell_y" \in X3 /\ "vh" \in X3
    BY <1>2 DEF MeridionalFaceScratch
  <1>8. Y \subseteq X3 \cup {"h"}
    BY DEF MeridionalScratch
  <1> HIDE DEF X1, X2, X3, Y
  <1>9. Gives(T, X3, k4, U, X3 \cup {"h"})
    <2>1. /\ Argument(T, cfg.halo, "cell_y", Q)
          /\ \E k \in Nat : n <= k /\ Claims(T, h, Claim(Box(k, k, cfg.stencil, cfg.stencil), Box(p, p, 0, 0), Q))
          /\ Claims(T, "vh", Claim(Box(n, n, 1, 0), Box(p, p, m - 1, m), R))
      BY DEF MeridionalClaims
    <2>2. claim.box \in Margins /\ claim.from \in Margins /\ cells \in Margins /\ Within(claim.box, cells)
      BY <1>1 DEF Claim, Box, Margins, Within
    <2>3. Covered(T, X3, cells, reads)
      BY <1>1, <1>7, <2>1 DEF Covered, At, Here, South, ReadAt, Within, Box, Claim, Claims, Argument, Offsets
    <2>4. Carried(T, reads, claim)
      BY <1>1, <2>1 DEF Carried, At, Here, South, ReadAt, Within, Box, Claim, Claims, Argument
    <2> HIDE DEF cells, reads, claim
    <2> QED BY <1>6, <2>2, <2>3, <2>4, NewClaimGives
  <1> HIDE DEF k1, k2, k3, k4, U
  <1>10. Gives(T, Z, <<k1>> \o k2, T, X2)
    BY <1>3, <1>4, ThenGives
  <1>11. Gives(T, Z, <<k1>> \o k2 \o k3, T, X3)
    BY <1>5, <1>10, ThenGives
  <1>12. Gives(T, Z, <<k1>> \o k2 \o k3 \o k4, U, X3 \cup {"h"})
    BY <1>9, <1>11, ThenGives
  <1>13. Gives(T, Z, <<k1>> \o k2 \o k3 \o k4, U, Y)
    BY <1>8, <1>12, GivesLess DEF Follows
  <1> QED BY <1>13 DEF MeridionalSweep, continuity_meridional_convergence, k1, k2, k3, k4, U, Y

\* The vertical sums alone.
LEMMA MeridionalBTFluxGives ==
    ASSUME NEW cfg, NEW n, NEW m, NEW p, NEW Q, NEW R, NEW D, SweepOf(cfg, n, m, p, Q, R, D),
           NEW T, MeridionalClaims(T, cfg, "h", n, m, p, Q, R, D), NEW Z, Z \subseteq DOMAIN T,
           {"h", "v", "face_v", "cell_y", "mask2dT"} \subseteq Z
    PROVE  Gives(T, Z, <<Scratch(DataBox(cfg), {"h_S", "h_N"})>> \o meridional_edge_thickness(Box(n, n, 0, 0), "h", cfg)
                       \o meridional_BT_mass_flux(Box(n, n, 0, 0), cfg),
                 [T EXCEPT !["vhbt"] = Claim(Box(n, n, 1, 0), Box(p, p, m - 1, m), Q)],
                 (Z \ {"slp", "h_S", "h_N"}) \cup {"vhbt"})
  <1> DEFINE cells == Box(n, n, 0, 0)
             bx == Box(n, n, 1, 0)
             all == DataBox(cfg)
             k1 == Scratch(all, {"h_S", "h_N"})
             k2 == meridional_edge_thickness(cells, "h", cfg)
             flux == MeridionalFlux("v", "h")
             k3 == Loop(all, {Set({"vhbt"}, {})})
             k4 == Loop(bx, {Set({"vhbt"}, flux)})
             claim == Claim(Box(n, n, 1, 0), Box(p, p, m - 1, m), Q)
             X1 == Z \ {"h_S", "h_N"}
             X2 == (X1 \ {"slp"}) \cup {"h_S", "h_N"}
             X3 == X2 \cup {"vhbt"}
             Y == (Z \ {"slp", "h_S", "h_N"}) \cup {"vhbt"}
             U == [T EXCEPT !["vhbt"] = claim]
  <1>1. /\ cfg.halo \in Nat /\ cfg.stencil \in Nat /\ n \in Nat /\ m \in Nat /\ p \in Nat
        /\ 1 <= m /\ m <= cfg.halo /\ n <= cfg.halo /\ Q \subseteq D
    BY SweepNumbers
  <1>2. GrowLoY(cells) = bx
    <2>1. n \in Int
      BY <1>1
    <2> QED BY <2>1, GrowLoYBox
  <1>3. Gives(T, Z, <<k1>>, T, X1)
    BY ScratchGives
  <1>4. Gives(T, X1, k2, T, X2)
    <2>1. {"h", "mask2dT"} \subseteq X1
      OBVIOUS
    <2> HIDE DEF X1
    <2> QED BY <2>1, MeridionalEdgesGive
  <1>5. X3 \subseteq DOMAIN T /\ "vhbt" \in DOMAIN T /\ Table(T)
    <2>1. "vhbt" \in DOMAIN T /\ "h_S" \in DOMAIN T /\ "h_N" \in DOMAIN T /\ Table(T)
      BY DEF MeridionalClaims, Claims, Argument
    <2> QED BY <2>1
  <1>6. {"h", "v", "face_v", "cell_y", "h_S", "h_N"} \subseteq X3 /\ Y \subseteq X3 \cup {"vhbt"}
    OBVIOUS
  <1>7. Argument(T, cfg.halo, "vhbt", R)
    BY DEF MeridionalClaims
  <1>8. /\ claim.box \in Margins /\ claim.from \in Margins /\ bx \in Margins /\ Within(claim.box, bx)
        /\ all \in Margins
    BY <1>1, DataBoxIs DEF Claim, Box, Margins, Within
  <1>9. Computes(T, X2, all, {"vhbt"}, {})
    BY <1>1, <1>7, DataBoxIs DEF Computes, Covered, Carried, Within, Box, Claim, Claims, Argument
  <1> HIDE DEF X1, X2, cells, bx, all, claim, flux
  <1>10. Gives(T, X2, <<k3>>, T, X3)
    BY <1>5, <1>8, <1>9, OneSetGives
  <1> HIDE DEF X3
  <1>11. Gives(T, X3, <<k4>>, U, X3 \cup {"vhbt"})
    <2>1. Covered(T, X3, bx, flux) /\ Carried(T, flux, claim)
      <3>1. Q \subseteq Q
        OBVIOUS
      <3> QED BY <1>6, <3>1, MeridionalFluxFeeds DEF flux, claim, bx
    <2> QED BY <1>5, <1>8, <2>1, NewClaimGives
  <1> HIDE DEF k1, k2, k3, k4, U, Y
  <1>12. Gives(T, Z, <<k1>> \o k2, T, X2)
    BY <1>3, <1>4, ThenGives
  <1>13. Gives(T, X2, <<k3, k4>>, U, X3 \cup {"vhbt"})
    BY <1>10, <1>11, TwoStepsGive
  <1>14. Gives(T, Z, <<k1>> \o k2 \o <<k3, k4>>, U, X3 \cup {"vhbt"})
    BY <1>12, <1>13, ThenGives
  <1>15. Gives(T, Z, <<k1>> \o k2 \o <<k3, k4>>, U, Y)
    BY <1>6, <1>14, GivesLess DEF Follows
  <1> QED BY <1>2, <1>15 DEF meridional_BT_mass_flux, k1, k2, k3, k4, U, Y, cells, bx, all, claim, flux

-----------------------------------------------------------------------------
\* The zonal fields and the meridional ones, listed.
ZonalFields ==
    {"u", "uh", "uhbt", "visc_rem_u", "u_cor", "du_cor", "FA_u", "h_u", "cell_x", "face_u", "CAu", "gradKEu",
     "rv_x_v", "hu_cont", "u_smooth", "diffu", "field_u", "ubtav", "dudx_bt", "dvdx_bt", "CAuS", "KH_u_GME",
     "taux", "taux_shelf", "taux_bot", "a_u", "a_u_gl90", "a1_shelf_u", "Ray_u", "du_dt_visc", "du_dt_visc_gl90",
     "du_dt_str", "KE_u", "u_old", "vel_report_u", "dowrite_u", "Us_x", "uE_u", "uInc_u", "frac_shelf_u",
     "Kv_bbl_u", "bbl_thick_u", "tbl_thick_shelf_u", "Kv_tbl_shelf_u", "nkml_visc_u", "hML_u", "Kv_u",
     "Kv_gl90_u"}
MeridionalFields ==
    {"v", "vh", "vhbt", "visc_rem_v", "v_cor", "dv_cor", "FA_v", "h_v", "cell_y", "face_v", "CAv", "gradKEv",
     "rv_x_u", "hv_cont", "v_smooth", "diffv", "field_v", "vbtav", "dvdy_bt", "dudy_bt", "CAvS", "KH_v_GME",
     "tauy", "tauy_shelf", "tauy_bot", "a_v", "a_v_gl90", "a1_shelf_v", "Ray_v", "dv_dt_visc", "dv_dt_visc_gl90",
     "dv_dt_str", "KE_v", "v_old", "vel_report_v", "dowrite_v", "Us_y", "vE_v", "vInc_v", "frac_shelf_v",
     "Kv_bbl_v", "bbl_thick_v", "tbl_thick_shelf_v", "Kv_tbl_shelf_v", "nkml_visc_v", "hML_v", "Kv_v",
     "Kv_gl90_v"}

\* They are all.
LEMMA FieldsListed == OfU = ZonalFields /\ OfV = MeridionalFields
  <1>1. \A p \in FrictionPairs : p[1] \in ZonalFields /\ p[2] \in MeridionalFields
    BY DEF FrictionPairs, ZonalFields, MeridionalFields
  <1>2. \A p \in Pairs : p[1] \in ZonalFields /\ p[2] \in MeridionalFields
    BY <1>1 DEF Pairs, ZonalFields, MeridionalFields
  <1>3. \A p \in Pairs : p[1] \in OfU /\ p[2] \in OfV
    BY DEF OfU, OfV
  <1>4. \A x, y : <<x, y>> \in Pairs => x \in OfU /\ y \in OfV
    BY <1>3
  <1>5. ZonalFields \subseteq OfU /\ MeridionalFields \subseteq OfV
    <2> DEFINE P(x, y) == <<x, y>> \in Pairs
    <2>1. /\ P("taux", "tauy") /\ P("taux_shelf", "tauy_shelf") /\ P("taux_bot", "tauy_bot") /\ P("a_u", "a_v")
          /\ P("a_u_gl90", "a_v_gl90") /\ P("a1_shelf_u", "a1_shelf_v") /\ P("Ray_u", "Ray_v") /\ P("du_dt_visc", "dv_dt_visc")
      BY DEF Pairs, FrictionPairs
    <2>2. /\ P("du_dt_visc_gl90", "dv_dt_visc_gl90") /\ P("du_dt_str", "dv_dt_str") /\ P("KE_u", "KE_v") /\ P("u_old", "v_old")
          /\ P("vel_report_u", "vel_report_v") /\ P("dowrite_u", "dowrite_v") /\ P("Us_x", "Us_y") /\ P("uE_u", "vE_v")
      BY DEF Pairs, FrictionPairs
    <2>3. /\ P("uInc_u", "vInc_v") /\ P("frac_shelf_u", "frac_shelf_v") /\ P("Kv_bbl_u", "Kv_bbl_v") /\ P("bbl_thick_u", "bbl_thick_v")
          /\ P("tbl_thick_shelf_u", "tbl_thick_shelf_v") /\ P("Kv_tbl_shelf_u", "Kv_tbl_shelf_v") /\ P("nkml_visc_u", "nkml_visc_v") /\ P("hML_u", "hML_v")
      BY DEF Pairs, FrictionPairs
    <2>4. /\ P("Kv_u", "Kv_v") /\ P("Kv_gl90_u", "Kv_gl90_v") /\ P("u", "v") /\ P("uh", "vh")
          /\ P("uhbt", "vhbt") /\ P("visc_rem_u", "visc_rem_v") /\ P("u_cor", "v_cor") /\ P("du_cor", "dv_cor")
      BY DEF Pairs, FrictionPairs
    <2>5. /\ P("FA_u", "FA_v") /\ P("h_u", "h_v") /\ P("cell_x", "cell_y") /\ P("face_u", "face_v")
          /\ P("CAu", "CAv") /\ P("gradKEu", "gradKEv") /\ P("rv_x_v", "rv_x_u") /\ P("hu_cont", "hv_cont")
      BY DEF Pairs, FrictionPairs
    <2>6. /\ P("u_smooth", "v_smooth") /\ P("diffu", "diffv") /\ P("field_u", "field_v") /\ P("ubtav", "vbtav")
          /\ P("dudx_bt", "dvdy_bt") /\ P("dvdx_bt", "dudy_bt") /\ P("CAuS", "CAvS") /\ P("KH_u_GME", "KH_v_GME")
      BY DEF Pairs, FrictionPairs
    <2>7. \A x, y : P(x, y) => x \in OfU /\ y \in OfV
      BY <1>4
    <2> HIDE DEF P
    <2>8. {"taux", "taux_shelf", "taux_bot", "a_u", "a_u_gl90", "a1_shelf_u", "Ray_u", "du_dt_visc"} \subseteq OfU
          /\ {"tauy", "tauy_shelf", "tauy_bot", "a_v", "a_v_gl90", "a1_shelf_v", "Ray_v", "dv_dt_visc"} \subseteq OfV
      BY <2>1, <2>7
    <2>9. {"du_dt_visc_gl90", "du_dt_str", "KE_u", "u_old", "vel_report_u", "dowrite_u", "Us_x", "uE_u"} \subseteq OfU
          /\ {"dv_dt_visc_gl90", "dv_dt_str", "KE_v", "v_old", "vel_report_v", "dowrite_v", "Us_y", "vE_v"} \subseteq OfV
      BY <2>2, <2>7
    <2>10. {"uInc_u", "frac_shelf_u", "Kv_bbl_u", "bbl_thick_u", "tbl_thick_shelf_u", "Kv_tbl_shelf_u", "nkml_visc_u", "hML_u"} \subseteq OfU
          /\ {"vInc_v", "frac_shelf_v", "Kv_bbl_v", "bbl_thick_v", "tbl_thick_shelf_v", "Kv_tbl_shelf_v", "nkml_visc_v", "hML_v"} \subseteq OfV
      BY <2>3, <2>7
    <2>11. {"Kv_u", "Kv_gl90_u", "u", "uh", "uhbt", "visc_rem_u", "u_cor", "du_cor"} \subseteq OfU
          /\ {"Kv_v", "Kv_gl90_v", "v", "vh", "vhbt", "visc_rem_v", "v_cor", "dv_cor"} \subseteq OfV
      BY <2>4, <2>7
    <2>12. {"FA_u", "h_u", "cell_x", "face_u", "CAu", "gradKEu", "rv_x_v", "hu_cont"} \subseteq OfU
          /\ {"FA_v", "h_v", "cell_y", "face_v", "CAv", "gradKEv", "rv_x_u", "hv_cont"} \subseteq OfV
      BY <2>5, <2>7
    <2>13. {"u_smooth", "diffu", "field_u", "ubtav", "dudx_bt", "dvdx_bt", "CAuS", "KH_u_GME"} \subseteq OfU
          /\ {"v_smooth", "diffv", "field_v", "vbtav", "dvdy_bt", "dudy_bt", "CAvS", "KH_v_GME"} \subseteq OfV
      BY <2>6, <2>7
    <2> QED BY <2>8, <2>9, <2>10, <2>11, <2>12, <2>13 DEF ZonalFields, MeridionalFields
  <1>6. OfU \subseteq ZonalFields /\ OfV \subseteq MeridionalFields
    BY <1>2 DEF OfU, OfV
  <1> QED BY <1>5, <1>6

-----------------------------------------------------------------------------
\* Continuity: the claims of a whole call

\* What continuity takes
ContinuityArguments ==
    {"u", "v", "face_u", "face_v", "cell_x", "cell_y", "mask2dT", "visc_rem_u", "visc_rem_v", "uhbt", "vhbt"}

\* What a sweep finds at the faces: from the arguments of its own, and from the
\* transport asked for as well
AtZonalFaces == {"uh_tot_0", "duhdu_tot_0", "du_max_CFL", "du_min_CFL", "visc_rem_u_tmp", "FA_u"}
FromZonalSums == {"uh", "u_cor", "du_cor", "h_u", "du"}
AtMeridionalFaces == {"vh_tot_0", "dvhdv_tot_0", "dv_max_CFL", "dv_min_CFL", "visc_rem_v_tmp", "FA_v"}
FromMeridionalSums == {"vh", "v_cor", "dv_cor", "h_v", "dv"}
InBothSweeps == {"visc_rem_max", "do_I"}

\* All of them
ContinuityNames ==
    ContinuityArguments \cup {"hin", "h", "slp", "h_W", "h_E", "h_S", "h_N"} \cup InBothSweeps
    \cup AtZonalFaces \cup FromZonalSums \cup AtMeridionalFaces \cup FromMeridionalSums

\* A claim for each of them: ze, zq and zr are those of the zonal sweep, me, mq and mr
\* of the meridional one, and slp and both are of the one that runs.
ContinuityTable(H, hin, h, slp, both, ze, zq, zr, me, mq, mr) ==
    [a \in ContinuityNames |->
        IF a \in ContinuityArguments THEN Claim(Box(H, H, H, H), Box(0, 0, 0, 0), {a})
        ELSE IF a = "hin" THEN hin
        ELSE IF a = "h" THEN h
        ELSE IF a = "slp" THEN slp
        ELSE IF a \in InBothSweeps THEN both
        ELSE IF a \in {"h_W", "h_E"} THEN ze
        ELSE IF a \in AtZonalFaces THEN zq
        ELSE IF a \in FromZonalSums THEN zr
        ELSE IF a \in {"h_S", "h_N"} THEN me
        ELSE IF a \in AtMeridionalFaces THEN mq
        ELSE mr]

\* Claims about boxes.
BoxClaim(t) == t.box \in Margins /\ t.from \in Margins

\* What the table holds.
LEMMA ContinuityTableHolds ==
    ASSUME NEW H \in Nat, NEW hin, NEW h, NEW slp, NEW both, NEW ze, NEW zq, NEW zr, NEW me, NEW mq, NEW mr,
           NEW T, T = ContinuityTable(H, hin, h, slp, both, ze, zq, zr, me, mq, mr)
    PROVE  /\ DOMAIN T = ContinuityNames
           /\ \A a \in ContinuityArguments : Claims(T, a, Claim(Box(H, H, H, H), Box(0, 0, 0, 0), {a}))
           /\ Claims(T, "hin", hin) /\ Claims(T, "h", h) /\ Claims(T, "slp", slp)
           /\ \A a \in InBothSweeps : Claims(T, a, both)
           /\ \A a \in {"h_W", "h_E"} : Claims(T, a, ze)
           /\ \A a \in AtZonalFaces : Claims(T, a, zq)
           /\ \A a \in FromZonalSums : Claims(T, a, zr)
           /\ \A a \in {"h_S", "h_N"} : Claims(T, a, me)
           /\ \A a \in AtMeridionalFaces : Claims(T, a, mq)
           /\ \A a \in FromMeridionalSums : Claims(T, a, mr)
           /\ (BoxClaim(hin) /\ BoxClaim(h) /\ BoxClaim(slp) /\ BoxClaim(both) /\ BoxClaim(ze) /\ BoxClaim(zq)
               /\ BoxClaim(zr) /\ BoxClaim(me) /\ BoxClaim(mq) /\ BoxClaim(mr)) => Table(T)
  <1> DEFINE arg(a) == Claim(Box(H, H, H, H), Box(0, 0, 0, 0), {a})
  <1>1. DOMAIN T = ContinuityNames
    BY DEF ContinuityTable
  <1>2. \A a \in ContinuityNames : T[a] =
        IF a \in ContinuityArguments THEN arg(a)
        ELSE IF a = "hin" THEN hin
        ELSE IF a = "h" THEN h
        ELSE IF a = "slp" THEN slp
        ELSE IF a \in InBothSweeps THEN both
        ELSE IF a \in {"h_W", "h_E"} THEN ze
        ELSE IF a \in AtZonalFaces THEN zq
        ELSE IF a \in FromZonalSums THEN zr
        ELSE IF a \in {"h_S", "h_N"} THEN me
        ELSE IF a \in AtMeridionalFaces THEN mq
        ELSE mr
    BY DEF ContinuityTable
  <1>3. \A a : BoxClaim(arg(a))
    BY BoxIs DEF BoxClaim, Claim
  <1> HIDE DEF arg
  <1>4. (BoxClaim(hin) /\ BoxClaim(h) /\ BoxClaim(slp) /\ BoxClaim(both) /\ BoxClaim(ze) /\ BoxClaim(zq)
               /\ BoxClaim(zr) /\ BoxClaim(me) /\ BoxClaim(mq) /\ BoxClaim(mr)) => \A a \in ContinuityNames : BoxClaim(T[a])
    BY <1>2, <1>3
  <1>5. (BoxClaim(hin) /\ BoxClaim(h) /\ BoxClaim(slp) /\ BoxClaim(both) /\ BoxClaim(ze) /\ BoxClaim(zq)
               /\ BoxClaim(zr) /\ BoxClaim(me) /\ BoxClaim(mq) /\ BoxClaim(mr)) => Table(T)
    BY <1>1, <1>4 DEF Table, BoxClaim
  <1>6. \A a \in ContinuityArguments : Claims(T, a, arg(a))
    BY <1>1, <1>2 DEF Claims, ContinuityNames
  <1>7. Claims(T, "hin", hin) /\ Claims(T, "h", h) /\ Claims(T, "slp", slp)
    BY <1>1, <1>2 DEF Claims, ContinuityNames, ContinuityArguments
  <1>8. \A a \in InBothSweeps : Claims(T, a, both)
    BY <1>1, <1>2 DEF Claims, ContinuityNames, ContinuityArguments, InBothSweeps
  <1>9. \A a \in {"h_W", "h_E"} : Claims(T, a, ze)
    BY <1>1, <1>2 DEF Claims, ContinuityNames, ContinuityArguments, InBothSweeps
  <1>10. \A a \in AtZonalFaces : Claims(T, a, zq)
    BY <1>1, <1>2 DEF Claims, ContinuityNames, ContinuityArguments, InBothSweeps, AtZonalFaces
  <1>11. \A a \in FromZonalSums : Claims(T, a, zr)
    BY <1>1, <1>2 DEF Claims, ContinuityNames, ContinuityArguments, InBothSweeps, AtZonalFaces, FromZonalSums
  <1>12. \A a \in {"h_S", "h_N"} : Claims(T, a, me)
    BY <1>1, <1>2 DEF Claims, ContinuityNames, ContinuityArguments, InBothSweeps, AtZonalFaces, FromZonalSums
  <1>13. \A a \in AtMeridionalFaces : Claims(T, a, mq)
    BY <1>1, <1>2 DEF Claims, ContinuityNames, ContinuityArguments, InBothSweeps, AtZonalFaces, FromZonalSums,
                      AtMeridionalFaces
  <1>14. \A a \in FromMeridionalSums : Claims(T, a, mr)
    BY <1>1, <1>2 DEF Claims, ContinuityNames, ContinuityArguments, InBothSweeps, AtZonalFaces, FromZonalSums,
                      AtMeridionalFaces, FromMeridionalSums
  <1> QED BY <1>1, <1>5, <1>6, <1>7, <1>8, <1>9, <1>10, <1>11, <1>12, <1>13, <1>14 DEF arg

\* Boxes are the same when their sides are, as numbers.
LEMMA ClaimIsBoxClaim ==
    ASSUME NEW w \in Int, NEW e \in Int, NEW s \in Int, NEW n \in Int,
           NEW x \in Int, NEW y \in Int, NEW z \in Int, NEW v \in Int, NEW Q
    PROVE  BoxClaim(Claim(Box(w, e, s, n), Box(x, y, z, v), Q))
  BY BoxIs DEF BoxClaim, Claim

\* A table with the claims of a zonal sweep.
LEMMA ZonalTable ==
    ASSUME NEW cfg, NEW h, NEW n, NEW m, NEW p, NEW Q, NEW R, SweepOf(cfg, n, m, p, Q, R, R), NEW T, Table(T),
           {"u", "face_u", "cell_x", "mask2dT", "visc_rem_u"} \subseteq Q, "uhbt" \in R,
           \A a \in ContinuityArguments \ {"vhbt"} :
               Claims(T, a, Claim(Box(cfg.halo, cfg.halo, cfg.halo, cfg.halo), Box(0, 0, 0, 0), {a})),
           NEW t, Claims(T, "h", t),
           NEW k \in Nat, n <= k, Claims(T, h, Claim(Box(cfg.stencil, cfg.stencil, k, k), Box(0, 0, p, p), Q)),
           Claims(T, "slp", Claim(Box(2, 2, n, n), Box(1, 1, p, p), Q)),
           \A a \in {"h_W", "h_E"} : Claims(T, a, Claim(Box(1, 1, n, n), Box(m - 1, m - 1, p, p), Q)),
           \A a \in InBothSweeps : Claims(T, a, Claim(Box(1, 0, n, n), Box(m - 1, m, p, p), Q)),
           \A a \in AtZonalFaces : Claims(T, a, Claim(Box(1, 0, n, n), Box(m - 1, m, p, p), Q)),
           \A a \in FromZonalSums : Claims(T, a, Claim(Box(1, 0, n, n), Box(m - 1, m, p, p), R))
    PROVE  ZonalClaims(T, cfg, h, n, m, p, Q, R, R)
  <1>1. \A a \in (Q \cap ContinuityArguments) \ {"vhbt"} : Argument(T, cfg.halo, a, Q)
    BY DEF Argument
  <1>2. /\ Argument(T, cfg.halo, "u", Q) /\ Argument(T, cfg.halo, "face_u", Q) /\ Argument(T, cfg.halo, "cell_x", Q)
        /\ Argument(T, cfg.halo, "mask2dT", Q) /\ Argument(T, cfg.halo, "visc_rem_u", Q)
    BY <1>1 DEF ContinuityArguments
  <1>3. Argument(T, cfg.halo, "uhbt", R)
    BY DEF Argument, ContinuityArguments
  <1>4. "h" \in DOMAIN T
    BY DEF Claims
  <1> DEFINE q == Claim(Box(1, 0, n, n), Box(m - 1, m, p, p), Q)
             r == Claim(Box(1, 0, n, n), Box(m - 1, m, p, p), R)
             e == Claim(Box(1, 1, n, n), Box(m - 1, m - 1, p, p), Q)
  <1>5. Claims(T, "h_W", e) /\ Claims(T, "h_E", e)
    OBVIOUS
  <1>6. Claims(T, "visc_rem_max", q) /\ Claims(T, "do_I", q)
    BY DEF InBothSweeps
  <1>7. /\ Claims(T, "uh_tot_0", q) /\ Claims(T, "duhdu_tot_0", q) /\ Claims(T, "du_max_CFL", q)
        /\ Claims(T, "du_min_CFL", q) /\ Claims(T, "visc_rem_u_tmp", q) /\ Claims(T, "FA_u", q)
    BY DEF AtZonalFaces
  <1>8. /\ Claims(T, "uh", r) /\ Claims(T, "u_cor", r) /\ Claims(T, "du_cor", r) /\ Claims(T, "h_u", r)
        /\ Claims(T, "du", r)
    BY DEF FromZonalSums
  <1> QED BY <1>2, <1>3, <1>4, <1>5, <1>6, <1>7, <1>8 DEF ZonalClaims
\* A table with the claims of a meridional sweep.
LEMMA MeridionalTable ==
    ASSUME NEW cfg, NEW h, NEW n, NEW m, NEW p, NEW Q, NEW R, SweepOf(cfg, n, m, p, Q, R, R), NEW T, Table(T),
           {"v", "face_v", "cell_y", "mask2dT", "visc_rem_v"} \subseteq Q, "vhbt" \in R,
           \A a \in ContinuityArguments \ {"uhbt"} :
               Claims(T, a, Claim(Box(cfg.halo, cfg.halo, cfg.halo, cfg.halo), Box(0, 0, 0, 0), {a})),
           NEW t, Claims(T, "h", t),
           NEW k \in Nat, n <= k, Claims(T, h, Claim(Box(k, k, cfg.stencil, cfg.stencil), Box(p, p, 0, 0), Q)),
           Claims(T, "slp", Claim(Box(n, n, 2, 2), Box(p, p, 1, 1), Q)),
           \A a \in {"h_S", "h_N"} : Claims(T, a, Claim(Box(n, n, 1, 1), Box(p, p, m - 1, m - 1), Q)),
           \A a \in InBothSweeps : Claims(T, a, Claim(Box(n, n, 1, 0), Box(p, p, m - 1, m), Q)),
           \A a \in AtMeridionalFaces : Claims(T, a, Claim(Box(n, n, 1, 0), Box(p, p, m - 1, m), Q)),
           \A a \in FromMeridionalSums : Claims(T, a, Claim(Box(n, n, 1, 0), Box(p, p, m - 1, m), R))
    PROVE  MeridionalClaims(T, cfg, h, n, m, p, Q, R, R)
  <1>1. \A a \in (Q \cap ContinuityArguments) \ {"uhbt"} : Argument(T, cfg.halo, a, Q)
    BY DEF Argument
  <1>2. /\ Argument(T, cfg.halo, "v", Q) /\ Argument(T, cfg.halo, "face_v", Q) /\ Argument(T, cfg.halo, "cell_y", Q)
        /\ Argument(T, cfg.halo, "mask2dT", Q) /\ Argument(T, cfg.halo, "visc_rem_v", Q)
    BY <1>1 DEF ContinuityArguments
  <1>3. Argument(T, cfg.halo, "vhbt", R)
    BY DEF Argument, ContinuityArguments
  <1>4. "h" \in DOMAIN T
    BY DEF Claims
  <1> DEFINE q == Claim(Box(n, n, 1, 0), Box(p, p, m - 1, m), Q)
             r == Claim(Box(n, n, 1, 0), Box(p, p, m - 1, m), R)
             e == Claim(Box(n, n, 1, 1), Box(p, p, m - 1, m - 1), Q)
  <1>5. Claims(T, "h_S", e) /\ Claims(T, "h_N", e)
    OBVIOUS
  <1>6. Claims(T, "visc_rem_max", q) /\ Claims(T, "do_I", q)
    BY DEF InBothSweeps
  <1>7. /\ Claims(T, "vh_tot_0", q) /\ Claims(T, "dvhdv_tot_0", q) /\ Claims(T, "dv_max_CFL", q)
        /\ Claims(T, "dv_min_CFL", q) /\ Claims(T, "visc_rem_v_tmp", q) /\ Claims(T, "FA_v", q)
    BY DEF AtMeridionalFaces
  <1>8. /\ Claims(T, "vh", r) /\ Claims(T, "v_cor", r) /\ Claims(T, "dv_cor", r) /\ Claims(T, "h_v", r)
        /\ Claims(T, "dv", r)
    BY DEF FromMeridionalSums
  <1> QED BY <1>2, <1>3, <1>4, <1>5, <1>6, <1>7, <1>8 DEF MeridionalClaims

-----------------------------------------------------------------------------
\* What a call starts from and what it promises

\* The claims T of the arrays Z are true of what the bridge copies in: the caller's
\* values, over all of each array.
Begins(c, T, Z) ==
    \A a \in Z : /\ a \in Passed(c)
                 /\ BoxClaim(T[a]) /\ Within(T[a].box, Allocated(a, c.cfg))
                 /\ Within(Box(0, 0, 0, 0), T[a].from) /\ a \in T[a].of

\* Every array of the caller has at least the caller's cells.
LEMMA DataWithin ==
    ASSUME NEW cfg, cfg.halo \in Nat, NEW a
    PROVE  /\ Within(DataBox(cfg), Allocated(a, cfg))
           /\ DataBox(cfg) \in Margins /\ Allocated(a, cfg) \in Margins
  <1> DEFINE H == cfg.halo
  <1>1. DataBox(cfg) = Box(H, H, H, H)
    BY DataBoxIs
  <1>2. GrowLoX(Box(H, H, H, H)) = Box(H + 1, H, H, H)
    BY GrowLoXBox
  <1>3. GrowLoY(Box(H, H, H, H)) = Box(H, H, H + 1, H)
    BY GrowLoYBox
  <1>4. GrowLoX(Box(H, H, H + 1, H)) = Box(H + 1, H, H + 1, H)
    BY GrowLoXBox
  <1> DEFINE b == Box(H, H, H, H)
  <1>5. Within(b, b) /\ Within(b, Box(H + 1, H, H, H)) /\ Within(b, Box(H, H, H + 1, H)) /\ Within(b, Box(H + 1, H, H + 1, H))
    BY DEF Within, Box
  <1>6. b \in Margins
    BY BoxIs
  <1> HIDE DEF b
  <1>7. Within(b, UBox(cfg)) /\ Within(b, VBox(cfg)) /\ Within(b, CornerBox(cfg))
    BY <1>1, <1>2, <1>3, <1>4, <1>5 DEF UBox, VBox, CornerBox, b
  <1>8. Allocated(a, cfg) \in {CornerBox(cfg), UBox(cfg), VBox(cfg), DataBox(cfg)}
    BY DEF Allocated
  <1>9. b \in Margins /\ Box(H + 1, H, H, H) \in Margins /\ Box(H, H, H + 1, H) \in Margins /\ Box(H + 1, H, H + 1, H) \in Margins
    BY <1>6, BoxIs
  <1>10. UBox(cfg) \in Margins /\ VBox(cfg) \in Margins /\ CornerBox(cfg) \in Margins
    BY <1>1, <1>2, <1>3, <1>4, <1>9 DEF UBox, VBox, CornerBox, b
  <1> QED BY <1>1, <1>5, <1>7, <1>8, <1>9, <1>10 DEF b

\* They are true when they claim no more than the cells that every array has.
LEMMA BeginsInside ==
    ASSUME NEW c, c.cfg.halo \in Nat, NEW T, NEW Z,
           \A a \in Z : /\ a \in Passed(c)
                        /\ BoxClaim(T[a]) /\ Within(T[a].box, DataBox(c.cfg))
                        /\ Within(Box(0, 0, 0, 0), T[a].from) /\ a \in T[a].of
    PROVE  Begins(c, T, Z)
  <1> SUFFICES ASSUME NEW a \in Z PROVE Within(T[a].box, Allocated(a, c.cfg))
    BY DEF Begins
  <1>1. /\ T[a].box \in Margins /\ DataBox(c.cfg) \in Margins /\ Allocated(a, c.cfg) \in Margins
        /\ Within(DataBox(c.cfg), Allocated(a, c.cfg))
    BY DataWithin DEF BoxClaim
  <1> QED BY <1>1, WithinTrans

\* What is asked of the claim U makes of an output: set where it is required, from
\* cells within reach, from no result, and not from what it is kept apart from
EndsWell(c, a, t) ==
    /\ BoxClaim(t)
    /\ Within(Required(a, c), t.box)
    /\ Within(t.from, Box(Reach(c), Reach(c), Reach(c), Reach(c)))
    /\ t.of \cap Results(c) = {}
    /\ \A p \in KeptApart(c) : p[1] = a => p[2] \notin t.of

\* All of its outputs
Ends(c, U, Y) == \A a \in Outputs(c) : a \in Y /\ EndsWell(c, a, U[a])

\* The steps of the kernel of c lead from claims that are true when it starts to claims
\* that promise all that is asked of its outputs.
Promise(c) == \E T, Z, U, Y : Begins(c, T, Z) /\ Gives(T, Z, KernelOf(c), U, Y) /\ Ends(c, U, Y)

-----------------------------------------------------------------------------
\* Continuity: the two sweeps

\* The boxes of continuity.
LEMMA ContinuityBoxes ==
    ASSUME NEW k \in Nat
    PROVE  /\ bx0 = Box(0, 0, 0, 0)
           /\ GrowY(bx0, k) = Box(0, 0, k, k)
           /\ GrowX(bx0, k) = Box(k, k, 0, 0)
           /\ GrowLoX(bx0) = Box(1, 0, 0, 0)
           /\ GrowLoY(bx0) = Box(0, 0, 1, 0)
  <1>1. bx0 = Box(0, 0, 0, 0)
    BY DEF bx0, Box
  <1>2. GrowY(Box(0, 0, 0, 0), k) = Box(0, 0, k, k)
    BY GrowYBox
  <1>3. GrowX(Box(0, 0, 0, 0), k) = Box(k, k, 0, 0)
    BY GrowXBox
  <1>4. GrowLoX(Box(0, 0, 0, 0)) = Box(1, 0, 0, 0)
    BY GrowLoXBox
  <1>5. GrowLoY(Box(0, 0, 0, 0)) = Box(0, 0, 1, 0)
    BY GrowLoYBox
  <1> QED BY <1>1, <1>2, <1>3, <1>4, <1>5

\* The numbers of a continuity call.
LEMMA ContinuityNumbers ==
    ASSUME NEW c, CallOK(c), WideEnough(c), c.kernel \in ContinuityKernels
    PROVE  /\ c.cfg.halo \in Nat /\ c.cfg.stencil \in Nat /\ Reach(c) \in Nat
           /\ c.cfg.scheme \in Schemes /\ SchemeStencil(c.cfg.scheme) <= c.cfg.stencil
           /\ c.cfg.stencil <= Reach(c) /\ Reach(c) <= c.cfg.halo
           /\ c.cfg.aggress => 2 <= Reach(c)
           /\ 1 <= c.cfg.stencil
           /\ \A n \in Nat, p \in Nat : \A Q, R : n <= c.cfg.stencil /\ Q \subseteq R => SweepOf(c.cfg, n, Reach(c), p, Q, R, R)
  <1>1. /\ c.cfg.halo \in Nat /\ c.cfg.stencil \in Nat /\ c.cfg.scheme \in Schemes /\ c.cfg.aggress \in BOOLEAN
    BY DEF CallOK, ContinuityKernels, FrictionKernels
  <1>2. Reach(c) = IF c.cfg.aggress /\ c.cfg.stencil < 2 THEN 2 ELSE c.cfg.stencil
    BY DEF Reach, ContinuityKernels
  <1>3. Reach(c) <= c.cfg.halo /\ SchemeStencil(c.cfg.scheme) <= c.cfg.stencil
    BY DEF WideEnough, ContinuityKernels
  <1>4. SchemeStencil(c.cfg.scheme) \in 1 .. 3
    BY <1>1 DEF Schemes, SchemeStencil
  <1>5. /\ Reach(c) \in Nat /\ c.cfg.stencil <= Reach(c) /\ 1 <= c.cfg.stencil
        /\ c.cfg.aggress => 2 <= Reach(c)
    BY <1>1, <1>2, <1>3, <1>4
  <1> QED BY <1>1, <1>3, <1>5 DEF SweepOf

\* What the sweeps may take from: everything, and everything but a transport that is
\* asked for
ContinuityOrigins == (ContinuityArguments \cup {"hin"})

\* Where the outputs of continuity are required.
LEMMA ContinuityRequires ==
    ASSUME NEW c, c.kernel \in ContinuityKernels
    PROVE  /\ Required("h", c) = Box(0, 0, 0, 0)
           /\ \A a \in {"uh", "uhbt", "u_cor", "du_cor", "FA_u", "h_u"} : Required(a, c) = Box(1, 0, 0, 0)
           /\ \A a \in {"vh", "vhbt", "v_cor", "dv_cor", "FA_v", "h_v"} : Required(a, c) = Box(0, 0, 1, 0)
  <1>1. bx0 = Box(0, 0, 0, 0) /\ GrowLoX(bx0) = Box(1, 0, 0, 0) /\ GrowLoY(bx0) = Box(0, 0, 1, 0)
    BY ContinuityBoxes
  <1>2. \A a : Required(a, c) = IF a \in OfU THEN Box(1, 0, 0, 0) ELSE IF a \in OfV THEN Box(0, 0, 1, 0) ELSE Box(0, 0, 0, 0)
    <2> SUFFICES ASSUME NEW a PROVE Required(a, c) = IF a \in OfU THEN Box(1, 0, 0, 0) ELSE IF a \in OfV THEN Box(0, 0, 1, 0) ELSE Box(0, 0, 0, 0)
      OBVIOUS
    <2>1. Required(a, c) = CASE a \in OfU -> GrowLoX(bx0) [] a \in OfV -> GrowLoY(bx0) [] OTHER -> bx0
      BY Zenon DEF Required, ContinuityKernels
    <2>2. ~(a \in OfU /\ a \in OfV)
      BY FieldsListed DEF ZonalFields, MeridionalFields
    <2> QED BY <1>1, <2>1, <2>2
  <1>3. /\ "h" \notin OfU /\ "h" \notin OfV
        /\ {"uh", "uhbt", "u_cor", "du_cor", "FA_u", "h_u"} \subseteq OfU
    BY FieldsListed DEF ZonalFields, MeridionalFields
  <1>4. /\ {"vh", "vhbt", "v_cor", "dv_cor", "FA_v", "h_v"} \subseteq OfV
        /\ \A a \in {"vh", "vhbt", "v_cor", "dv_cor", "FA_v", "h_v"} : a \notin OfU
    BY FieldsListed DEF ZonalFields, MeridionalFields
  <1> QED BY <1>2, <1>3, <1>4

\* Continuity with the zonal sweep first.
LEMMA ZonalFirstPromises ==
    ASSUME NEW c, CallOK(c), WideEnough(c), Consistent(c), c.kernel = "continuity_PPM", c.x_first
    PROVE  Promise(c)
  <1> DEFINE cfg == c.cfg
             given == cfg.given
             H == cfg.halo
             st == cfg.stencil
             m == Reach(c)
             P == ContinuityOrigins
             Q == P \ {"uhbt", "vhbt"}
             R == P \ {"vhbt"}
             hin == Claim(Box(st, st, st, st), Box(0, 0, 0, 0), Q)
             h0 == Claim(Box(0, 0, 0, 0), Box(0, 0, 0, 0), Q)
             h1 == Claim(Box(0, 0, st, st), Box(m, m, 0, 0), R)
             h2 == Claim(Box(0, 0, 0, 0), Box(m, m, m, m), P)
             slp1 == Claim(Box(2, 2, st, st), Box(1, 1, 0, 0), Q)
             slp2 == Claim(Box(0, 0, 2, 2), Box(m, m, 1, 1), R)
             ze == Claim(Box(1, 1, st, st), Box(m - 1, m - 1, 0, 0), Q)
             zq == Claim(Box(1, 0, st, st), Box(m - 1, m, 0, 0), Q)
             zr == Claim(Box(1, 0, st, st), Box(m - 1, m, 0, 0), R)
             me == Claim(Box(0, 0, 1, 1), Box(m, m, m - 1, m - 1), R)
             mq == Claim(Box(0, 0, 1, 0), Box(m, m, m - 1, m), R)
             mr == Claim(Box(0, 0, 1, 0), Box(m, m, m - 1, m), P)
             T == ContinuityTable(H, hin, h0, slp1, zq, ze, zq, zr, me, mq, mr)
             S == ContinuityTable(H, hin, h1, slp2, mq, ze, zq, zr, me, mq, mr)
             T1 == [T EXCEPT !["h"] = h1]
             U == [S EXCEPT !["h"] = h2]
             Z == {"hin", "u", "v", "face_u", "face_v", "cell_x", "cell_y", "mask2dT"} \cup (given \cap OptionalInputs)
             Y1 == (Z \ ZonalScratch) \cup {"uh", "h"} \cup (given \cap {"u_cor", "du_cor", "FA_u", "h_u"})
             Y == (Y1 \ MeridionalScratch) \cup {"vh", "h"} \cup (given \cap {"v_cor", "dv_cor", "FA_v", "h_v"})
  <1>1. c.kernel \in ContinuityKernels
    BY DEF ContinuityKernels
  <1>2. /\ H \in Nat /\ st \in Nat /\ m \in Nat /\ st <= m /\ m <= H /\ 1 <= st
        /\ \A n \in Nat, p \in Nat : \A Q1, R1 : n <= st /\ Q1 \subseteq R1 => SweepOf(cfg, n, m, p, Q1, R1, R1)
    BY <1>1, ContinuityNumbers
  <1>3. OutputsTogether(cfg)
    BY DEF Consistent
  <1>4. SweepOf(cfg, st, m, 0, Q, R, R) /\ SweepOf(cfg, 0, m, m, R, P, P)
    <2>1. Q \subseteq R /\ R \subseteq P
      OBVIOUS
    <2>2. st <= st /\ 0 <= st /\ 0 \in Nat
      BY <1>2
    <2> HIDE DEF Q, R, P, m, st, cfg
    <2> QED BY <1>2, <2>1, <2>2
  <1> HIDE DEF cfg, m, H, st
  <1>5. /\ BoxClaim(hin) /\ BoxClaim(h0) /\ BoxClaim(h1) /\ BoxClaim(h2) /\ BoxClaim(slp1) /\ BoxClaim(slp2)
        /\ BoxClaim(ze) /\ BoxClaim(zq) /\ BoxClaim(zr) /\ BoxClaim(me) /\ BoxClaim(mq) /\ BoxClaim(mr)
    <2>1. m - 1 \in Int /\ m \in Int /\ st \in Int
      BY <1>2
    <2> HIDE DEF P, Q, R
    <2> QED BY <2>1, ClaimIsBoxClaim
  <1>6. /\ {"u", "face_u", "cell_x", "mask2dT", "visc_rem_u"} \subseteq Q /\ "uhbt" \in R
        /\ {"v", "face_v", "cell_y", "mask2dT", "visc_rem_v"} \subseteq R /\ "vhbt" \in P
    BY DEF ContinuityOrigins, ContinuityArguments
  <1> HIDE DEF P, Q, R
  <1>7. Table(T) /\ Table(S) /\ DOMAIN T = ContinuityNames /\ DOMAIN S = ContinuityNames
    BY <1>2, <1>5, ContinuityTableHolds
  <1>8. ZonalClaims(T, cfg, "hin", st, m, 0, Q, R, R)
    <2> HIDE DEF hin, h0, slp1, ze, zq, zr, me, mq, mr, T
    <2>1. /\ \A a \in ContinuityArguments : Claims(T, a, Claim(Box(H, H, H, H), Box(0, 0, 0, 0), {a}))
          /\ Claims(T, "hin", hin) /\ Claims(T, "h", h0) /\ Claims(T, "slp", slp1)
          /\ \A a \in {"h_W", "h_E"} : Claims(T, a, ze)
          /\ \A a \in InBothSweeps : Claims(T, a, zq)
          /\ \A a \in AtZonalFaces : Claims(T, a, zq)
          /\ \A a \in FromZonalSums : Claims(T, a, zr)
      BY <1>2, ContinuityTableHolds DEF T
    <2>2. st <= st
      BY <1>2
    <2> QED BY <1>2, <1>4, <1>6, <1>7, <2>1, <2>2, ZonalTable DEF hin, slp1, ze, zq, zr, H, st
  <1>9. MeridionalClaims(S, cfg, "h", 0, m, m, R, P, P)
    <2> HIDE DEF hin, h1, slp2, ze, zq, zr, me, mq, mr, S
    <2>1. /\ \A a \in ContinuityArguments : Claims(S, a, Claim(Box(H, H, H, H), Box(0, 0, 0, 0), {a}))
          /\ Claims(S, "h", h1) /\ Claims(S, "slp", slp2)
          /\ \A a \in {"h_S", "h_N"} : Claims(S, a, me)
          /\ \A a \in InBothSweeps : Claims(S, a, mq)
          /\ \A a \in AtMeridionalFaces : Claims(S, a, mq)
          /\ \A a \in FromMeridionalSums : Claims(S, a, mr)
      BY <1>2, ContinuityTableHolds DEF S
    <2>2. 0 \in Nat /\ 0 <= 0
      OBVIOUS
    <2> QED BY <1>2, <1>4, <1>6, <1>7, <2>1, <2>2, MeridionalTable DEF h1, slp2, me, mq, mr, H, st
  <1>10. Z \subseteq ContinuityNames /\ Y1 \subseteq ContinuityNames
    BY DEF ContinuityNames, ContinuityArguments, OptionalInputs, AtZonalFaces, FromZonalSums
  <1>11. Gives(T, Z, ZonalSweep(Box(0, 0, st, st), "hin", cfg), T1, Y1)
    <2>1. /\ "visc_rem_u" \in given => "visc_rem_u" \in Z
          /\ "uhbt" \in given => "uhbt" \in Z
          /\ {"hin", "u", "face_u", "cell_x", "mask2dT"} \subseteq Z
      BY DEF OptionalInputs
    <2>2. "hin" \notin ZonalScratch
      BY DEF ZonalScratch, ZonalFaceScratch
    <2> HIDE DEF Z, T
    <2> QED BY <1>3, <1>4, <1>7, <1>8, <1>10, <2>1, <2>2, ZonalSweepGives
  <1>12. Follows(T1, Y1, S, Y1)
    <2>1. \A a \in Y1 : a \in ContinuityNames /\ a # "slp" /\ a \notin InBothSweeps
      <3>1. \A a \in Y1 : a \in ContinuityNames
        BY <1>10
      <3>2. \A a \in Y1 : a # "slp" /\ a \notin InBothSweeps
        BY DEF ZonalScratch, ZonalFaceScratch, InBothSweeps
      <3> QED BY <3>1, <3>2
    <2> HIDE DEF Y1, hin, h0, h1, slp1, slp2, ze, zq, zr, me, mq, mr
    <2>2. ASSUME NEW a \in Y1, a # "h" PROVE T1[a] = S[a]
      BY <2>1, <2>2 DEF ContinuityTable
    <2>3. T1["h"] = h1 /\ S["h"] = h1
      <3>1. Claims(S, "h", h1)
        BY <1>2, ContinuityTableHolds
      <3>2. "h" \in DOMAIN T
        BY <1>7 DEF ContinuityNames
      <3> HIDE DEF T, S
      <3> QED BY <3>1, <3>2 DEF Claims
    <2> QED BY <2>2, <2>3 DEF Follows
  <1>13. Gives(S, Y1, MeridionalSweep(Box(0, 0, 0, 0), "h", cfg), U, Y)
    <2>1. /\ "visc_rem_v" \in given => "visc_rem_v" \in Y1
          /\ "vhbt" \in given => "vhbt" \in Y1
          /\ {"h", "v", "face_v", "cell_y", "mask2dT"} \subseteq Y1
      BY DEF OptionalInputs, ZonalScratch, ZonalFaceScratch
    <2>2. "h" \notin MeridionalScratch
      BY DEF MeridionalScratch, MeridionalFaceScratch
    <2> HIDE DEF Y1, S
    <2> QED BY <1>3, <1>4, <1>7, <1>9, <1>10, <2>1, <2>2, MeridionalSweepGives
  <1>14. KernelOf(c) = ZonalSweep(Box(0, 0, st, st), "hin", cfg) \o MeridionalSweep(Box(0, 0, 0, 0), "h", cfg)
    <2>1. KernelOf(c) = continuity_PPM(c.cfg, c.x_first)
      BY DEF KernelOf
    <2>2. bx0 = Box(0, 0, 0, 0) /\ GrowY(bx0, st) = Box(0, 0, st, st)
      BY <1>2, ContinuityBoxes
    <2> QED BY <2>1, <2>2 DEF continuity_PPM, cfg, st
  <1>15. Gives(T, Z, KernelOf(c), U, Y)
    <2> HIDE DEF Z, Y1, Y, T, T1, S, U
    <2>1. Gives(T, Z, ZonalSweep(Box(0, 0, st, st), "hin", cfg), S, Y1)
      BY <1>11, <1>12, GivesLess
    <2> QED BY <1>13, <1>14, <2>1, ThenGives
  <1>16. Begins(c, T, Z)
    <2> SUFFICES ASSUME NEW a \in Z
                 PROVE  /\ a \in Passed(c)
                        /\ BoxClaim(T[a]) /\ Within(T[a].box, DataBox(c.cfg))
                        /\ Within(Box(0, 0, 0, 0), T[a].from) /\ a \in T[a].of
      BY <1>2, BeginsInside DEF H, cfg
    <2>1. a \in Passed(c)
      BY DEF Passed, continuity_ppm_passed, cfg
    <2>2. a \in ContinuityArguments \/ a = "hin"
      BY DEF ContinuityArguments, OptionalInputs
    <2>3. DataBox(c.cfg) = Box(H, H, H, H)
      BY <1>2, DataBoxIs DEF H, cfg
    <2>4. CASE a \in ContinuityArguments
      <3> DEFINE t == Claim(Box(H, H, H, H), Box(0, 0, 0, 0), {a})
      <3>1. Claims(T, a, t)
        BY <1>2, <2>4, ContinuityTableHolds
      <3>2. BoxClaim(t)
        BY <1>2, BoxIs DEF BoxClaim, Claim
      <3>3. Within(t.box, Box(H, H, H, H)) /\ Within(Box(0, 0, 0, 0), t.from) /\ a \in t.of
        BY <1>2 DEF Within, Box, Claim
      <3> HIDE DEF t, T
      <3> QED BY <2>1, <2>3, <3>1, <3>2, <3>3 DEF Claims
    <2>5. CASE a = "hin"
      <3>1. Claims(T, "hin", hin)
        BY <1>2, ContinuityTableHolds
      <3>2. Within(hin.box, Box(H, H, H, H)) /\ Within(Box(0, 0, 0, 0), hin.from)
        BY <1>2 DEF Within, Box, Claim
      <3>3. "hin" \in hin.of
        BY DEF Q, P, Claim, ContinuityOrigins
      <3> HIDE DEF hin, T
      <3> QED BY <1>5, <2>1, <2>3, <2>5, <3>1, <3>2, <3>3 DEF Claims
    <2> QED BY <2>2, <2>4, <2>5
  <1>17. Results(c) = {"h", "uh", "vh"} \cup (given \cap OptionalOutputs) /\ Updated(c) = {}
    BY DEF Results, Updated, cfg
  <1>18. P \cap Results(c) = {} /\ Q \cap Results(c) = {} /\ R \cap Results(c) = {}
    BY <1>17 DEF P, Q, R, ContinuityOrigins, ContinuityArguments, OptionalOutputs
  <1>19. KeptApart(c) = {<<"FA_u", "uhbt">>, <<"FA_v", "vhbt">>}
    BY DEF KeptApart
  <1>20. ASSUME NEW a \in Outputs(c) PROVE a \in Y /\ EndsWell(c, a, U[a])
    <2>1. a \in {"h", "uh", "vh"} \cup (given \cap OptionalOutputs)
      BY <1>17 DEF Outputs
    <2>2. a \in Y
      BY <2>1 DEF OptionalOutputs, MeridionalScratch, MeridionalFaceScratch
    <2>3. Required("h", c) = Box(0, 0, 0, 0)
      BY <1>1, ContinuityRequires
    <2>4. a # "h" => U[a] = S[a]
      OBVIOUS
    <2> HIDE DEF U
    <2>5. CASE a = "h"
      <3>1. U["h"] = h2
        <4>1. "h" \in DOMAIN S
          BY <1>7 DEF ContinuityNames
        <4> HIDE DEF S, h2
        <4> QED BY <4>1 DEF U
      <3>2. Within(Box(0, 0, 0, 0), h2.box) /\ Within(h2.from, Box(m, m, m, m)) /\ h2.of = P
        BY <1>2 DEF Within, Box, Claim
      <3>3. \A q \in KeptApart(c) : q[1] # "h"
        BY <1>19
      <3> HIDE DEF h2
      <3> QED BY <1>5, <1>18, <2>2, <2>3, <2>5, <3>1, <3>2, <3>3 DEF EndsWell, m
    <2>6. CASE a \in {"uh", "u_cor", "du_cor", "h_u"}
      <3>1. U[a] = zr
        <4>1. Claims(S, a, zr)
          BY <1>2, <2>6, ContinuityTableHolds DEF FromZonalSums
        <4> HIDE DEF S, zr
        <4> QED BY <2>4, <2>6, <4>1 DEF Claims
      <3>2. Within(Box(1, 0, 0, 0), zr.box) /\ Within(zr.from, Box(m, m, m, m)) /\ zr.of = R
        BY <1>2 DEF Within, Box, Claim
      <3>3. \A q \in KeptApart(c) : q[1] # a
        BY <1>19, <2>6
      <3>4. Required(a, c) = Box(1, 0, 0, 0)
        BY <1>1, <2>6, ContinuityRequires
      <3> HIDE DEF zr
      <3> QED BY <1>5, <1>18, <2>2, <3>1, <3>2, <3>3, <3>4 DEF EndsWell, m
    <2>7. CASE a = "FA_u"
      <3>1. U[a] = zq
        <4>1. Claims(S, a, zq)
          BY <1>2, <2>7, ContinuityTableHolds DEF AtZonalFaces
        <4> HIDE DEF S, zq
        <4> QED BY <2>4, <2>7, <4>1 DEF Claims
      <3>2. Within(Box(1, 0, 0, 0), zq.box) /\ Within(zq.from, Box(m, m, m, m)) /\ zq.of = Q
        BY <1>2 DEF Within, Box, Claim
      <3>3. \A q \in KeptApart(c) : q[1] = a => q[2] \notin Q
        BY <1>19, <2>7 DEF Q
      <3>4. Required(a, c) = Box(1, 0, 0, 0)
        BY <1>1, <2>7, ContinuityRequires
      <3> HIDE DEF zq
      <3> QED BY <1>5, <1>18, <2>2, <3>1, <3>2, <3>3, <3>4 DEF EndsWell, m
    <2>8. CASE a \in {"vh", "v_cor", "dv_cor", "h_v"}
      <3>1. U[a] = mr
        <4>1. Claims(S, a, mr)
          BY <1>2, <2>8, ContinuityTableHolds DEF FromMeridionalSums
        <4> HIDE DEF S, mr
        <4> QED BY <2>4, <2>8, <4>1 DEF Claims
      <3>2. Within(Box(0, 0, 1, 0), mr.box) /\ Within(mr.from, Box(m, m, m, m)) /\ mr.of = P
        BY <1>2 DEF Within, Box, Claim
      <3>3. \A q \in KeptApart(c) : q[1] # a
        BY <1>19, <2>8
      <3>4. Required(a, c) = Box(0, 0, 1, 0)
        BY <1>1, <2>8, ContinuityRequires
      <3> HIDE DEF mr
      <3> QED BY <1>5, <1>18, <2>2, <3>1, <3>2, <3>3, <3>4 DEF EndsWell, m
    <2>9. CASE a = "FA_v"
      <3>1. U[a] = mq
        <4>1. Claims(S, a, mq)
          BY <1>2, <2>9, ContinuityTableHolds DEF AtMeridionalFaces
        <4> HIDE DEF S, mq
        <4> QED BY <2>4, <2>9, <4>1 DEF Claims
      <3>2. Within(Box(0, 0, 1, 0), mq.box) /\ Within(mq.from, Box(m, m, m, m)) /\ mq.of = R
        BY <1>2 DEF Within, Box, Claim
      <3>3. \A q \in KeptApart(c) : q[1] = a => q[2] \notin R
        BY <1>19, <2>9 DEF R
      <3>4. Required(a, c) = Box(0, 0, 1, 0)
        BY <1>1, <2>9, ContinuityRequires
      <3> HIDE DEF mq
      <3> QED BY <1>5, <1>18, <2>2, <3>1, <3>2, <3>3, <3>4 DEF EndsWell, m
    <2> QED BY <2>1, <2>5, <2>6, <2>7, <2>8, <2>9 DEF OptionalOutputs
  <1>21. Ends(c, U, Y)
    BY <1>20 DEF Ends
  <1> HIDE DEF T, Z, U, Y
  <1> QED BY <1>15, <1>16, <1>21 DEF Promise

-----------------------------------------------------------------------------
\* Continuity with the meridional sweep first.
LEMMA MeridionalFirstPromises ==
    ASSUME NEW c, CallOK(c), WideEnough(c), Consistent(c), c.kernel = "continuity_PPM", c.x_first = FALSE
    PROVE  Promise(c)
  <1> DEFINE cfg == c.cfg
             given == cfg.given
             H == cfg.halo
             st == cfg.stencil
             m == Reach(c)
             P == ContinuityOrigins
             Q == P \ {"vhbt", "uhbt"}
             R == P \ {"uhbt"}
             hin == Claim(Box(st, st, st, st), Box(0, 0, 0, 0), Q)
             h0 == Claim(Box(0, 0, 0, 0), Box(0, 0, 0, 0), Q)
             h1 == Claim(Box(st, st, 0, 0), Box(0, 0, m, m), R)
             h2 == Claim(Box(0, 0, 0, 0), Box(m, m, m, m), P)
             slp1 == Claim(Box(st, st, 2, 2), Box(0, 0, 1, 1), Q)
             slp2 == Claim(Box(2, 2, 0, 0), Box(1, 1, m, m), R)
             me == Claim(Box(st, st, 1, 1), Box(0, 0, m - 1, m - 1), Q)
             mq == Claim(Box(st, st, 1, 0), Box(0, 0, m - 1, m), Q)
             mr == Claim(Box(st, st, 1, 0), Box(0, 0, m - 1, m), R)
             ze == Claim(Box(1, 1, 0, 0), Box(m - 1, m - 1, m, m), R)
             zq == Claim(Box(1, 0, 0, 0), Box(m - 1, m, m, m), R)
             zr == Claim(Box(1, 0, 0, 0), Box(m - 1, m, m, m), P)
             T == ContinuityTable(H, hin, h0, slp1, mq, ze, zq, zr, me, mq, mr)
             S == ContinuityTable(H, hin, h1, slp2, zq, ze, zq, zr, me, mq, mr)
             T1 == [T EXCEPT !["h"] = h1]
             U == [S EXCEPT !["h"] = h2]
             Z == {"hin", "v", "u", "face_v", "face_u", "cell_y", "cell_x", "mask2dT"} \cup (given \cap OptionalInputs)
             Y1 == (Z \ MeridionalScratch) \cup {"vh", "h"} \cup (given \cap {"v_cor", "dv_cor", "FA_v", "h_v"})
             Y == (Y1 \ ZonalScratch) \cup {"uh", "h"} \cup (given \cap {"u_cor", "du_cor", "FA_u", "h_u"})
  <1>1. c.kernel \in ContinuityKernels
    BY DEF ContinuityKernels
  <1>2. /\ H \in Nat /\ st \in Nat /\ m \in Nat /\ st <= m /\ m <= H /\ 1 <= st
        /\ \A n \in Nat, p \in Nat : \A Q1, R1 : n <= st /\ Q1 \subseteq R1 => SweepOf(cfg, n, m, p, Q1, R1, R1)
    BY <1>1, ContinuityNumbers
  <1>3. OutputsTogether(cfg)
    BY DEF Consistent
  <1>4. SweepOf(cfg, st, m, 0, Q, R, R) /\ SweepOf(cfg, 0, m, m, R, P, P)
    <2>1. Q \subseteq R /\ R \subseteq P
      OBVIOUS
    <2>2. st <= st /\ 0 <= st /\ 0 \in Nat
      BY <1>2
    <2> HIDE DEF Q, R, P, m, st, cfg
    <2> QED BY <1>2, <2>1, <2>2
  <1> HIDE DEF cfg, m, H, st
  <1>5. /\ BoxClaim(hin) /\ BoxClaim(h0) /\ BoxClaim(h1) /\ BoxClaim(h2) /\ BoxClaim(slp1) /\ BoxClaim(slp2)
        /\ BoxClaim(me) /\ BoxClaim(mq) /\ BoxClaim(mr) /\ BoxClaim(ze) /\ BoxClaim(zq) /\ BoxClaim(zr)
    <2>1. m - 1 \in Int /\ m \in Int /\ st \in Int
      BY <1>2
    <2> HIDE DEF P, Q, R
    <2> QED BY <2>1, ClaimIsBoxClaim
  <1>6. /\ {"v", "face_v", "cell_y", "mask2dT", "visc_rem_v"} \subseteq Q /\ "vhbt" \in R
        /\ {"u", "face_u", "cell_x", "mask2dT", "visc_rem_u"} \subseteq R /\ "uhbt" \in P
    BY DEF ContinuityOrigins, ContinuityArguments
  <1> HIDE DEF P, Q, R
  <1>7. Table(T) /\ Table(S) /\ DOMAIN T = ContinuityNames /\ DOMAIN S = ContinuityNames
    BY <1>2, <1>5, ContinuityTableHolds
  <1>8. MeridionalClaims(T, cfg, "hin", st, m, 0, Q, R, R)
    <2> HIDE DEF hin, h0, slp1, me, mq, mr, ze, zq, zr, T
    <2>1. /\ \A a \in ContinuityArguments : Claims(T, a, Claim(Box(H, H, H, H), Box(0, 0, 0, 0), {a}))
          /\ Claims(T, "hin", hin) /\ Claims(T, "h", h0) /\ Claims(T, "slp", slp1)
          /\ \A a \in {"h_S", "h_N"} : Claims(T, a, me)
          /\ \A a \in InBothSweeps : Claims(T, a, mq)
          /\ \A a \in AtMeridionalFaces : Claims(T, a, mq)
          /\ \A a \in FromMeridionalSums : Claims(T, a, mr)
      BY <1>2, ContinuityTableHolds DEF T
    <2>2. st <= st
      BY <1>2
    <2> QED BY <1>2, <1>4, <1>6, <1>7, <2>1, <2>2, MeridionalTable DEF hin, slp1, me, mq, mr, H, st
  <1>9. ZonalClaims(S, cfg, "h", 0, m, m, R, P, P)
    <2> HIDE DEF hin, h1, slp2, me, mq, mr, ze, zq, zr, S
    <2>1. /\ \A a \in ContinuityArguments : Claims(S, a, Claim(Box(H, H, H, H), Box(0, 0, 0, 0), {a}))
          /\ Claims(S, "h", h1) /\ Claims(S, "slp", slp2)
          /\ \A a \in {"h_W", "h_E"} : Claims(S, a, ze)
          /\ \A a \in InBothSweeps : Claims(S, a, zq)
          /\ \A a \in AtZonalFaces : Claims(S, a, zq)
          /\ \A a \in FromZonalSums : Claims(S, a, zr)
      BY <1>2, ContinuityTableHolds DEF S
    <2>2. 0 \in Nat /\ 0 <= 0
      OBVIOUS
    <2> QED BY <1>2, <1>4, <1>6, <1>7, <2>1, <2>2, ZonalTable DEF h1, slp2, ze, zq, zr, H, st
  <1>10. Z \subseteq ContinuityNames /\ Y1 \subseteq ContinuityNames
    BY DEF ContinuityNames, ContinuityArguments, OptionalInputs, AtMeridionalFaces, FromMeridionalSums
  <1>11. Gives(T, Z, MeridionalSweep(Box(st, st, 0, 0), "hin", cfg), T1, Y1)
    <2>1. /\ "visc_rem_v" \in given => "visc_rem_v" \in Z
          /\ "vhbt" \in given => "vhbt" \in Z
          /\ {"hin", "v", "face_v", "cell_y", "mask2dT"} \subseteq Z
      BY DEF OptionalInputs
    <2>2. "hin" \notin MeridionalScratch
      BY DEF MeridionalScratch, MeridionalFaceScratch
    <2> HIDE DEF Z, T
    <2> QED BY <1>3, <1>4, <1>7, <1>8, <1>10, <2>1, <2>2, MeridionalSweepGives
  <1>12. Follows(T1, Y1, S, Y1)
    <2>1. \A a \in Y1 : a \in ContinuityNames /\ a # "slp" /\ a \notin InBothSweeps
      <3>1. \A a \in Y1 : a \in ContinuityNames
        BY <1>10
      <3>2. \A a \in Y1 : a # "slp" /\ a \notin InBothSweeps
        BY DEF MeridionalScratch, MeridionalFaceScratch, InBothSweeps
      <3> QED BY <3>1, <3>2
    <2> HIDE DEF Y1, hin, h0, h1, slp1, slp2, me, mq, mr, ze, zq, zr
    <2>2. ASSUME NEW a \in Y1, a # "h" PROVE T1[a] = S[a]
      BY <2>1, <2>2 DEF ContinuityTable
    <2>3. T1["h"] = h1 /\ S["h"] = h1
      <3>1. Claims(S, "h", h1)
        BY <1>2, ContinuityTableHolds
      <3>2. "h" \in DOMAIN T
        BY <1>7 DEF ContinuityNames
      <3> HIDE DEF T, S
      <3> QED BY <3>1, <3>2 DEF Claims
    <2> QED BY <2>2, <2>3 DEF Follows
  <1>13. Gives(S, Y1, ZonalSweep(Box(0, 0, 0, 0), "h", cfg), U, Y)
    <2>1. /\ "visc_rem_u" \in given => "visc_rem_u" \in Y1
          /\ "uhbt" \in given => "uhbt" \in Y1
          /\ {"h", "u", "face_u", "cell_x", "mask2dT"} \subseteq Y1
      BY DEF OptionalInputs, MeridionalScratch, MeridionalFaceScratch
    <2>2. "h" \notin ZonalScratch
      BY DEF ZonalScratch, ZonalFaceScratch
    <2> HIDE DEF Y1, S
    <2> QED BY <1>3, <1>4, <1>7, <1>9, <1>10, <2>1, <2>2, ZonalSweepGives
  <1>14. KernelOf(c) = MeridionalSweep(Box(st, st, 0, 0), "hin", cfg) \o ZonalSweep(Box(0, 0, 0, 0), "h", cfg)
    <2>1. KernelOf(c) = continuity_PPM(c.cfg, c.x_first)
      BY DEF KernelOf
    <2>2. bx0 = Box(0, 0, 0, 0) /\ GrowX(bx0, st) = Box(st, st, 0, 0)
      BY <1>2, ContinuityBoxes
    <2> QED BY <2>1, <2>2 DEF continuity_PPM, cfg, st
  <1>15. Gives(T, Z, KernelOf(c), U, Y)
    <2> HIDE DEF Z, Y1, Y, T, T1, S, U
    <2>1. Gives(T, Z, MeridionalSweep(Box(st, st, 0, 0), "hin", cfg), S, Y1)
      BY <1>11, <1>12, GivesLess
    <2> QED BY <1>13, <1>14, <2>1, ThenGives
  <1>16. Begins(c, T, Z)
    <2> SUFFICES ASSUME NEW a \in Z
                 PROVE  /\ a \in Passed(c)
                        /\ BoxClaim(T[a]) /\ Within(T[a].box, DataBox(c.cfg))
                        /\ Within(Box(0, 0, 0, 0), T[a].from) /\ a \in T[a].of
      BY <1>2, BeginsInside DEF H, cfg
    <2>1. a \in Passed(c)
      BY DEF Passed, continuity_ppm_passed, cfg
    <2>2. a \in ContinuityArguments \/ a = "hin"
      BY DEF ContinuityArguments, OptionalInputs
    <2>3. DataBox(c.cfg) = Box(H, H, H, H)
      BY <1>2, DataBoxIs DEF H, cfg
    <2>4. CASE a \in ContinuityArguments
      <3> DEFINE t == Claim(Box(H, H, H, H), Box(0, 0, 0, 0), {a})
      <3>1. Claims(T, a, t)
        BY <1>2, <2>4, ContinuityTableHolds
      <3>2. BoxClaim(t)
        BY <1>2, BoxIs DEF BoxClaim, Claim
      <3>3. Within(t.box, Box(H, H, H, H)) /\ Within(Box(0, 0, 0, 0), t.from) /\ a \in t.of
        BY <1>2 DEF Within, Box, Claim
      <3> HIDE DEF t, T
      <3> QED BY <2>1, <2>3, <3>1, <3>2, <3>3 DEF Claims
    <2>5. CASE a = "hin"
      <3>1. Claims(T, "hin", hin)
        BY <1>2, ContinuityTableHolds
      <3>2. Within(hin.box, Box(H, H, H, H)) /\ Within(Box(0, 0, 0, 0), hin.from)
        BY <1>2 DEF Within, Box, Claim
      <3>3. "hin" \in hin.of
        BY DEF Q, P, Claim, ContinuityOrigins
      <3> HIDE DEF hin, T
      <3> QED BY <1>5, <2>1, <2>3, <2>5, <3>1, <3>2, <3>3 DEF Claims
    <2> QED BY <2>2, <2>4, <2>5
  <1>17. Results(c) = {"h", "vh", "uh"} \cup (given \cap OptionalOutputs) /\ Updated(c) = {}
    BY DEF Results, Updated, cfg
  <1>18. P \cap Results(c) = {} /\ Q \cap Results(c) = {} /\ R \cap Results(c) = {}
    BY <1>17 DEF P, Q, R, ContinuityOrigins, ContinuityArguments, OptionalOutputs
  <1>19. KeptApart(c) = {<<"FA_v", "vhbt">>, <<"FA_u", "uhbt">>}
    BY DEF KeptApart
  <1>20. ASSUME NEW a \in Outputs(c) PROVE a \in Y /\ EndsWell(c, a, U[a])
    <2>1. a \in {"h", "vh", "uh"} \cup (given \cap OptionalOutputs)
      BY <1>17 DEF Outputs
    <2>2. a \in Y
      BY <2>1 DEF OptionalOutputs, ZonalScratch, ZonalFaceScratch
    <2>3. Required("h", c) = Box(0, 0, 0, 0)
      BY <1>1, ContinuityRequires
    <2>4. a # "h" => U[a] = S[a]
      OBVIOUS
    <2> HIDE DEF U
    <2>5. CASE a = "h"
      <3>1. U["h"] = h2
        <4>1. "h" \in DOMAIN S
          BY <1>7 DEF ContinuityNames
        <4> HIDE DEF S, h2
        <4> QED BY <4>1 DEF U
      <3>2. Within(Box(0, 0, 0, 0), h2.box) /\ Within(h2.from, Box(m, m, m, m)) /\ h2.of = P
        BY <1>2 DEF Within, Box, Claim
      <3>3. \A q \in KeptApart(c) : q[1] # "h"
        BY <1>19
      <3> HIDE DEF h2
      <3> QED BY <1>5, <1>18, <2>2, <2>3, <2>5, <3>1, <3>2, <3>3 DEF EndsWell, m
    <2>6. CASE a \in {"vh", "v_cor", "dv_cor", "h_v"}
      <3>1. U[a] = mr
        <4>1. Claims(S, a, mr)
          BY <1>2, <2>6, ContinuityTableHolds DEF FromMeridionalSums
        <4> HIDE DEF S, mr
        <4> QED BY <2>4, <2>6, <4>1 DEF Claims
      <3>2. Within(Box(0, 0, 1, 0), mr.box) /\ Within(mr.from, Box(m, m, m, m)) /\ mr.of = R
        BY <1>2 DEF Within, Box, Claim
      <3>3. \A q \in KeptApart(c) : q[1] # a
        BY <1>19, <2>6
      <3>4. Required(a, c) = Box(0, 0, 1, 0)
        BY <1>1, <2>6, ContinuityRequires
      <3> HIDE DEF mr
      <3> QED BY <1>5, <1>18, <2>2, <3>1, <3>2, <3>3, <3>4 DEF EndsWell, m
    <2>7. CASE a = "FA_v"
      <3>1. U[a] = mq
        <4>1. Claims(S, a, mq)
          BY <1>2, <2>7, ContinuityTableHolds DEF AtMeridionalFaces
        <4> HIDE DEF S, mq
        <4> QED BY <2>4, <2>7, <4>1 DEF Claims
      <3>2. Within(Box(0, 0, 1, 0), mq.box) /\ Within(mq.from, Box(m, m, m, m)) /\ mq.of = Q
        BY <1>2 DEF Within, Box, Claim
      <3>3. \A q \in KeptApart(c) : q[1] = a => q[2] \notin Q
        BY <1>19, <2>7 DEF Q
      <3>4. Required(a, c) = Box(0, 0, 1, 0)
        BY <1>1, <2>7, ContinuityRequires
      <3> HIDE DEF mq
      <3> QED BY <1>5, <1>18, <2>2, <3>1, <3>2, <3>3, <3>4 DEF EndsWell, m
    <2>8. CASE a \in {"uh", "u_cor", "du_cor", "h_u"}
      <3>1. U[a] = zr
        <4>1. Claims(S, a, zr)
          BY <1>2, <2>8, ContinuityTableHolds DEF FromZonalSums
        <4> HIDE DEF S, zr
        <4> QED BY <2>4, <2>8, <4>1 DEF Claims
      <3>2. Within(Box(1, 0, 0, 0), zr.box) /\ Within(zr.from, Box(m, m, m, m)) /\ zr.of = P
        BY <1>2 DEF Within, Box, Claim
      <3>3. \A q \in KeptApart(c) : q[1] # a
        BY <1>19, <2>8
      <3>4. Required(a, c) = Box(1, 0, 0, 0)
        BY <1>1, <2>8, ContinuityRequires
      <3> HIDE DEF zr
      <3> QED BY <1>5, <1>18, <2>2, <3>1, <3>2, <3>3, <3>4 DEF EndsWell, m
    <2>9. CASE a = "FA_u"
      <3>1. U[a] = zq
        <4>1. Claims(S, a, zq)
          BY <1>2, <2>9, ContinuityTableHolds DEF AtZonalFaces
        <4> HIDE DEF S, zq
        <4> QED BY <2>4, <2>9, <4>1 DEF Claims
      <3>2. Within(Box(1, 0, 0, 0), zq.box) /\ Within(zq.from, Box(m, m, m, m)) /\ zq.of = R
        BY <1>2 DEF Within, Box, Claim
      <3>3. \A q \in KeptApart(c) : q[1] = a => q[2] \notin R
        BY <1>19, <2>9 DEF R
      <3>4. Required(a, c) = Box(1, 0, 0, 0)
        BY <1>1, <2>9, ContinuityRequires
      <3> HIDE DEF zq
      <3> QED BY <1>5, <1>18, <2>2, <3>1, <3>2, <3>3, <3>4 DEF EndsWell, m
    <2> QED BY <2>1, <2>5, <2>6, <2>7, <2>8, <2>9 DEF OptionalOutputs
  <1>21. Ends(c, U, Y)
    BY <1>20 DEF Ends
  <1> HIDE DEF T, Z, U, Y
  <1> QED BY <1>15, <1>16, <1>21 DEF Promise

\* One sequence after another, as an operator that is left folded up
Joining(s, t) == s \o t

\* A sequence and three more.
LEMMA ThreeMore ==
    ASSUME NEW W, NEW S, NEW k, NEW d, NEW e, NEW f,
           AllFit(k, W, S), AllFit(d, W, S), AllFit(e, W, S), AllFit(f, W, S)
    PROVE  Joining(Joining(Joining(k, d), e), f) = Joining(k, Joining(Joining(d, e), f))
  <1>1. PICK A : k \in Seq(A)
    BY SomeSeq
  <1>2. PICK B : d \in Seq(B)
    BY SomeSeq
  <1>3. PICK C : e \in Seq(C)
    BY SomeSeq
  <1>4. PICK D : f \in Seq(D)
    BY SomeSeq
  <1> DEFINE X == A \cup B \cup C \cup D
             de == d \o e
  <1>5. k \in Seq(X) /\ d \in Seq(X) /\ e \in Seq(X) /\ f \in Seq(X)
    BY <1>1, <1>2, <1>3, <1>4
  <1> HIDE DEF X
  <1>6. de \in Seq(X) /\ k \o d \o e = k \o de
    BY <1>5
  <1> HIDE DEF de
  <1>7. k \o de \o f = k \o (de \o f)
    BY <1>5, <1>6
  <1>8. k \o d \o e \o f = k \o de \o f
    BY <1>6
  <1> QED BY <1>7, <1>8 DEF Joining, de

\* The fluxes of both directions, summed over the layers.
LEMMA BTFluxesPromise ==
    ASSUME NEW c, CallOK(c), WideEnough(c), Consistent(c), c.kernel = "continuity_PPM_2d_fluxes"
    PROVE  Promise(c)
  <1> DEFINE cfg == c.cfg
             H == cfg.halo
             st == cfg.stencil
             m == Reach(c)
             Q == {"h", "u", "v", "face_u", "face_v", "cell_x", "cell_y", "mask2dT", "visc_rem_u", "visc_rem_v"}
             P == Q \cup {"uhbt", "vhbt"}
             h == Claim(Box(st, st, st, st), Box(0, 0, 0, 0), Q)
             slp1 == Claim(Box(2, 2, 0, 0), Box(1, 1, 0, 0), Q)
             slp2 == Claim(Box(0, 0, 2, 2), Box(0, 0, 1, 1), Q)
             ze == Claim(Box(1, 1, 0, 0), Box(m - 1, m - 1, 0, 0), Q)
             zq == Claim(Box(1, 0, 0, 0), Box(m - 1, m, 0, 0), Q)
             zr == Claim(Box(1, 0, 0, 0), Box(m - 1, m, 0, 0), P)
             me == Claim(Box(0, 0, 1, 1), Box(0, 0, m - 1, m - 1), Q)
             mq == Claim(Box(0, 0, 1, 0), Box(0, 0, m - 1, m), Q)
             mr == Claim(Box(0, 0, 1, 0), Box(0, 0, m - 1, m), P)
             T == ContinuityTable(H, h, h, slp1, zq, ze, zq, zr, me, mq, mr)
             S0 == ContinuityTable(H, h, h, slp2, mq, ze, zq, zr, me, mq, mr)
             T1 == [T EXCEPT !["uhbt"] = zq]
             S == [S0 EXCEPT !["uhbt"] = zq]
             U == [S EXCEPT !["vhbt"] = mq]
             Z == {"h", "u", "v", "face_u", "face_v", "cell_x", "cell_y", "mask2dT"}
             Y1 == (Z \ {"slp", "h_W", "h_E"}) \cup {"uhbt"}
             Y == (Y1 \ {"slp", "h_S", "h_N"}) \cup {"vhbt"}
  <1>1. c.kernel \in ContinuityKernels
    BY DEF ContinuityKernels
  <1>2. /\ H \in Nat /\ st \in Nat /\ m \in Nat /\ st <= m /\ m <= H /\ 1 <= st
        /\ \A n \in Nat, p \in Nat : \A Q1, R1 : n <= st /\ Q1 \subseteq R1 => SweepOf(cfg, n, m, p, Q1, R1, R1)
    BY <1>1, ContinuityNumbers
  <1>4. SweepOf(cfg, 0, m, 0, Q, P, P)
    <2>1. Q \subseteq P
      OBVIOUS
    <2>2. 0 <= st /\ 0 \in Nat
      BY <1>2
    <2> HIDE DEF Q, P, m, st, cfg
    <2> QED BY <1>2, <2>1, <2>2
  <1> HIDE DEF cfg, m, H, st
  <1>5. /\ BoxClaim(h) /\ BoxClaim(slp1) /\ BoxClaim(slp2)
        /\ BoxClaim(ze) /\ BoxClaim(zq) /\ BoxClaim(zr) /\ BoxClaim(me) /\ BoxClaim(mq) /\ BoxClaim(mr)
    <2>1. m - 1 \in Int /\ m \in Int /\ st \in Int
      BY <1>2
    <2> HIDE DEF P, Q
    <2> QED BY <2>1, ClaimIsBoxClaim
  <1>6. /\ {"u", "face_u", "cell_x", "mask2dT", "visc_rem_u"} \subseteq Q /\ "uhbt" \in P
        /\ {"v", "face_v", "cell_y", "mask2dT", "visc_rem_v"} \subseteq Q /\ "vhbt" \in P
    OBVIOUS
  <1> HIDE DEF P, Q
  <1>7. Table(T) /\ Table(S0) /\ DOMAIN T = ContinuityNames /\ DOMAIN S0 = ContinuityNames
    BY <1>2, <1>5, ContinuityTableHolds
  <1>71. "uhbt" \in ContinuityNames /\ "h" \in ContinuityNames /\ "vhbt" \in ContinuityNames
    BY DEF ContinuityNames, ContinuityArguments
  <1>72. /\ Table(S) /\ DOMAIN S = ContinuityNames
         /\ \A b, claim : b # "uhbt" /\ Claims(S0, b, claim) => Claims(S, b, claim)
    <2>1. DOMAIN S = DOMAIN S0
      OBVIOUS
    <2>2. Table(S)
      <3> HIDE DEF S0, zq
      <3> QED BY <1>5, <1>7, <1>71, ClaimChanged DEF BoxClaim
    <2>3. \A b, claim : b # "uhbt" /\ Claims(S0, b, claim) => Claims(S, b, claim)
      <3> HIDE DEF S0, zq
      <3> QED BY ClaimStays
    <2> HIDE DEF S, S0
    <2> QED BY <1>7, <2>1, <2>2, <2>3
  <1>8. ZonalClaims(T, cfg, "h", 0, m, 0, Q, P, P)
    <2> HIDE DEF h, slp1, ze, zq, zr, me, mq, mr, T
    <2>1. /\ \A a \in ContinuityArguments : Claims(T, a, Claim(Box(H, H, H, H), Box(0, 0, 0, 0), {a}))
          /\ Claims(T, "h", h) /\ Claims(T, "slp", slp1)
          /\ \A a \in {"h_W", "h_E"} : Claims(T, a, ze)
          /\ \A a \in InBothSweeps : Claims(T, a, zq)
          /\ \A a \in AtZonalFaces : Claims(T, a, zq)
          /\ \A a \in FromZonalSums : Claims(T, a, zr)
      BY <1>2, ContinuityTableHolds DEF T
    <2>2. 0 <= st
      BY <1>2
    <2> QED BY <1>2, <1>4, <1>6, <1>7, <2>1, <2>2, ZonalTable DEF h, slp1, ze, zq, zr, H, st
  <1>9. MeridionalClaims(S, cfg, "h", 0, m, 0, Q, P, P)
    <2> HIDE DEF h, slp2, ze, zq, zr, me, mq, mr, S, S0
    <2>1. /\ \A a \in ContinuityArguments : Claims(S0, a, Claim(Box(H, H, H, H), Box(0, 0, 0, 0), {a}))
          /\ Claims(S0, "h", h) /\ Claims(S0, "slp", slp2)
          /\ \A a \in {"h_S", "h_N"} : Claims(S0, a, me)
          /\ \A a \in InBothSweeps : Claims(S0, a, mq)
          /\ \A a \in AtMeridionalFaces : Claims(S0, a, mq)
          /\ \A a \in FromMeridionalSums : Claims(S0, a, mr)
      BY <1>2, ContinuityTableHolds DEF S0
    <2>2. \A a \in {"h_S", "h_N", "h", "slp"} \cup InBothSweeps \cup AtMeridionalFaces \cup FromMeridionalSums : a # "uhbt"
      BY DEF InBothSweeps, AtMeridionalFaces, FromMeridionalSums
    <2>3. /\ \A a \in ContinuityArguments \ {"uhbt"} : Claims(S, a, Claim(Box(H, H, H, H), Box(0, 0, 0, 0), {a}))
          /\ Claims(S, "h", h) /\ Claims(S, "slp", slp2)
          /\ \A a \in {"h_S", "h_N"} : Claims(S, a, me)
          /\ \A a \in InBothSweeps : Claims(S, a, mq)
          /\ \A a \in AtMeridionalFaces : Claims(S, a, mq)
          /\ \A a \in FromMeridionalSums : Claims(S, a, mr)
      BY <1>72, <2>1, <2>2
    <2>4. 0 <= st
      BY <1>2
    <2> QED BY <1>2, <1>4, <1>6, <1>72, <2>3, <2>4, MeridionalTable DEF h, slp2, me, mq, mr, H, st
  <1>10. Z \subseteq ContinuityNames /\ Y1 \subseteq ContinuityNames
    BY DEF ContinuityNames, ContinuityArguments
  <1> DEFINE kz == <<Scratch(DataBox(cfg), {"h_W", "h_E"})>> \o zonal_edge_thickness(Box(0, 0, 0, 0), "h", cfg)
                   \o zonal_BT_mass_flux(Box(0, 0, 0, 0), cfg)
             km1 == <<Scratch(DataBox(cfg), {"h_S", "h_N"})>>
             km2 == meridional_edge_thickness(Box(0, 0, 0, 0), "h", cfg)
             km3 == meridional_BT_mass_flux(Box(0, 0, 0, 0), cfg)
             km == km1 \o km2 \o km3
  <1>11. Gives(T, Z, kz, T1, Y1)
    <2>1. {"h", "u", "face_u", "cell_x", "mask2dT"} \subseteq Z
      OBVIOUS
    <2> HIDE DEF Z, T
    <2> QED BY <1>4, <1>7, <1>8, <1>10, <2>1, ZonalBTFluxGives
  <1>12. Follows(T1, Y1, S, Y1)
    <2>1. \A a \in Y1 : a \in ContinuityNames /\ a # "slp" /\ a \notin InBothSweeps
      <3>1. \A a \in Y1 : a \in ContinuityNames
        BY <1>10
      <3>2. \A a \in Y1 : a # "slp" /\ a \notin InBothSweeps
        BY DEF InBothSweeps
      <3> QED BY <3>1, <3>2
    <2>2. T1["uhbt"] = zq /\ S["uhbt"] = zq
      <3> HIDE DEF T, S0
      <3> QED BY <1>7, <1>71
    <2> HIDE DEF Y1, h, slp1, slp2, ze, zq, zr, me, mq, mr
    <2>3. ASSUME NEW a \in Y1, a # "uhbt" PROVE T1[a] = S[a]
      BY <2>1, <2>3 DEF ContinuityTable
    <2> QED BY <2>2, <2>3 DEF Follows
  <1>13. Gives(S, Y1, km, U, Y)
    <2>1. {"h", "v", "face_v", "cell_y", "mask2dT"} \subseteq Y1
      OBVIOUS
    <2> HIDE DEF Y1, S
    <2> QED BY <1>4, <1>72, <1>9, <1>10, <2>1, MeridionalBTFluxGives
  <1>14. KernelOf(c) = kz \o km
    <2>1. KernelOf(c) = continuity_PPM_2d_fluxes(c.cfg)
      BY DEF KernelOf
    <2>2. bx0 = Box(0, 0, 0, 0)
      BY ContinuityBoxes
    <2>3. KernelOf(c) = kz \o km1 \o km2 \o km3
      BY <2>1, <2>2 DEF continuity_PPM_2d_fluxes, cfg
    <2> DEFINE W == ContinuityScratch \cup {"uhbt", "vhbt"}
               V == ContinuityScratch
               kz1 == <<Scratch(DataBox(cfg), {"h_W", "h_E"})>>
               kz2 == zonal_edge_thickness(Box(0, 0, 0, 0), "h", cfg)
               kz3 == zonal_BT_mass_flux(Box(0, 0, 0, 0), cfg)
    <2>4. V \subseteq W /\ V \subseteq V /\ "uhbt" \in W /\ "vhbt" \in W /\ ContinuityScratch \subseteq W
          /\ ContinuityScratch \subseteq V
      OBVIOUS
    <2>5. AllFit(kz1, W, V) /\ AllFit(km1, W, V)
      BY OneStep, ScratchFits DEF ContinuityScratch
    <2>6. AllFit(kz3, W, V) /\ AllFit(km3, W, V)
      BY TwoSteps, LoopStep, ApartReads DEF zonal_BT_mass_flux, ZonalFlux, meridional_BT_mass_flux, MeridionalFlux
    <2> HIDE DEF W, V
    <2>7. AllFit(kz2, W, V) /\ AllFit(km2, W, V)
      BY <2>4, EdgesFit
    <2> HIDE DEF kz1, kz2, kz3, km1, km2, km3
    <2>8. AllFit(kz1 \o kz2 \o kz3, W, V)
      BY <2>5, <2>6, <2>7, Then
    <2>9. kz = kz1 \o kz2 \o kz3
      BY DEF kz1, kz2, kz3
    <2> HIDE DEF kz
    <2>10. AllFit(kz, W, V)
      BY <2>8, <2>9
    <2>11. KernelOf(c) = Joining(Joining(Joining(kz, km1), km2), km3)
      BY <2>3, <2>9 DEF Joining
    <2>12. KernelOf(c) = Joining(kz, Joining(Joining(km1, km2), km3))
      BY <2>5, <2>6, <2>7, <2>10, <2>11, ThreeMore
    <2> QED BY <2>12 DEF Joining
  <1>15. Gives(T, Z, KernelOf(c), U, Y)
    <2> HIDE DEF Z, Y1, Y, T, T1, S, U, kz, km
    <2>1. Gives(T, Z, kz, S, Y1)
      BY <1>11, <1>12, GivesLess
    <2> QED BY <1>13, <1>14, <2>1, ThenGives
  <1>16. Begins(c, T, Z)
    <2> SUFFICES ASSUME NEW a \in Z
                 PROVE  /\ a \in Passed(c)
                        /\ BoxClaim(T[a]) /\ Within(T[a].box, DataBox(c.cfg))
                        /\ Within(Box(0, 0, 0, 0), T[a].from) /\ a \in T[a].of
      BY <1>2, BeginsInside DEF H, cfg
    <2>1. a \in Passed(c)
      BY DEF Passed, continuity_ppm_2d_fluxes_passed
    <2>2. a \in ContinuityArguments \/ a = "h"
      BY DEF ContinuityArguments
    <2>3. DataBox(c.cfg) = Box(H, H, H, H)
      BY <1>2, DataBoxIs DEF H, cfg
    <2>4. CASE a \in ContinuityArguments
      <3> DEFINE t == Claim(Box(H, H, H, H), Box(0, 0, 0, 0), {a})
      <3>1. Claims(T, a, t)
        BY <1>2, <2>4, ContinuityTableHolds
      <3>2. BoxClaim(t)
        BY <1>2, BoxIs DEF BoxClaim, Claim
      <3>3. Within(t.box, Box(H, H, H, H)) /\ Within(Box(0, 0, 0, 0), t.from) /\ a \in t.of
        BY <1>2 DEF Within, Box, Claim
      <3> HIDE DEF t, T
      <3> QED BY <2>1, <2>3, <3>1, <3>2, <3>3 DEF Claims
    <2>5. CASE a = "h"
      <3>1. Claims(T, "h", h)
        BY <1>2, ContinuityTableHolds
      <3>2. Within(h.box, Box(H, H, H, H)) /\ Within(Box(0, 0, 0, 0), h.from)
        BY <1>2 DEF Within, Box, Claim
      <3>3. "h" \in h.of
        BY DEF Q, Claim
      <3> HIDE DEF h, T
      <3> QED BY <1>5, <2>1, <2>3, <2>5, <3>1, <3>2, <3>3 DEF Claims
    <2> QED BY <2>2, <2>4, <2>5
  <1>17. Results(c) = {"uhbt", "vhbt"} /\ Updated(c) = {}
    BY DEF Results, Updated
  <1>18. Q \cap Results(c) = {}
    BY <1>17 DEF Q
  <1>19. KeptApart(c) = {}
    BY DEF KeptApart
  <1>20. EndsWell(c, "uhbt", zq)
    <2>1. Required("uhbt", c) = Box(1, 0, 0, 0)
      BY <1>1, ContinuityRequires
    <2>2. Within(Box(1, 0, 0, 0), zq.box) /\ Within(zq.from, Box(m, m, m, m)) /\ zq.of = Q
      BY <1>2 DEF Within, Box, Claim
    <2> HIDE DEF zq
    <2> QED BY <1>5, <1>18, <1>19, <2>1, <2>2 DEF EndsWell, m
  <1>21. EndsWell(c, "vhbt", mq)
    <2>1. Required("vhbt", c) = Box(0, 0, 1, 0)
      BY <1>1, ContinuityRequires
    <2>2. Within(Box(0, 0, 1, 0), mq.box) /\ Within(mq.from, Box(m, m, m, m)) /\ mq.of = Q
      BY <1>2 DEF Within, Box, Claim
    <2> HIDE DEF mq
    <2> QED BY <1>5, <1>18, <1>19, <2>1, <2>2 DEF EndsWell, m
  <1>22. Ends(c, U, Y)
    <2>1. U["uhbt"] = zq /\ U["vhbt"] = mq
      <3>1. "uhbt" \in DOMAIN S /\ "vhbt" \in DOMAIN S /\ S["uhbt"] = zq
        <4> HIDE DEF S0
        <4> QED BY <1>7, <1>71
      <3> HIDE DEF S, zq, mq
      <3> QED BY <3>1
    <2>2. "uhbt" \in Y /\ "vhbt" \in Y
      OBVIOUS
    <2> HIDE DEF U, Y, zq, mq
    <2> QED BY <1>17, <1>20, <1>21, <2>1, <2>2 DEF Ends, Outputs
  <1> HIDE DEF T, Z, U, Y
  <1> QED BY <1>15, <1>16, <1>22 DEF Promise

-----------------------------------------------------------------------------
\* Kernels that stay near a cell: arguments are read beside it, and what is found on
\* the way only at the cell itself

\* The arguments A are known all around the box, and what is found in the arrays B, on
\* the box itself, comes from no further than the cells next to it; O are the offsets at
\* which a body on the box may read the arguments.
Beside(T, H, A, B, O, box) ==
    /\ Table(T) /\ H \in Nat /\ box \in Margins /\ A \cup B \subseteq DOMAIN T
    /\ \A o \in O : /\ o \in Offsets
                    /\ Within(ReadAt(box, o), Box(H, H, H, H))
                    /\ Within(ReadAt(Box(0, 0, 0, 0), o), Box(1, 1, 1, 1))
    /\ \A a \in A : T[a].box = Box(H, H, H, H) /\ T[a].from = Box(0, 0, 0, 0)
    /\ \A b \in B : T[b].box = box /\ T[b].from = Box(1, 1, 1, 1)

\* Reads of that kind, of values that come from Q
Local(T, Z, A, B, O, Q, R) ==
    \A r \in R : /\ r[1] \in Z /\ T[r[1]].of \subseteq Q
                 /\ (r[1] \in A /\ r[2] \in O) \/ (r[1] \in B /\ r[2] = <<0, 0>>)

\* The cell itself.
LEMMA ReadHere ==
    ASSUME NEW b \in Margins
    PROVE  ReadAt(b, <<0, 0>>) = b /\ Within(b, b) /\ <<0, 0>> \in Offsets
  <1>1. b.w \in Int /\ b.e \in Int /\ b.s \in Int /\ b.n \in Int /\ b = [w |-> b.w, e |-> b.e, s |-> b.s, n |-> b.n]
    BY DEF Margins
  <1>2. b.w - 0 = b.w /\ b.e + 0 = b.e /\ b.s - 0 = b.s /\ b.n + 0 = b.n
    BY <1>1
  <1>3. ReadAt(b, <<0, 0>>) = [w |-> b.w - 0, e |-> b.e + 0, s |-> b.s - 0, n |-> b.n + 0]
    BY DEF ReadAt
  <1>4. Within(b, b)
    BY <1>1 DEF Within
  <1>5. <<0, 0>> \in Offsets
    BY DEF Offsets
  <1> QED BY <1>1, <1>2, <1>3, <1>4, <1>5

\* From such reads a body computes what any claim from the same arrays says.
LEMMA LocalCarries ==
    ASSUME NEW T, NEW Z, NEW H, NEW A, NEW B, NEW O, NEW box, Beside(T, H, A, B, O, box),
           NEW Q, NEW R, Local(T, Z, A, B, O, Q, R), NEW t, t.from = Box(1, 1, 1, 1), Q \subseteq t.of
    PROVE  Covered(T, Z, box, R) /\ Carried(T, R, t)
  <1> DEFINE one == Box(1, 1, 1, 1)
  <1>0. /\ box \in Margins /\ H \in Nat
        /\ \A o \in O : /\ o \in Offsets
                        /\ Within(ReadAt(box, o), Box(H, H, H, H))
                        /\ Within(ReadAt(Box(0, 0, 0, 0), o), one)
        /\ \A a \in A : T[a].box = Box(H, H, H, H) /\ T[a].from = Box(0, 0, 0, 0)
        /\ \A b \in B : b \in DOMAIN T /\ T[b].box = box /\ T[b].from = one
    BY DEF Beside
  <1>1. one \in Margins
    BY BoxIs
  <1>t. t.from = one
    OBVIOUS
  <1> HIDE DEF one
  <1>2. ASSUME NEW r \in R
        PROVE  /\ r[1] \in Z /\ r[2] \in Offsets /\ Within(ReadAt(box, r[2]), T[r[1]].box)
               /\ Within(ReadAt(T[r[1]].from, r[2]), one) /\ T[r[1]].of \subseteq Q
    <2>1. r[1] \in Z /\ T[r[1]].of \subseteq Q
      BY DEF Local
    <2>2. CASE r[1] \in A /\ r[2] \in O
      BY <1>0, <2>1, <2>2
    <2>3. CASE r[1] \in B /\ r[2] = <<0, 0>>
      <3>1. T[r[1]].box = box /\ T[r[1]].from = one
        BY <1>0, <2>3
      <3>2. ReadAt(box, r[2]) = box /\ ReadAt(one, r[2]) = one /\ Within(box, box) /\ Within(one, one) /\ r[2] \in Offsets
        BY <1>0, <1>1, <2>3, ReadHere
      <3> QED BY <2>1, <3>1, <3>2
    <2> QED BY <2>2, <2>3 DEF Local
  <1>3. Covered(T, Z, box, R)
    BY <1>2 DEF Covered
  <1>4. Carried(T, R, t)
    BY <1>2, <1>t DEF Carried
  <1> QED BY <1>3, <1>4

\* So it computes what the table claims.
LEMMA LocalComputes ==
    ASSUME NEW T, NEW Z, NEW H, NEW A, NEW B, NEW O, NEW box, Beside(T, H, A, B, O, box),
           NEW Q, NEW R, Local(T, Z, A, B, O, Q, R), NEW W, W \subseteq B, \A a \in W : Q \subseteq T[a].of
    PROVE  Computes(T, Z, box, W, R)
  <1>1. Covered(T, Z, box, R)
    <2> DEFINE t == [from |-> Box(1, 1, 1, 1), of |-> Q]
    <2>2. t.from = Box(1, 1, 1, 1) /\ Q \subseteq t.of
      OBVIOUS
    <2> HIDE DEF t
    <2> QED BY <2>2, LocalCarries
  <1>2. ASSUME NEW a \in W PROVE a \in DOMAIN T /\ Carried(T, R, T[a]) /\ Within(T[a].box, box)
    <2>1. a \in DOMAIN T /\ T[a].box = box /\ T[a].from = Box(1, 1, 1, 1) /\ Q \subseteq T[a].of
      BY DEF Beside
    <2>2. Within(box, box)
      BY ReadHere DEF Beside
    <2>3. Carried(T, R, T[a])
      BY <2>1, LocalCarries
    <2> QED BY <2>1, <2>2, <2>3
  <1> QED BY <1>1, <1>2 DEF Computes

\* Reads of both kinds together, of some arrays at some offsets, and under a condition.
LEMMA LocalReads ==
    ASSUME NEW T, NEW Z, NEW A, NEW B, NEW O, NEW Q
    PROVE  /\ \A R, S : Local(T, Z, A, B, O, Q, R) /\ Local(T, Z, A, B, O, Q, S) => Local(T, Z, A, B, O, Q, R \cup S)
           /\ \A X, P : X \subseteq A \cap Z /\ P \subseteq O /\ (\A a \in X : T[a].of \subseteq Q)
                           => Local(T, Z, A, B, O, Q, At(X, P))
           /\ \A X : X \subseteq B \cap Z /\ (\A a \in X : T[a].of \subseteq Q) => Local(T, Z, A, B, O, Q, At(X, Here))
           /\ \A X : X \subseteq (A \cup B) \cap Z /\ <<0, 0>> \in O /\ (\A a \in X : T[a].of \subseteq Q)
                           => Local(T, Z, A, B, O, Q, At(X, Here))
           /\ Local(T, Z, A, B, O, Q, {})
           /\ \A condition, R : (condition => Local(T, Z, A, B, O, Q, R)) => Local(T, Z, A, B, O, Q, When(condition, R))
  <1>1. \A X, P : \A r \in At(X, P) : r[1] \in X /\ r[2] \in P
    BY DEF At
  <1>2. \A X : \A r \in At(X, Here) : r[1] \in X /\ r[2] = <<0, 0>>
    BY DEF At, Here
  <1>3. \A R, S : Local(T, Z, A, B, O, Q, R) /\ Local(T, Z, A, B, O, Q, S) => Local(T, Z, A, B, O, Q, R \cup S)
    BY DEF Local
  <1>4. \A X, P : X \subseteq A \cap Z /\ P \subseteq O /\ (\A a \in X : T[a].of \subseteq Q)
                           => Local(T, Z, A, B, O, Q, At(X, P))
    BY <1>1 DEF Local
  <1>5. \A X : X \subseteq B \cap Z /\ (\A a \in X : T[a].of \subseteq Q) => Local(T, Z, A, B, O, Q, At(X, Here))
    BY <1>2 DEF Local
  <1>6. \A X : X \subseteq (A \cup B) \cap Z /\ <<0, 0>> \in O /\ (\A a \in X : T[a].of \subseteq Q)
                           => Local(T, Z, A, B, O, Q, At(X, Here))
    BY <1>2 DEF Local
  <1>7. Local(T, Z, A, B, O, Q, {})
    BY DEF Local
  <1>8. \A condition, R : (condition => Local(T, Z, A, B, O, Q, R)) => Local(T, Z, A, B, O, Q, When(condition, R))
    BY <1>7 DEF When
  <1> QED BY <1>3, <1>4, <1>5, <1>6, <1>7, <1>8

\* The loop that finds one array, under a condition.
LEMMA LocalSets ==
    ASSUME NEW T, NEW Z, NEW H, NEW A, NEW B, NEW O, NEW box, Beside(T, H, A, B, O, box),
           NEW condition, NEW a \in B, NEW R, condition => Local(T, Z, A, B, O, T[a].of, R)
    PROVE  Gives(T, Z, Sets(condition, box, a, R), T, Z \cup When(condition, {a}))
  <1>1. Table(T) /\ box \in Margins
    BY DEF Beside
  <1>2. condition => Computes(T, Z, box, {a}, R)
    BY LocalComputes
  <1> QED BY <1>1, <1>2, SetsGive

\* The one that changes it.
LEMMA LocalChanges ==
    ASSUME NEW T, NEW Z, NEW H, NEW A, NEW B, NEW O, NEW box, Beside(T, H, A, B, O, box),
           NEW condition, NEW a \in B, condition => a \in Z, NEW R, condition => Local(T, Z, A, B, O, T[a].of, R)
    PROVE  Gives(T, Z, Changes(condition, box, a, R), T, Z)
  <1>1. Table(T) /\ box \in Margins /\ T[a].box = box
    BY DEF Beside
  <1>2. condition => Computes(T, Z, box, {a}, R)
    BY LocalComputes
  <1>3. Within(box, T[a].box)
    BY <1>1, ReadHere
  <1> QED BY <1>1, <1>2, <1>3, ChangesGive

\* A loop that finds arrays W from one set of reads.
LEMMA LocalLoop ==
    ASSUME NEW T, NEW Z, NEW H, NEW A, NEW B, NEW O, NEW box, Beside(T, H, A, B, O, box),
           NEW Q, NEW R, Local(T, Z, A, B, O, Q, R), NEW W, W \subseteq B, \A a \in W : Q \subseteq T[a].of
    PROVE  Gives(T, Z, <<Loop(box, {Set(W, R)})>>, T, Z \cup W)
  <1>1. Computes(T, Z, box, W, R)
    BY LocalComputes
  <1> QED BY <1>1, OneSetGives DEF Beside

\* The same from two sets of reads.
LEMMA LocalLoopOfTwo ==
    ASSUME NEW T, NEW Z, NEW H, NEW A, NEW B, NEW O, NEW box, Beside(T, H, A, B, O, box),
           NEW Q, NEW R, Local(T, Z, A, B, O, Q, R), NEW W, W \subseteq B, \A a \in W : Q \subseteq T[a].of,
           NEW P, NEW S, Local(T, Z, A, B, O, P, S), NEW X, X \subseteq B, \A a \in X : P \subseteq T[a].of
    PROVE  Gives(T, Z, <<Loop(box, {Set(W, R), Set(X, S)})>>, T, Z \cup W \cup X)
  <1>1. Computes(T, Z, box, W, R) /\ Computes(T, Z, box, X, S)
    BY LocalComputes
  <1> QED BY <1>1, TwoSetsGive DEF Beside

\* The offsets from a zonal and from a meridional face to the cells and corners around it
AroundFaceU == {<<0, 0>>, <<1, 0>>, <<0, -1>>}
AroundFaceV == {<<0, 0>>, <<0, 1>>, <<-1, 0>>}

\* The boxes of the faces.
LEMMA FaceBoxes ==
    ASSUME NEW cfg, cfg.symmetric \in BOOLEAN
    PROVE  \E k \in {0, 1} : bxU(cfg) = Box(k, 0, 0, 0) /\ bxV(cfg) = Box(0, 0, k, 0) /\ bxQ(cfg) = Box(k, 0, k, 0)
  <1>1. bx0 = Box(0, 0, 0, 0)
    BY DEF bx0, Box
  <1>2. GrowLoX(Box(0, 0, 0, 0)) = Box(1, 0, 0, 0) /\ GrowLoY(Box(0, 0, 0, 0)) = Box(0, 0, 1, 0)
        /\ GrowLoX(Box(0, 0, 1, 0)) = Box(1, 0, 1, 0)
    BY GrowLoXBox, GrowLoYBox
  <1>3. CASE cfg.symmetric = TRUE
    BY <1>1, <1>2, <1>3 DEF bxU, bxV, bxQ
  <1>4. CASE cfg.symmetric = FALSE
    BY <1>1, <1>4 DEF bxU, bxV, bxQ
  <1> QED BY <1>3, <1>4

\* The claims of such a kernel: of its arguments A, and of what it finds at the zonal
\* faces and at the meridional ones, which comes from what F says.
LocalTable(A, B, V, H, bU, bV, F) ==
    [a \in A \cup B \cup V |->
        IF a \in A THEN Claim(Box(H, H, H, H), Box(0, 0, 0, 0), F[a])
        ELSE Claim(IF a \in B THEN bU ELSE bV, Box(1, 1, 1, 1), F[a])]

\* Such a table, for boxes and arrays that go together
IsLocal(T, H, A, B, V, k, F) ==
    /\ k \in {0, 1} /\ H \in Nat /\ 1 <= H
    /\ A \cap (B \cup V) = {} /\ B \cap V = {}
    /\ T = LocalTable(A, B, V, H, Box(k, 0, 0, 0), Box(0, 0, k, 0), F)

\* What such a table holds.
LEMMA LocalTableHolds ==
    \A T, H, A, B, V, k, F :
        IsLocal(T, H, A, B, V, k, F) =>
           /\ Beside(T, H, A, B, AroundFaceU, Box(k, 0, 0, 0))
           /\ Beside(T, H, A, V, AroundFaceV, Box(0, 0, k, 0))
           /\ \A a \in A \cup B \cup V : a \in DOMAIN T /\ T[a].of = F[a]
  <1> SUFFICES ASSUME NEW T, NEW H, NEW A, NEW B, NEW V, NEW k, NEW F, IsLocal(T, H, A, B, V, k, F)
               PROVE  /\ Beside(T, H, A, B, AroundFaceU, Box(k, 0, 0, 0))
                      /\ Beside(T, H, A, V, AroundFaceV, Box(0, 0, k, 0))
                      /\ \A a \in A \cup B \cup V : a \in DOMAIN T /\ T[a].of = F[a]
    OBVIOUS
  <1>0. /\ k \in {0, 1} /\ H \in Nat /\ 1 <= H
        /\ A \cap (B \cup V) = {} /\ B \cap V = {}
        /\ T = LocalTable(A, B, V, H, Box(k, 0, 0, 0), Box(0, 0, k, 0), F)
    BY DEF IsLocal
  <1>1. k \in Int /\ 0 <= k /\ k <= 1
    BY <1>0
  <1>2. DOMAIN T = A \cup B \cup V
    BY <1>0 DEF LocalTable
  <1>3. /\ \A a \in A : T[a] = Claim(Box(H, H, H, H), Box(0, 0, 0, 0), F[a])
        /\ \A a \in B : T[a] = Claim(Box(k, 0, 0, 0), Box(1, 1, 1, 1), F[a])
        /\ \A a \in V : T[a] = Claim(Box(0, 0, k, 0), Box(1, 1, 1, 1), F[a])
    BY <1>0 DEF LocalTable
  <1>4. /\ \A a \in A : T[a].box = Box(H, H, H, H) /\ T[a].from = Box(0, 0, 0, 0) /\ T[a].of = F[a]
        /\ \A a \in B : T[a].box = Box(k, 0, 0, 0) /\ T[a].from = Box(1, 1, 1, 1) /\ T[a].of = F[a]
        /\ \A a \in V : T[a].box = Box(0, 0, k, 0) /\ T[a].from = Box(1, 1, 1, 1) /\ T[a].of = F[a]
    <2>1. \A b, f, Q : Claim(b, f, Q).box = b /\ Claim(b, f, Q).from = f /\ Claim(b, f, Q).of = Q
      BY DEF Claim
    <2> QED BY <1>3, <2>1
  <1>5. /\ Box(H, H, H, H) \in Margins /\ Box(0, 0, 0, 0) \in Margins /\ Box(1, 1, 1, 1) \in Margins
        /\ Box(k, 0, 0, 0) \in Margins /\ Box(0, 0, k, 0) \in Margins
    BY <1>0, <1>1, BoxIs
  <1>6. Table(T)
    BY <1>2, <1>4, <1>5 DEF Table
  <1>7. \A o \in AroundFaceU : /\ o \in Offsets
                               /\ Within(ReadAt(Box(k, 0, 0, 0), o), Box(H, H, H, H))
                               /\ Within(ReadAt(Box(0, 0, 0, 0), o), Box(1, 1, 1, 1))
    BY <1>0, <1>1 DEF AroundFaceU, Offsets, Within, ReadAt, Box
  <1>8. \A o \in AroundFaceV : /\ o \in Offsets
                               /\ Within(ReadAt(Box(0, 0, k, 0), o), Box(H, H, H, H))
                               /\ Within(ReadAt(Box(0, 0, 0, 0), o), Box(1, 1, 1, 1))
    BY <1>0, <1>1 DEF AroundFaceV, Offsets, Within, ReadAt, Box
  <1>9. Beside(T, H, A, B, AroundFaceU, Box(k, 0, 0, 0))
    BY <1>0, <1>2, <1>4, <1>5, <1>6, <1>7 DEF Beside
  <1>10. Beside(T, H, A, V, AroundFaceV, Box(0, 0, k, 0))
    BY <1>0, <1>2, <1>4, <1>5, <1>6, <1>8 DEF Beside
  <1> QED BY <1>2, <1>4, <1>9, <1>10

\* What such a call starts from: arrays it is passed, each with a claim that it comes from
\* itself; and what it ends with: its results where they are required, from the arrays
\* they may come from.
Handed(c, D, F, Z) == Z \subseteq D /\ Z \subseteq Passed(c) /\ \A a \in Z : a \in F[a]

\* The outputs are required where the table has them
AtFaces(c, B, V, k) ==
    /\ Outputs(c) \subseteq B \cup V
    /\ \A a \in Outputs(c) \cap B : Required(a, c) = Box(k, 0, 0, 0)
    /\ \A a \in Outputs(c) \cap V : Required(a, c) = Box(0, 0, k, 0)

\* and come from what they may come from.
Fresh(c, F, Y) ==
    /\ Outputs(c) \subseteq Y
    /\ \A a \in Outputs(c) : F[a] \cap Results(c) = {}
    /\ \A p \in KeptApart(c) : p[1] \in Outputs(c) => p[2] \notin F[p[1]]

\* It begins as the table says.
LEMMA LocalBegins ==
    ASSUME NEW c, NEW k, NEW T, NEW H, H = c.cfg.halo, NEW A, NEW B, NEW V, NEW F, IsLocal(T, H, A, B, V, k, F),
           NEW Z, Handed(c, A \cup B \cup V, F, Z)
    PROVE  Begins(c, T, Z)
  <1>a. /\ Beside(T, H, A, B, AroundFaceU, Box(k, 0, 0, 0)) /\ Beside(T, H, A, V, AroundFaceV, Box(0, 0, k, 0))
        /\ \A a \in A \cup B \cup V : a \in DOMAIN T /\ T[a].of = F[a]
    BY LocalTableHolds
  <1>0. k \in {0, 1} /\ H \in Nat /\ 1 <= H
    BY DEF IsLocal
  <1>z. Z \subseteq A \cup B \cup V /\ Z \subseteq Passed(c) /\ \A a \in Z : a \in F[a]
    BY DEF Handed
  <1>1. DataBox(c.cfg) = Box(H, H, H, H)
    BY <1>0, DataBoxIs
  <1>2. k \in Int /\ 0 <= k /\ k <= 1 /\ H \in Int /\ 1 <= H
    BY <1>0
  <1>3. /\ Within(Box(H, H, H, H), Box(H, H, H, H)) /\ Within(Box(k, 0, 0, 0), Box(H, H, H, H))
        /\ Within(Box(0, 0, k, 0), Box(H, H, H, H)) /\ Within(Box(0, 0, 0, 0), Box(0, 0, 0, 0))
        /\ Within(Box(0, 0, 0, 0), Box(1, 1, 1, 1))
    BY <1>2 DEF Within, Box
  <1>4. ASSUME NEW a \in Z
        PROVE  /\ BoxClaim(T[a])
               /\ \/ T[a].box = Box(H, H, H, H) /\ T[a].from = Box(0, 0, 0, 0)
                  \/ T[a].box = Box(k, 0, 0, 0) /\ T[a].from = Box(1, 1, 1, 1)
                  \/ T[a].box = Box(0, 0, k, 0) /\ T[a].from = Box(1, 1, 1, 1)
    <2>1. a \in DOMAIN T
      BY <1>a, <1>z
    <2>2. BoxClaim(T[a])
      BY <1>a, <2>1 DEF Beside, Table, BoxClaim
    <2> QED BY <1>a, <1>0, <1>z, <2>2 DEF Beside
  <1>5. \A a \in Z : a \in T[a].of
    BY <1>a, <1>z
  <1>6. /\ c.cfg.halo \in Nat
        /\ \A a \in Z : /\ a \in Passed(c)
                        /\ BoxClaim(T[a]) /\ Within(T[a].box, DataBox(c.cfg))
                        /\ Within(Box(0, 0, 0, 0), T[a].from) /\ a \in T[a].of
    BY <1>0, <1>1, <1>3, <1>4, <1>5, <1>z
  <1> QED BY <1>6, BeginsInside

\* It ends as it should.
LEMMA LocalEnds ==
    ASSUME NEW c, Reach(c) = 1, NEW k, NEW T, NEW H, NEW A, NEW B, NEW V, NEW F, IsLocal(T, H, A, B, V, k, F),
           AtFaces(c, B, V, k), NEW Y, Fresh(c, F, Y)
    PROVE  Ends(c, T, Y)
  <1> SUFFICES ASSUME NEW a \in Outputs(c) PROVE EndsWell(c, a, T[a])
    BY DEF Ends, Fresh
  <1>d. /\ Outputs(c) \subseteq Y /\ Outputs(c) \subseteq B \cup V
        /\ \A x \in Outputs(c) \cap B : Required(x, c) = Box(k, 0, 0, 0)
        /\ \A x \in Outputs(c) \cap V : Required(x, c) = Box(0, 0, k, 0)
        /\ \A x \in Outputs(c) : F[x] \cap Results(c) = {}
        /\ \A p \in KeptApart(c) : p[1] \in Outputs(c) => p[2] \notin F[p[1]]
    BY DEF AtFaces, Fresh
  <1>a. /\ Beside(T, H, A, B, AroundFaceU, Box(k, 0, 0, 0)) /\ Beside(T, H, A, V, AroundFaceV, Box(0, 0, k, 0))
        /\ \A x \in A \cup B \cup V : x \in DOMAIN T /\ T[x].of = F[x]
    BY LocalTableHolds
  <1>b. T[a].of = F[a]
    BY <1>a, <1>d
  <1>c. k \in {0, 1}
    BY DEF IsLocal
  <1>0. /\ k \in {0, 1} /\ T[a].of = F[a]
        /\ Beside(T, H, A, B, AroundFaceU, Box(k, 0, 0, 0)) /\ Beside(T, H, A, V, AroundFaceV, Box(0, 0, k, 0))
    BY <1>a, <1>b, <1>c
  <1>1. Box(k, 0, 0, 0) \in Margins /\ Box(0, 0, k, 0) \in Margins /\ Box(1, 1, 1, 1) \in Margins
    BY <1>0, BoxIs
  <1>2. /\ Within(Box(k, 0, 0, 0), Box(k, 0, 0, 0)) /\ Within(Box(0, 0, k, 0), Box(0, 0, k, 0))
        /\ Within(Box(1, 1, 1, 1), Box(1, 1, 1, 1))
    BY <1>1, ReadHere
  <1>3. T[a].box = Required(a, c) /\ T[a].from = Box(1, 1, 1, 1) /\ Within(Required(a, c), T[a].box) /\ BoxClaim(T[a])
    <2>1. CASE a \in B
      BY <1>0, <1>1, <1>2, <1>d, <2>1 DEF Beside, BoxClaim
    <2>2. CASE a \in V
      BY <1>0, <1>1, <1>2, <1>d, <2>2 DEF Beside, BoxClaim
    <2> QED BY <1>d, <2>1, <2>2
  <1> QED BY <1>0, <1>2, <1>3, <1>d DEF EndsWell

\* Where the results at faces are required.
LEMMA FacesRequired ==
    ASSUME NEW c, c.kernel \notin ContinuityKernels \cup {"hor_visc_gme_bt", "smooth_gme_q_pass"}
    PROVE  /\ \A a \in ZonalFields \ AtCorners : Required(a, c) = bxU(c.cfg)
           /\ \A a \in MeridionalFields \ AtCorners : Required(a, c) = bxV(c.cfg)
           /\ \A a : a \notin ZonalFields \cup MeridionalFields \cup AtCorners => Required(a, c) = bx0
           /\ \A a \in AtCorners : Required(a, c) = bxQ(c.cfg)
  <1>1. \A a : Required(a, c) = CASE a \in AtCorners -> bxQ(c.cfg)
                                [] a \in OfU \ AtCorners -> bxU(c.cfg)
                                [] a \in OfV \ AtCorners -> bxV(c.cfg)
                                [] OTHER -> bx0
    BY Zenon DEF Required, ContinuityKernels
  <1>2. \A a : ~(a \in OfU /\ a \in OfV)
    BY FieldsListed DEF ZonalFields, MeridionalFields
  <1>3. /\ \A a \in OfU \ AtCorners : Required(a, c) = bxU(c.cfg)
        /\ \A a \in OfV \ AtCorners : Required(a, c) = bxV(c.cfg)
        /\ \A a : a \notin OfU \cup OfV \cup AtCorners => Required(a, c) = bx0
        /\ \A a \in AtCorners : Required(a, c) = bxQ(c.cfg)
    BY <1>1, <1>2
  <1> QED BY <1>3, FieldsListed

\* Three steps, and four.
LEMMA JoinedThree == \A a, b, d : <<a, b>> \o <<d>> = <<a, b, d>>
  <1> TAKE a, b, d
  <1> DEFINE X == {a, b, d}
             x == <<a, b>>
             y == <<d>>
             z == x \o y
  <1>1. a \in X /\ b \in X /\ d \in X
    OBVIOUS
  <1> HIDE DEF X
  <1>2. x \in Seq(X) /\ y \in Seq(X) /\ Len(x) = 2 /\ Len(y) = 1 /\ x[1] = a /\ x[2] = b /\ y[1] = d
    BY <1>1
  <1> HIDE DEF x, y
  <1>3. z \in Seq(X) /\ Len(z) = 3 /\ z[1] = a /\ z[2] = b /\ z[3] = d
    BY <1>2 DEF x, y
  <1> HIDE DEF z
  <1>4. z = <<a, b, d>>
    BY <1>3
  <1> QED BY <1>4 DEF x, y, z

\* Three steps, one after the other.
LEMMA ThreeStepsGive ==
    ASSUME NEW T, NEW Z, NEW a, NEW U, NEW Y, NEW b, NEW V, NEW X, NEW d, NEW W, NEW A,
           Gives(T, Z, <<a>>, U, Y), Gives(U, Y, <<b>>, V, X), Gives(V, X, <<d>>, W, A)
    PROVE  Gives(T, Z, <<a, b, d>>, W, A)
  <1>1. Gives(T, Z, <<a, b>>, V, X)
    BY TwoStepsGive
  <1>2. Gives(T, Z, <<a, b>> \o <<d>>, W, A)
    BY <1>1, ThenGives
  <1> QED BY <1>2, JoinedThree

\* And four.
LEMMA FourStepsGive ==
    ASSUME NEW T, NEW Z, NEW a, NEW U, NEW Y, NEW b, NEW V, NEW X, NEW d, NEW W, NEW A, NEW e, NEW S, NEW B,
           Gives(T, Z, <<a>>, U, Y), Gives(U, Y, <<b>>, V, X), Gives(V, X, <<d>>, W, A), Gives(W, A, <<e>>, S, B)
    PROVE  Gives(T, Z, <<a, b, d, e>>, S, B)
  <1>1. Gives(T, Z, <<a, b>>, V, X) /\ Gives(V, X, <<d, e>>, S, B)
    BY TwoStepsGive
  <1>2. Gives(T, Z, <<a, b>> \o <<d, e>>, S, B)
    BY <1>1, ThenGives
  <1> QED BY <1>2, JoinedPairs

=============================================================================
