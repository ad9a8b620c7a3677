------------------------------ MODULE FluxAdjust ------------------------------
(***************************************************************************)
(* zonal_flux_adjust and meridional_flux_adjust of                         *)
(* src/src/mom_kernels/mom_continuity_ppm.cpp: the velocity correction     *)
(* that makes the transport through a face, summed over the layers, equal  *)
(* to a given one.  Every face iterates on its own, by Newton's method     *)
(* kept within a bracket, for a fixed number of iterations; do_I masks     *)
(* the faces that are done.                                                *)
(*                                                                         *)
(* The two functions differ in what the mask covers.  In the zonal one it  *)
(* covers the move of the bracket and not the best error, in the           *)
(* meridional one it is the other way round.  They are run side by side on *)
(* the same face.                                                          *)
(*                                                                         *)
(* Velocities are integers, counted in units of rounding: a difference the *)
(* code finds negligible is one of at most a unit.  The transport is any   *)
(* function of the correction, and the derivative Newton's method divides  *)
(* by is not kept: any step against the error may come out, one that is    *)
(* longer than the bracket standing for a derivative that is zero.  Half   *)
(* way between two neighbours is the first of them, where the code rounds  *)
(* to the even one: what is shown of the limits holds up to that unit.     *)
(***************************************************************************)
EXTENDS Integers

CONSTANTS
    MaxItts,     \* max_itts
    Tol,         \* tol_eta in the iterations 1, 2, 3 and from 4 on
    FluxColumns, \* faces, with their inputs: records as in FluxColumnOK
    Steps        \* the steps ddu that Newton's method may propose

Directions == {"zonal", "meridional"}

\* The limits keep the CFL number in bounds and never exclude a zero correction.
\* target is uhbt, or 0 when it is absent; use_3d says whether uh_3d is passed.
FluxColumnOK(c) ==
    /\ c.du_min \in Int /\ c.du_max \in Int
    /\ c.du_min <= 0 /\ 0 <= c.du_max
    /\ c.transport \in [c.du_min .. c.du_max -> Int]
    /\ c.target \in Int
    /\ c.better_iter \in BOOLEAN /\ c.use_3d \in BOOLEAN /\ c.do_I_in \in BOOLEAN

ASSUME MaxIttsAssumption == MaxItts \in Nat /\ MaxItts > 0
ASSUME TolAssumption == Tol \in [1 .. 4 -> Nat]
ASSUME FluxColumnsAssumption == \A c \in FluxColumns : FluxColumnOK(c)
ASSUME StepsAssumption == Steps \subseteq Int

VARIABLES
    col,        \* the face
    itt,        \* the next iteration
    face        \* [Directions -> the local variables of the loop body], and at, the
                \* correction the transports in uh_3d were last computed with

fluxVars == <<col, itt, face>>

-----------------------------------------------------------------------------
Abs(n) == IF n < 0 THEN -n ELSE n

\* The value half way from a to b, rounded towards a
Halfway(a, b) == IF a <= b THEN a + (b - a) \div 2 ELSE a - (a - b) \div 2

tol_eta(n) == Tol[IF n < 4 THEN n ELSE 4]

FluxStart(c) ==
    [do_I |-> c.do_I_in, du |-> 0, lo |-> c.du_min, hi |-> c.du_max,
     err |-> c.transport[0] - c.target, best |-> Abs(c.transport[0] - c.target), at |-> 0]

\* The correction becomes the end of the bracket that its error is on
Tightened(f) ==
    [f EXCEPT !.hi = IF f.err > 0 THEN f.du ELSE @,
              !.lo = IF f.err < 0 THEN f.du ELSE @,
              !.do_I = @ /\ f.err # 0]

\* steep: the error is more than tol_vel times the derivative
GoesOn(c, f, n, steep) ==
    \/ Abs(f.err) > tol_eta(n)
    \/ c.better_iter /\ (steep \/ Abs(f.err) > f.best)

\* A step is negligible beside the correction it leads to, never from or to zero
Negligible(f, ddu) == Abs(ddu) <= 1 /\ f.du # 0 /\ f.du + ddu # 0

\* A bisection has nothing left to halve
Collapsed(f, end) == Abs(end - f.du) <= 1 /\ Halfway(f.du, end) # 0

\* Mutant: a step that oversteps the bracket ends the iteration before it is halved
SteppedOver(f, ddu, small) ==
    LET newton == f.du + ddu IN
    CASE small /\ Negligible(f, ddu) -> [f EXCEPT !.du = newton, !.do_I = FALSE]
      [] ~(small /\ Negligible(f, ddu)) /\ (newton >= f.hi \/ newton <= f.lo) ->
            [f EXCEPT !.du = newton, !.do_I = FALSE]
      [] OTHER -> [f EXCEPT !.du = newton]

\* Newton's step, or half the way to the end it oversteps.  small: what may be
\* negligible is.
Stepped(f, ddu, small) ==
    LET newton == f.du + ddu IN
    CASE small /\ Negligible(f, ddu) -> [f EXCEPT !.du = newton, !.do_I = FALSE]
      [] ~(small /\ Negligible(f, ddu)) /\ ddu > 0 /\ newton >= f.hi ->
            [f EXCEPT !.du = Halfway(f.du, f.hi), !.do_I = ~(small /\ Collapsed(f, f.hi))]
      [] ~(small /\ Negligible(f, ddu)) /\ ddu <= 0 /\ newton <= f.lo ->
            [f EXCEPT !.du = Halfway(f.du, f.lo), !.do_I = ~(small /\ Collapsed(f, f.lo))]
      [] OTHER -> [f EXCEPT !.du = newton]

Corrected(c, f, n, steep, ddu, small) ==
    IF ~f.do_I THEN f
    ELSE IF GoesOn(c, f, n, steep) THEN Stepped(f, ddu, small)
    ELSE [f EXCEPT !.do_I = FALSE]

\* The transport with the new correction. A face that is done sums no layers: its
\* error is what is left, minus the target.
Evaluated(c, f) ==
    [f EXCEPT !.err = (IF f.do_I THEN c.transport[f.du] ELSE 0) - c.target,
              !.at = IF f.do_I /\ c.use_3d THEN f.du ELSE @]

\* uh_err_best = min(uh_err_best, |uh_err|)
WithBest(f) == [f EXCEPT !.best = IF Abs(f.err) < @ THEN Abs(f.err) ELSE @]

\* The last evaluation is for uh_3d alone
Evaluates(c, n) == n < MaxItts \/ c.use_3d

\* Mutant: an error of either sign moves the upper end
ZonalIterationUpperEnd(c, f, n, steep, ddu, small) ==
    LET moved == IF f.do_I THEN [f EXCEPT !.hi = f.du, !.do_I = f.err # 0] ELSE f
        g == Corrected(c, moved, n, steep, ddu, small)
    IN  IF Evaluates(c, n) THEN WithBest(Evaluated(c, g)) ELSE g

\* Mutant: the transports are left as they were at the last but one correction
ZonalIterationNoLastFluxes(c, f, n, steep, ddu, small) ==
    LET moved == IF f.do_I THEN Tightened(f) ELSE f
        g == Corrected(c, moved, n, steep, ddu, small)
    IN  IF n < MaxItts THEN WithBest(Evaluated(c, g)) ELSE g

zonal_iteration(c, f, n, steep, ddu, small) ==
    LET moved == IF f.do_I THEN Tightened(f) ELSE f
        g == Corrected(c, moved, n, steep, ddu, small)
    IN  IF Evaluates(c, n) THEN WithBest(Evaluated(c, g)) ELSE g

\* Mutant: the best error takes in the faces that are done, and starts from nothing
MeridionalIterationNoBest(c, f, n, steep, ddu, small) ==
    LET g == Corrected(c, Tightened(f), n, steep, ddu, small)
    IN  IF Evaluates(c, n) THEN [Evaluated(c, g) EXCEPT !.best = 0] ELSE g

meridional_iteration(c, f, n, steep, ddu, small) ==
    LET g == Corrected(c, Tightened(f), n, steep, ddu, small)
        e == Evaluated(c, g)
    IN  IF Evaluates(c, n) THEN (IF g.do_I THEN WithBest(e) ELSE e) ELSE g

-----------------------------------------------------------------------------
FluxInit ==
    /\ col \in FluxColumns
    /\ itt = 1
    /\ face = [d \in Directions |-> FluxStart(col)]

\* Newton's step goes against the error, and only an error can be steep
Possible(f, steep, ddu) ==
    f.do_I => /\ f.err > 0 => ddu < 0
              /\ f.err < 0 => ddu > 0
              /\ f.err = 0 => ~steep

Iterate ==
    /\ itt <= MaxItts
    /\ \E ddu \in Steps, steep \in BOOLEAN, small \in BOOLEAN :
          /\ \A d \in Directions : Possible(face[d], steep, ddu)
          /\ face' = [d \in Directions |->
                        IF d = "zonal"
                        THEN zonal_iteration(col, face[d], itt, steep, ddu, small)
                        ELSE meridional_iteration(col, face[d], itt, steep, ddu, small)]
    /\ itt' = itt + 1
    /\ UNCHANGED col

\* du is written, the face is finished
Finished ==
    /\ itt > MaxItts
    /\ UNCHANGED fluxVars

FluxNext == Iterate \/ Finished

FluxSpec == FluxInit /\ [][FluxNext]_fluxVars

-----------------------------------------------------------------------------
\* Properties

Faces ==
    [do_I : BOOLEAN, du : Int, lo : Int, hi : Int, err : Int, best : Nat, at : Int]

\* The shape of the state
TypeOK ==
    /\ FluxColumnOK(col)
    /\ itt \in 1 .. MaxItts + 1
    /\ face \in [Directions -> Faces]

\* Whatever steps Newton's method proposes, the correction never leaves the limits
\* that keep the CFL number in bounds. (du_max_CFL, mom_continuity_ppm.cpp:760)
DuWithinLimits ==
    \A d \in Directions : col.du_min <= face[d].du /\ face[d].du <= col.du_max

\* The limits "should be adequate to keep the root bracketed in all cases"
\* (mom_continuity_ppm.cpp:713): a face that is being
\* worked on has the target between the transports at the ends of its bracket,
\* whenever it was between those at the limits.
RootStaysBracketed ==
    \A d \in Directions :
        LET F == col.transport
            f == face[d]
        IN  (f.do_I /\ F[col.du_min] <= col.target /\ col.target <= F[col.du_max])
              => F[f.lo] <= col.target /\ col.target <= F[f.hi]

\* The transports handed back are those at the correction handed back, up to a
\* negligible step: a face is masked after its correction moved for the last time
\* and before its transports are computed again.
TransportIsCurrent ==
    \A d \in Directions :
        col.use_3d => Abs(face[d].du - face[d].at) <= 1

\* Though the mask covers different statements, the zonal and the meridional
\* function find the same correction in the same number of iterations, and have
\* the same transports: the answer does not depend on the direction.
DirectionsAgree ==
    LET z == face["zonal"]
        m == face["meridional"]
    IN  /\ z.do_I = m.do_I
        /\ z.du = m.du
        /\ z.at = m.at
        /\ z.do_I => z = m
=============================================================================
