---------------------------- MODULE ViscousColumn ----------------------------
(***************************************************************************)
(* The implicit vertical friction of one column of faces, layer by layer,  *)
(* in exact arithmetic: the wind, the tridiagonal solve of                 *)
(* vertvisc_tridiag with the acceleration by the surface stress beside the *)
(* velocity, the solve for the GL90 part on its own, the tendencies and    *)
(* the bottom stress, and the truncation of vertvisc_limit_vel; or the     *)
(* solve of vertvisc_remnant_tr.  The meridional functions are the same    *)
(* statements on other arrays: VertFricLoops compares the two.             *)
(*                                                                         *)
(* The time step is the unit of time, so that a and Ray stand for their    *)
(* products with dt and accelerations are differences of velocities.       *)
(* Rounding, accelerations lost in accel_underflow, Stokes drift, and the  *)
(* columns that are reported (VertFricLoops has their arrays) are left     *)
(* out.  The column is one at the ocean, and every diagnostic is asked     *)
(* for: do_GLwork holds and all arrays of results are there.               *)
(***************************************************************************)
EXTENDS Fractions, Functions

CONSTANTS
    nz,         \* the number of layers
    Columns,    \* the columns: records as in ColumnOK
    Hmix,       \* the thickness that direct_stress puts the wind into
    CFL_trunc,
    vel_underflow

Layers == 0 .. nz - 1
Interfaces == 0 .. nz

Nonnegative(q) == q \in Fraction /\ q.num >= 0
Positive(q) == q \in Fraction /\ q.num > 0

\* h: layer thicknesses h_u, and h_avg those the wind is distributed over; a and
\* a_gl90: couplings across interfaces, GL90's with none at the surface and the
\* bottom (find_coupling_coef_gl90_point sets those between layers); cfl: dt * dy
\* over the area of the cell that a positive and a negative velocity comes from
ColumnOK(c) ==
    /\ \A j \in Layers : Positive(c.h[j]) /\ Positive(c.h_avg[j]) /\ Nonnegative(c.Ray[j])
    /\ c.u \in [Layers -> Fraction]
    /\ \A j \in Interfaces : Nonnegative(c.a[j]) /\ Nonnegative(c.a_gl90[j])
    /\ Same(c.a_gl90[0], Zero) /\ Same(c.a_gl90[nz], Zero)
    /\ c.stress \in Fraction
    /\ c.direct_stress \in BOOLEAN
    /\ c.do_report \in BOOLEAN
    /\ Positive(c.cfl.west) /\ Positive(c.cfl.east)

ASSUME NzAssumption == nz \in Nat /\ nz > 0
ASSUME ColumnsAssumption == \A c \in Columns : ColumnOK(c)
ASSUME LimitsAssumption == Positive(Hmix) /\ Positive(CFL_trunc) /\ Nonnegative(vel_underflow)

Calls == {"vertvisc_remnant_tr", "vertvisc_tr"}
Unknowns == {"u", "du_dt_str", "du_dt_visc_gl90", "visc_rem_u"}

VARIABLES
    call, column,
    pc,         \* "hold", "wind", "top", "down", "up", "diagnose", "drag", "limit" or "done"
    system,     \* the system being solved
    k,          \* the next layer; on the way up: the last one that is final
    b1, d1, c1, \* scratch values and the scratch array of a solve
    x,          \* [Unknowns -> values in the layers]
    zDS,        \* the thickness above the layer the wind is put into
    surface_stress, du_dt_visc, KE_u, taux_bot

vars == <<call, column, pc, system, k, b1, d1, c1, x, zDS, surface_stress, du_dt_visc, KE_u, taux_bot>>

AllLayers(q) == [j \in Layers |-> q]

Init ==
    /\ call \in Calls
    /\ column \in Columns
    /\ IF call = "vertvisc_tr" THEN pc = "hold" /\ system = "vertvisc_tridiag" ELSE pc = "top" /\ system = "remnant"
    /\ k = 0
    /\ b1 = Zero /\ d1 = Zero /\ c1 = AllLayers(Zero)
    /\ x = [name \in Unknowns |-> IF name = "u" THEN column.u ELSE AllLayers(Zero)]
    /\ zDS = Zero /\ surface_stress = Zero /\ du_dt_visc = AllLayers(Zero) /\ KE_u = AllLayers(Zero) /\ taux_bot = Zero

-----------------------------------------------------------------------------
\* Before the solve

\* du_dt_visc and du_dt_visc_gl90 hold the velocity before
HoldVelocity ==
    /\ pc = "hold"
    /\ du_dt_visc' = x["u"]
    /\ x' = [x EXCEPT !["du_dt_visc_gl90"] = x["u"], !["du_dt_str"] = AllLayers(Zero)]
    /\ pc' = "wind"
    /\ UNCHANGED <<call, column, system, k, b1, d1, c1, zDS, surface_stress, KE_u, taux_bot>>

\* The share of a layer of thickness h_avg that is within Hmix, zDS being above it
hfr(h_avg) == IF Below(Hmix, Plus(zDS, h_avg)) THEN Times(Minus(Hmix, zDS), Reciprocal(h_avg)) ELSE One

\* The stress as a body force, in one layer after another until Hmix is reached
ApplyBodyForce ==
    LET force == Times(Times(Reciprocal(Hmix), hfr(column.h_avg[k])), column.stress)
    IN  /\ pc = "wind" /\ column.direct_stress
        /\ x' = [x EXCEPT !["u"][k] = Plus(@, force), !["du_dt_str"][k] = force]
        /\ zDS' = Plus(zDS, column.h_avg[k])
        /\ surface_stress' = Zero
        /\ IF k = nz - 1 \/ AtMost(Hmix, zDS') THEN pc' = "top" /\ k' = 0 ELSE k' = k + 1 /\ UNCHANGED pc
        /\ UNCHANGED <<call, column, system, b1, d1, c1, du_dt_visc, KE_u, taux_bot>>

\* The stress as a boundary condition of the solve
ApplySurfaceStress ==
    /\ pc = "wind" /\ ~column.direct_stress
    /\ surface_stress' = column.stress
    /\ pc' = "top"
    /\ UNCHANGED <<call, column, system, k, b1, d1, c1, x, zDS, du_dt_visc, KE_u, taux_bot>>

-----------------------------------------------------------------------------
\* A solve

Solved(s) ==
    CASE s = "vertvisc_tridiag" -> {"u", "du_dt_str"}
      [] s = "gl90" -> {"du_dt_visc_gl90"}
      [] s = "remnant" -> {"visc_rem_u"}

Coupling(s, c, j) == IF s = "gl90" THEN c.a_gl90[j] ELSE c.a[j]

\* Mutant: GL90's solve has the drag of the other
DragInEverySolve(s, c, j) == c.Ray[j]

Drag(s, c, j) == IF s = "gl90" THEN Zero ELSE c.Ray[j]

\* What a layer starts with: its momentum, or a unit of it
Momentum(name, c, values, j) == IF name = "visc_rem_u" THEN c.h[j] ELSE Times(c.h[j], values[name][j])
StressOn(name, stress) == IF name \in {"u", "du_dt_str"} THEN stress ELSE Zero

\* Mutant: the denominator without the interface below
b1_without_below(s, c, j, b_denom_1) == Reciprocal(b_denom_1)

\* 1 - d1 is what goes on to the layer below
b1_of(s, c, j, b_denom_1) == Reciprocal(Plus(b_denom_1, Coupling(s, c, j + 1)))

\* Down to the next layer, or back up from the bottom
After(j) ==
    IF j = nz - 1 THEN pc' = "up" /\ k' = j ELSE pc' = "down" /\ k' = j + 1

EliminateTop ==
    LET b_denom_1 == Plus(column.h[0], Plus(Drag(system, column, 0), Coupling(system, column, 0)))
        b == b1_of(system, column, 0, b_denom_1)
    IN  /\ pc = "top"
        /\ b1' = b /\ d1' = Times(b_denom_1, b)
        /\ x' = [name \in Unknowns |->
                   IF name \in Solved(system)
                   THEN [x[name] EXCEPT ![0] =
                           Times(b, Plus(Momentum(name, column, x, 0), StressOn(name, surface_stress)))]
                   ELSE x[name]]
        /\ After(0)
        /\ UNCHANGED <<call, column, system, c1, zDS, surface_stress, du_dt_visc, KE_u, taux_bot>>

Eliminate ==
    LET a == Coupling(system, column, k)
        b_denom_1 == Plus(column.h[k], Plus(Drag(system, column, k), Times(a, d1)))
        b == b1_of(system, column, k, b_denom_1)
    IN  /\ pc = "down"
        /\ c1' = [c1 EXCEPT ![k] = Times(a, b1)]
        /\ b1' = b /\ d1' = Times(b_denom_1, b)
        /\ x' = [name \in Unknowns |->
                   IF name \in Solved(system)
                   THEN [x[name] EXCEPT ![k] =
                           Times(Plus(Momentum(name, column, x, k), Times(a, x[name][k - 1])), b)]
                   ELSE x[name]]
        /\ After(k)
        /\ UNCHANGED <<call, column, system, zDS, surface_stress, du_dt_visc, KE_u, taux_bot>>

\* Mutant: the coefficient of the layer itself
SubstituteOwnCoefficient ==
    /\ pc = "up" /\ k > 0
    /\ x' = [name \in Unknowns |->
               IF name \in Solved(system)
               THEN [x[name] EXCEPT ![k - 1] = Plus(@, Times(c1[k - 1], x[name][k]))]
               ELSE x[name]]
    /\ k' = k - 1
    /\ UNCHANGED <<call, column, pc, system, b1, d1, c1, zDS, surface_stress, du_dt_visc, KE_u, taux_bot>>

BackSubstitute ==
    /\ pc = "up" /\ k > 0
    /\ x' = [name \in Unknowns |->
               IF name \in Solved(system)
               THEN [x[name] EXCEPT ![k - 1] = Plus(@, Times(c1[k], x[name][k]))]
               ELSE x[name]]
    /\ k' = k - 1
    /\ UNCHANGED <<call, column, pc, system, b1, d1, c1, zDS, surface_stress, du_dt_visc, KE_u, taux_bot>>

SolveIsDone(s) == pc = "up" /\ k = 0 /\ system = s

-----------------------------------------------------------------------------
\* Between and after the solves

FinishRemnant ==
    /\ SolveIsDone("remnant")
    /\ pc' = "done"
    /\ UNCHANGED <<call, column, system, k, b1, d1, c1, x, zDS, surface_stress, du_dt_visc, KE_u, taux_bot>>

StartGL90 ==
    /\ SolveIsDone("vertvisc_tridiag")
    /\ pc' = "top" /\ system' = "gl90"
    /\ UNCHANGED <<call, column, k, b1, d1, c1, x, zDS, surface_stress, du_dt_visc, KE_u, taux_bot>>

Difference(f, g) == [j \in Layers |-> Minus(f[j], g[j])]

\* Its tendency, and the work it does on the velocity before, which du_dt_visc
\* still holds
DiagnoseGL90 ==
    LET tendency == Difference(x["du_dt_visc_gl90"], du_dt_visc)
    IN  /\ SolveIsDone("gl90")
        /\ x' = [x EXCEPT !["du_dt_visc_gl90"] = tendency]
        /\ KE_u' = [j \in Layers |-> Times(Times(du_dt_visc[j], column.h[j]), tendency[j])]
        /\ pc' = "diagnose"
        /\ UNCHANGED <<call, column, system, k, b1, d1, c1, zDS, surface_stress, du_dt_visc, taux_bot>>

Diagnose ==
    /\ pc = "diagnose"
    /\ du_dt_visc' = Difference(x["u"], du_dt_visc)
    /\ taux_bot' = Times(x["u"][nz - 1], column.a[nz])
    /\ pc' = "drag"
    /\ UNCHANGED <<call, column, system, k, b1, d1, c1, x, zDS, surface_stress, KE_u>>

\* Mutant: the drag on the velocity before
AddDragBefore ==
    /\ pc = "drag"
    /\ taux_bot' = Plus(taux_bot, Times(column.Ray[k], column.u[k]))
    /\ IF k = nz - 1 THEN pc' = "limit" /\ UNCHANGED k ELSE k' = k + 1 /\ UNCHANGED pc
    /\ UNCHANGED <<call, column, system, b1, d1, c1, x, zDS, surface_stress, du_dt_visc, KE_u>>

\* The Rayleigh drag of all layers counts as stress at the bottom
AddDrag ==
    /\ pc = "drag"
    /\ taux_bot' = Plus(taux_bot, Times(column.Ray[k], x["u"][k]))
    /\ IF k = nz - 1 THEN pc' = "limit" /\ UNCHANGED k ELSE k' = k + 1 /\ UNCHANGED pc
    /\ UNCHANGED <<call, column, system, b1, d1, c1, x, zDS, surface_stress, du_dt_visc, KE_u>>

-----------------------------------------------------------------------------
\* Truncation

CFL(c, u) == IF u.num < 0 THEN Times(Absolute(u), c.cfl.east) ELSE Times(u, c.cfl.west)

Underflows(u) == Below(Absolute(u), vel_underflow)

\* Mutant: the areas of the two cells exchanged
CutInOtherCell(c, u) ==
    LET most(area) == Times([num |-> 9, den |-> 10], Times(CFL_trunc, Reciprocal(area)))
    IN  IF Below(CFL_trunc, CFL(c, u))
        THEN IF u.num < 0 THEN Minus(Zero, most(c.cfl.west)) ELSE most(c.cfl.east)
        ELSE u

\* Nine tenths of the velocity at the limit
Cut(c, u) ==
    LET most(area) == Times([num |-> 9, den |-> 10], Times(CFL_trunc, Reciprocal(area)))
    IN  IF Below(CFL_trunc, CFL(c, u))
        THEN IF u.num < 0 THEN Minus(Zero, most(c.cfl.east)) ELSE most(c.cfl.west)
        ELSE u

\* Velocities that may be reported are first tested over the whole of the box, and
\* cut only where some column had to be.  others: another column has to
limit_and_report(c, u, others) ==
    LET kept == [j \in Layers |-> IF Underflows(u[j]) THEN Zero ELSE u[j]]
        trunc_any == others \/ \E j \in Layers : Below(CFL_trunc, CFL(c, kept[j]))
    IN  IF trunc_any THEN [j \in Layers |-> Cut(c, kept[j])] ELSE kept

limit_only(c, u) == [j \in Layers |-> IF Underflows(u[j]) THEN Zero ELSE Cut(c, u[j])]

LimitVelocity ==
    /\ pc = "limit"
    /\ \E others \in BOOLEAN :
          x' = [x EXCEPT !["u"] = IF column.do_report THEN limit_and_report(column, @, others) ELSE limit_only(column, @)]
    /\ pc' = "done"
    /\ UNCHANGED <<call, column, system, k, b1, d1, c1, zDS, surface_stress, du_dt_visc, KE_u, taux_bot>>

Next ==
    \/ HoldVelocity \/ ApplyBodyForce \/ ApplySurfaceStress
    \/ EliminateTop \/ Eliminate \/ BackSubstitute
    \/ FinishRemnant \/ StartGL90 \/ DiagnoseGL90 \/ Diagnose \/ AddDrag \/ LimitVelocity

Spec == Init /\ [][Next]_vars

-----------------------------------------------------------------------------
\* Properties

VcTypeOK ==
    /\ call \in Calls /\ column \in Columns
    /\ pc \in {"hold", "wind", "top", "down", "up", "diagnose", "drag", "limit", "done"}
    /\ system \in {"vertvisc_tridiag", "gl90", "remnant"}
    /\ k \in Layers
    /\ {b1, d1, zDS, surface_stress, taux_bot} \subseteq Fraction
    /\ x \in [Unknowns -> [Layers -> Fraction]]
    /\ {c1, du_dt_visc, KE_u} \subseteq [Layers -> Fraction]

Sum(f) == FoldFunction(Plus, Zero, f)

\* What of a thickness is within Hmix
WithinHmix(depth) == IF AtMost(Hmix, depth) THEN Hmix ELSE depth
Above(c, j) == FoldFunctionOnSet(Plus, Zero, c.h_avg, 0 .. j - 1)

\* The wind in proportion to what of a layer is within Hmix
BodyForce(c) ==
    [j \in Layers |-> Times(Times(Minus(WithinHmix(Above(c, j + 1)), WithinHmix(Above(c, j))),
                                  Reciprocal(Times(Hmix, c.h_avg[j]))), c.stress)]

\* The values that the columns of a solve started from
Start(name) ==
    CASE name = "visc_rem_u" -> AllLayers(One)
      [] name = "du_dt_visc_gl90" -> column.u
      [] name \in {"u", "du_dt_str"} ->
            [j \in Layers |-> Plus(IF name = "u" THEN column.u[j] ELSE Zero,
                                   IF column.direct_stress THEN BodyForce(column)[j] ELSE Zero)]

\* Row j of the implicit system: what it gives to values f, and what it is to give
Row(s, f, j) ==
    LET a(i) == Coupling(s, column, i)
        own == Times(Plus(Plus(column.h[j], Drag(s, column, j)), Plus(a(j), a(j + 1))), f[j])
        above == IF j = 0 THEN Zero ELSE Times(a(j), f[j - 1])
        below == IF j = nz - 1 THEN Zero ELSE Times(a(j + 1), f[j + 1])
    IN  Minus(own, Plus(above, below))

\* The sweep down and up, with its denominators that avoid a subtraction, solves the
\* implicit equations: (h + Ray + a_j + a_(j+1)) x_j - a_j x_(j-1) - a_(j+1) x_(j+1)
\* is what layer j had before plus the stress at the surface.  That is said of the
\* solution for the velocity, the wind's share in it, GL90's, and the remnant, though
\* they share c1, b1 and d1.  (mom_vert_friction.cpp:1709)
SolvesTheSystem ==
    (pc = "up" /\ k = 0) =>
        \A name \in Solved(system), j \in Layers :
            Same(Row(system, x[name], j),
                 Plus(Times(column.h[j], Start(name)[j]), IF j = 0 THEN StressOn(name, surface_stress) ELSE Zero))

\* What vertvisc_remnant leaves is "Fraction of a time-step's worth of a barotropic
\* acceleration that a layer experiences after viscosity is applied"
\* (mom_vert_friction.hpp:150): between nothing and all of it, however thin the
\* layers, strong the coupling and many the layers between.
RemnantWithinUnit ==
    (pc = "done" /\ call = "vertvisc_remnant_tr") =>
        \A j \in Layers : AtMost(Zero, x["visc_rem_u"][j]) /\ AtMost(x["visc_rem_u"][j], One)

\* The momentum that the column gains is what the wind puts in less what bottom and
\* Rayleigh drag, as diagnosed, and drag at the top take out; and of a body force
\* all of the wind arrives, or the share of Hmix that the column has, and no more.
MomentumBudgetCloses ==
    /\ pc = "limit" =>
          LET gained == Sum([j \in Layers |-> Times(column.h[j], du_dt_visc[j])])
              wind == IF column.direct_stress
                      THEN Sum([j \in Layers |-> Times(column.h[j], BodyForce(column)[j])])
                      ELSE column.stress
              drag == Plus(taux_bot, Times(column.a[0], x["u"][0]))
          IN  Same(gained, Minus(wind, drag))
    /\ (pc = "top" /\ system = "vertvisc_tridiag" /\ column.direct_stress) =>
          Same(Sum([j \in Layers |-> Times(column.h_avg[j], x["du_dt_str"][j])]),
               Times(Times(WithinHmix(Above(column, nz)), Reciprocal(Hmix)), column.stress))

\* GL90 only redistributes momentum between the layers, and takes energy from the
\* flow it found: the sum of the work over the column is never positive.
Gl90OnlyDissipates ==
    pc = "diagnose" =>
        /\ Same(Sum([j \in Layers |-> Times(column.h[j], x["du_dt_visc_gl90"][j])]), Zero)
        /\ AtMost(Sum(KE_u), Zero)

\* No velocity is left that empties more than CFL_trunc of its cell, and whether
\* columns are reported makes no difference to the velocities.
VelocityIsLimited ==
    /\ (pc = "done" /\ call = "vertvisc_tr") => \A j \in Layers : AtMost(CFL(column, x["u"][j]), CFL_trunc)
    /\ pc = "limit" =>
          \A others \in BOOLEAN : limit_and_report(column, x["u"], others) = limit_only(column, x["u"])
=============================================================================
