--------------------------- MODULE VertFricLoops ---------------------------
(***************************************************************************)
(* The vertical friction, src/src/mom_kernels/mom_vert_friction.cpp, and   *)
(* the conversion of thicknesses to vertical distances                     *)
(* (mom_interface_heights.cpp), as the sequences of their loops.           *)
(*                                                                         *)
(* A body works down and up a whole column: statements that read what an   *)
(* earlier one of the same column has set are loops of their own here,     *)
(* over the same box.  Where a body returns on land the loop is the one at *)
(* the ocean points: land keeps what it held.                              *)
(*                                                                         *)
(* cfg.on holds the options of CS that are set, Kvml and Kv_extra_bbl when *)
(* they are not zero, nkml when it is positive, and fpmix and has_spv;     *)
(* cfg.given the optional arrays that are allocated.  Metrics are grouped  *)
(* by where they live: cell, corner, face_u and face_v.  g_prime has no    *)
(* horizontal extent, and the count of truncations is not an array: both   *)
(* are left out, as are open boundaries, with which the calls abort.       *)
(***************************************************************************)
EXTENDS KernelLoops

VertFricSwitches ==
    {"do_report_u", "do_report_v", "direct_stress", "StokesMixing", "fpmix", "do_GLwork",
     "do_du_dt_visc_gl90", "do_dv_dt_visc_gl90", "bottomdraglaw", "Kv_extra_bbl", "Kvml",
     "dynamic_viscous_ML", "nkml", "fixed_LOTW_ML", "apply_LOTW_floor", "use_GL90_in_SSW",
     "use_GL90_N2", "read_kappa_gl90", "harmonic_visc", "has_spv"}

\* Optional inputs, and optional results
VertFricInputs ==
    {"Ray_u", "Ray_v", "Us_x", "Us_y", "taux", "tauy", "frac_shelf_u", "frac_shelf_v",
     "Kv_bbl_u", "Kv_bbl_v", "bbl_thick_u", "bbl_thick_v", "tbl_thick_shelf_u", "tbl_thick_shelf_v",
     "Kv_tbl_shelf_u", "Kv_tbl_shelf_v", "nkml_visc_u", "nkml_visc_v", "Kv_shear", "Kv_shear_Bu",
     "Ustar_2d", "SpV_avg", "kappa_gl90_2d", "kdgl90_struct"}
VelocityReports == {"u_old", "v_old", "vel_report_u", "vel_report_v", "dowrite_u", "dowrite_v"}
TendencyOutputs ==
    {"du_dt_visc", "dv_dt_visc", "du_dt_visc_gl90", "dv_dt_visc_gl90", "du_dt_str", "dv_dt_str"}
StressOutputs == {"taux_shelf", "tauy_shelf", "taux_bot", "tauy_bot"}
WorkOutputs == {"KE_u", "KE_v"}
ShelfCoupling == {"a1_shelf_u", "a1_shelf_v"}
GL90Coupling == {"a_u_gl90", "a_v_gl90"}
CoefOutputs == {"hML_u", "hML_v", "Kv_u", "Kv_v", "Kv_gl90_u", "Kv_gl90_v"}

\* The two cells beside a face, and the two corners at its ends
CellsBeside(work_on_u) == Here \cup (IF work_on_u THEN East ELSE North)
CornersBeside(work_on_u) == Here \cup (IF work_on_u THEN South ELSE West)

\* Sums of the optional arrays that are there
GivenOf(cfg, arrays) == cfg.given \cap arrays

-----------------------------------------------------------------------------
\* Velocity truncation

\* Arrays that decide what is counted, and nothing else
Counts(arrays) == Set({}, At(arrays, Here))

\* Columns whose velocities are reported keep the velocities from before they are
\* cut to the largest that CFL_trunc allows
limit_u(cfg) ==
    LET report == On(cfg, "do_report_u")
        cfl == At({"face_u"}, Here) \cup At({"cell"}, Here \cup East)
    IN  Sets(report, bxU(cfg), "dowrite_u", {})
        \o Sets(report, bxU(cfg), "vel_report_u", {})
        \o Changes(report, bxU(cfg), "vel_report_u", At({"u"}, Here) \cup cfl)
        \o Changes(report, bxU(cfg), "dowrite_u", At({"u"}, Here) \cup cfl)
        \o Changes(report, bxU(cfg), "u_old", At({"u", "dowrite_u"}, Here))
        \o <<Loop(bxU(cfg), {Set({"u"}, At({"u"}, Here) \cup cfl), Counts({"h_u"})})>>

limit_v(cfg) ==
    LET report == On(cfg, "do_report_v")
        cfl == At({"face_v"}, Here) \cup At({"cell"}, Here \cup North)
    IN  Sets(report, bxV(cfg), "dowrite_v", {})
        \o Sets(report, bxV(cfg), "vel_report_v", {})
        \o Changes(report, bxV(cfg), "vel_report_v", At({"v"}, Here) \cup cfl)
        \o Changes(report, bxV(cfg), "dowrite_v", At({"v"}, Here) \cup cfl)
        \o Changes(report, bxV(cfg), "v_old", At({"v", "dowrite_v"}, Here))
        \o <<Loop(bxV(cfg), {Set({"v"}, At({"v"}, Here) \cup cfl), Counts({"h_v"})})>>

vertvisc_limit_vel(cfg) == limit_u(cfg) \o limit_v(cfg)

-----------------------------------------------------------------------------
\* The share of a momentum input that viscosity leaves in a layer

remnant_u(cfg) ==
    LET column == At({"h_u", "a_u", "face_u"} \cup GivenOf(cfg, {"Ray_u"}), Here)
    IN  <<Scratch(bxU(cfg), {"c1U"}),
          Loop(bxU(cfg), {Set({"c1U", "visc_rem_u"}, column)}),
          Loop(bxU(cfg), {Set({"visc_rem_u"}, At({"visc_rem_u", "c1U"}, Here))})>>

remnant_v(cfg) ==
    LET column == At({"h_v", "a_v", "face_v"} \cup GivenOf(cfg, {"Ray_v"}), Here)
    IN  <<Scratch(bxV(cfg), {"c1V"}),
          Loop(bxV(cfg), {Set({"c1V", "visc_rem_v"}, column)}),
          Loop(bxV(cfg), {Set({"visc_rem_v"}, At({"visc_rem_v", "c1V"}, Here))})>>

vertvisc_remnant_tr(cfg) == remnant_u(cfg) \o remnant_v(cfg)

-----------------------------------------------------------------------------
\* Nonlocal momentum flux: the increment of a column, and the Eulerian velocity
\* that it had before

vertfpmix_tr(cfg) ==
    LET depth_u == At({"face_u", "h_u", "taux"}, Here) \cup At({"cell", "hbl_h"}, Here \cup East)
        depth_v == At({"face_v", "h_v", "tauy"}, Here) \cup At({"cell", "hbl_h"}, Here \cup North)
    IN  <<Loop(bxU(cfg), {Set({"uE_u"}, At({"u", "Us_x", "face_u"}, Here)), Set({"uInc_u"}, depth_u)}),
          Loop(bxU(cfg), {Set({"u"}, At({"u", "uInc_u"}, Here))}),
          Loop(bxV(cfg), {Set({"vE_v"}, At({"v", "Us_y", "face_v"}, Here)), Set({"vInc_v"}, depth_v)}),
          Loop(bxV(cfg), {Set({"v"}, At({"v", "vInc_v"}, Here))})>>

-----------------------------------------------------------------------------
\* Coupling coefficients

OfDirection(work_on_u, u, v) == IF work_on_u THEN u ELSE v

\* A mixed layer that is not already in Kv_shear
SurfaceLayer(cfg) ==
    cfg.on \cap {"dynamic_viscous_ML", "nkml", "fixed_LOTW_ML", "apply_LOTW_floor"} # {}

MixedLayerDepth(cfg, work_on_u) ==
    When(SurfaceLayer(cfg), At({"dz_vel"}, Here))
    \cup When(On(cfg, "dynamic_viscous_ML"), At({OfDirection(work_on_u, "nkml_visc_u", "nkml_visc_v")}, Here))

\* Viscosities of the interior, and near the bottom
interior_coupling(cfg, work_on_u, do_shelf) ==
    LET bottom == OfDirection(work_on_u, {"Kv_bbl_u", "bbl_thick_u"}, {"Kv_bbl_v", "bbl_thick_v"})
    IN  When(On(cfg, "Kvml") /\ ~do_shelf, At({"dz_harm"}, Here))
        \cup At(GivenOf(cfg, {"Kv_shear"}), CellsBeside(work_on_u))
        \cup At(GivenOf(cfg, {"Kv_shear_Bu"}), CornersBeside(work_on_u))
        \cup When(On(cfg, "bottomdraglaw"), At({"z_i"} \cup bottom, Here))
        \cup When(On(cfg, "Kv_extra_bbl"), At({"z_i"}, Here))

\* No slip under a shelf
shelf_coupling(work_on_u) ==
    At(OfDirection(work_on_u, {"Kv_tbl_shelf_u", "tbl_thick_shelf_u"}, {"Kv_tbl_shelf_v", "tbl_thick_shelf_v"}), Here)

\* The friction velocity, and the Coriolis parameter that limits the depth of mixing
friction_velocity(cfg, work_on_u) ==
    At({"Ustar_2d"} \cup GivenOf(cfg, {"SpV_avg"}), CellsBeside(work_on_u))
    \cup At({"corner"}, CornersBeside(work_on_u))

\* Mixing by the wind
surface_coupling(cfg, work_on_u) ==
    When(SurfaceLayer(cfg), friction_velocity(cfg, work_on_u) \cup MixedLayerDepth(cfg, work_on_u))

\* What one interface's coefficient is computed from, at hvel the vertical distances
find_coupling_coef_point(cfg, work_on_u, do_shelf, hvel) ==
    At({hvel}, Here) \cup interior_coupling(cfg, work_on_u, do_shelf)
    \cup (IF do_shelf THEN shelf_coupling(work_on_u) ELSE surface_coupling(cfg, work_on_u))

\* A depth-independent coefficient, or one from kappa and the reduced gravity
find_coupling_coef_gl90_point(cfg, work_on_u) ==
    At({"corner"}, CornersBeside(work_on_u)) \cup At({"z_i_gl90"}, Here)
    \cup (IF On(cfg, "use_GL90_N2")
          THEN At({"dz_vel"}, Here)
          ELSE At(When(On(cfg, "read_kappa_gl90"), {"kappa_gl90_2d"}) \cup GivenOf(cfg, {"kdgl90_struct"}),
                  CellsBeside(work_on_u)))

CoefScratch == {"hvel", "dz_harm", "dz_vel", "hvel_shelf", "dz_vel_shelf", "z_i", "z_i_gl90", "a_cpl", "a_cpl_gl90",
                "a_shelf"}

\* Thicknesses at the faces and heights above the bottom; the same under a shelf, with
\* the coefficients there; then the coefficients in the open and both together
thicknesses_at_u(cfg) ==
    LET box == bxU(cfg)
        beside == At({"dz"}, Here \cup East)
        bbl == When(On(cfg, "bottomdraglaw"), At({"bbl_thick_u"}, Here))
        topography == When(~On(cfg, "harmonic_visc"), At({"cell"}, Here \cup East))
        layers == At({"u", "face_u"}, Here) \cup At({"h", "dz"}, Here \cup East)
    IN  Sets(TRUE, box, "dz_harm", beside)
        \o Sets(TRUE, box, "z_i", At({"dz_harm"}, Here) \cup bbl \cup topography \cup beside)
        \o <<Loop(box, {Set({"hvel", "dz_vel"}, layers \cup At({"dz_harm", "z_i"}, Here) \cup topography)})>>
        \o Sets(On(cfg, "use_GL90_in_SSW"), box, "z_i_gl90", At({"dz_harm"}, Here))

coupling_under_shelf_u(cfg) ==
    LET box == bxU(cfg)
        shelf == Wanted(cfg, "frac_shelf_u")
        upwind == When(~On(cfg, "harmonic_visc"),
                       At({"u", "face_u", "dz_harm", "tbl_thick_shelf_u"}, Here) \cup At({"h", "dz", "cell"}, Here \cup East))
    IN  Sets(shelf, box, "hvel_shelf", At({"hvel"}, Here) \cup upwind)
        \o Sets(shelf, box, "dz_vel_shelf", At({"dz_vel"}, Here) \cup upwind)
        \o Sets(shelf, box, "a_shelf", find_coupling_coef_point(cfg, TRUE, TRUE, "dz_vel_shelf"))
        \o Sets(shelf, box, "a1_shelf_u", At({"frac_shelf_u", "a_shelf"}, Here))

coef_u(cfg) ==
    LET box == bxU(cfg)
        shelf == Wanted(cfg, "frac_shelf_u")
        gl90 == On(cfg, "use_GL90_in_SSW")
        coupled == At({"a_cpl"} \cup When(gl90, {"a_cpl_gl90"}) \cup When(shelf, {"a_shelf", "frac_shelf_u"}), Here)
    IN  <<Scratch(box, CoefScratch)>>
        \o thicknesses_at_u(cfg)
        \o Sets(TRUE, box, "a_cpl", find_coupling_coef_point(cfg, TRUE, FALSE, "dz_vel"))
        \o Sets(Wanted(cfg, "hML_u"), box, "hML_u", MixedLayerDepth(cfg, TRUE))
        \o Sets(gl90, box, "a_cpl_gl90", find_coupling_coef_gl90_point(cfg, TRUE))
        \o coupling_under_shelf_u(cfg)
        \o Sets(TRUE, box, "a_u", coupled)
        \o Sets(gl90, box, "a_u_gl90", At({"a_cpl_gl90"}, Here))
        \o Sets(TRUE, box, "h_u", At({"hvel"} \cup When(shelf, {"hvel_shelf", "frac_shelf_u"}), Here))
        \o Sets(Wanted(cfg, "Kv_u"), box, "Kv_u", At({"a_u", "h_u"}, Here))
        \o Sets(Wanted(cfg, "Kv_gl90_u"), box, "Kv_gl90_u", At({"a_u_gl90", "h_u"}, Here))

thicknesses_at_v(cfg) ==
    LET box == bxV(cfg)
        beside == At({"dz"}, Here \cup North)
        bbl == When(On(cfg, "bottomdraglaw"), At({"bbl_thick_v"}, Here))
        topography == When(~On(cfg, "harmonic_visc"), At({"cell"}, Here \cup North))
        layers == At({"v", "face_v"}, Here) \cup At({"h", "dz"}, Here \cup North)
    IN  Sets(TRUE, box, "dz_harm", beside)
        \o Sets(TRUE, box, "z_i", At({"dz_harm"}, Here) \cup bbl \cup topography \cup beside)
        \o <<Loop(box, {Set({"hvel", "dz_vel"}, layers \cup At({"dz_harm", "z_i"}, Here) \cup topography)})>>
        \o Sets(On(cfg, "use_GL90_in_SSW"), box, "z_i_gl90", At({"dz_harm"}, Here))

coupling_under_shelf_v(cfg) ==
    LET box == bxV(cfg)
        shelf == Wanted(cfg, "frac_shelf_v")
        upwind == When(~On(cfg, "harmonic_visc"),
                       At({"v", "face_v", "dz_harm", "tbl_thick_shelf_v"}, Here) \cup At({"h", "dz", "cell"}, Here \cup North))
    IN  Sets(shelf, box, "hvel_shelf", At({"hvel"}, Here) \cup upwind)
        \o Sets(shelf, box, "dz_vel_shelf", At({"dz_vel"}, Here) \cup upwind)
        \o Sets(shelf, box, "a_shelf", find_coupling_coef_point(cfg, FALSE, TRUE, "dz_vel_shelf"))
        \o Sets(shelf, box, "a1_shelf_v", At({"frac_shelf_v", "a_shelf"}, Here))

coef_v(cfg) ==
    LET box == bxV(cfg)
        shelf == Wanted(cfg, "frac_shelf_v")
        gl90 == On(cfg, "use_GL90_in_SSW")
        coupled == At({"a_cpl"} \cup When(gl90, {"a_cpl_gl90"}) \cup When(shelf, {"a_shelf", "frac_shelf_v"}), Here)
    IN  <<Scratch(box, CoefScratch)>>
        \o thicknesses_at_v(cfg)
        \o Sets(TRUE, box, "a_cpl", find_coupling_coef_point(cfg, FALSE, FALSE, "dz_vel"))
        \o Sets(Wanted(cfg, "hML_v"), box, "hML_v", MixedLayerDepth(cfg, FALSE))
        \o Sets(gl90, box, "a_cpl_gl90", find_coupling_coef_gl90_point(cfg, FALSE))
        \o coupling_under_shelf_v(cfg)
        \o Sets(TRUE, box, "a_v", coupled)
        \o Sets(gl90, box, "a_v_gl90", At({"a_cpl_gl90"}, Here))
        \o Sets(TRUE, box, "h_v", At({"hvel"} \cup When(shelf, {"hvel_shelf", "frac_shelf_v"}), Here))
        \o Sets(Wanted(cfg, "Kv_v"), box, "Kv_v", At({"a_v", "h_v"}, Here))
        \o Sets(Wanted(cfg, "Kv_gl90_v"), box, "Kv_gl90_v", At({"a_v_gl90", "h_v"}, Here))

vertvisc_coef_tr(cfg) == coef_u(cfg) \o coef_v(cfg)

-----------------------------------------------------------------------------
\* The implicit step

\* Down the column and back up: c1 and the velocity, and with them the acceleration
\* by the surface stress where that is wanted
vertvisc_tridiag(cfg, box, vel, column, str, stress, c1) ==
    LET wanted == Wanted(cfg, str)
    IN  <<Loop(box, {Set({c1}, column), Set({vel}, column \cup At({vel, stress}, Here))}
                    \cup When(wanted, {Set({str}, column \cup At({str, stress}, Here))})),
          Loop(box, {Set({vel}, At({vel, c1}, Here))}
                    \cup When(wanted, {Set({str}, At({str, c1}, Here))}))>>

\* Mutant: the GL90 solve starts from the velocity that the first solve has left
gl90_u_from_new_velocity(cfg) ==
    LET solve == cfg.on \cap {"do_du_dt_visc_gl90", "do_GLwork"} # {} /\ Wanted(cfg, "du_dt_visc_gl90")
        column == At({"h_u", "a_u_gl90", "face_u"}, Here)
    IN  Changes(solve, bxU(cfg), "c1U", column)
        \o Changes(solve, bxU(cfg), "du_dt_visc_gl90", column \cup At({"u"}, Here))
        \o Changes(solve, bxU(cfg), "du_dt_visc_gl90", At({"c1U", "du_dt_visc"}, Here))
        \o Sets(solve /\ On(cfg, "do_GLwork"), bxU(cfg), "KE_u", At({"du_dt_visc", "du_dt_visc_gl90", "h_u", "face_u"}, Here))

\* The GL90 viscosity on its own: du_dt_visc_gl90 is the velocity being solved for,
\* c1U is used again, and du_dt_visc still holds the velocity before
gl90_u(cfg) ==
    LET solve == cfg.on \cap {"do_du_dt_visc_gl90", "do_GLwork"} # {} /\ Wanted(cfg, "du_dt_visc_gl90")
        column == At({"h_u", "a_u_gl90", "face_u"}, Here)
    IN  Sets(solve, bxU(cfg), "c1U", column)
        \o Changes(solve, bxU(cfg), "du_dt_visc_gl90", column)
        \o Changes(solve, bxU(cfg), "du_dt_visc_gl90", At({"c1U"}, Here))
        \o Changes(solve, bxU(cfg), "du_dt_visc_gl90", At({"du_dt_visc"}, Here))
        \o Sets(solve /\ On(cfg, "do_GLwork"), bxU(cfg), "KE_u", At({"du_dt_visc", "du_dt_visc_gl90", "h_u", "face_u"}, Here))

gl90_v(cfg) ==
    LET solve == cfg.on \cap {"do_dv_dt_visc_gl90", "do_GLwork"} # {} /\ Wanted(cfg, "dv_dt_visc_gl90")
        column == At({"h_v", "a_v_gl90", "face_v"}, Here)
    IN  Sets(solve, bxV(cfg), "c1V", column)
        \o Changes(solve, bxV(cfg), "dv_dt_visc_gl90", column)
        \o Changes(solve, bxV(cfg), "dv_dt_visc_gl90", At({"c1V"}, Here))
        \o Changes(solve, bxV(cfg), "dv_dt_visc_gl90", At({"dv_dt_visc"}, Here))
        \o Sets(solve /\ On(cfg, "do_GLwork"), bxV(cfg), "KE_v", At({"dv_dt_visc", "dv_dt_visc_gl90", "h_v", "face_v"}, Here))

\* The stress of the wind: a body force over the topmost Hmix, or at the surface
wind_u(cfg) ==
    LET force == At({"taux", "face_u"}, Here) \cup At({"h"}, Here \cup East)
    IN  IF On(cfg, "direct_stress")
        THEN Sets(TRUE, bxU(cfg), "surface_stress_u", {})
             \o Changes(TRUE, bxU(cfg), "u", force)
             \o Changes(Wanted(cfg, "du_dt_str"), bxU(cfg), "du_dt_str", force)
        ELSE Sets(TRUE, bxU(cfg), "surface_stress_u", At({"taux", "face_u"}, Here))

wind_v(cfg) ==
    LET force == At({"tauy", "face_v"}, Here) \cup At({"h"}, Here \cup North)
    IN  IF On(cfg, "direct_stress")
        THEN Sets(TRUE, bxV(cfg), "surface_stress_v", {})
             \o Changes(TRUE, bxV(cfg), "v", force)
             \o Changes(Wanted(cfg, "dv_dt_str"), bxV(cfg), "dv_dt_str", force)
        ELSE Sets(TRUE, bxV(cfg), "surface_stress_v", At({"tauy", "face_v"}, Here))

\* Us_x alone says whether there is a Stokes drift
DoStokesMixing(cfg) == On(cfg, "StokesMixing") /\ Wanted(cfg, "Us_x")

zonal_vertvisc(cfg) ==
    LET box == bxU(cfg)
        stokes(on) == Changes(on, box, "u", At({"face_u", "Us_x"}, Here))
        drag == GivenOf(cfg, {"Ray_u"})
    IN  stokes(DoStokesMixing(cfg))
        \o stokes(On(cfg, "fpmix"))
        \o Sets(Wanted(cfg, "du_dt_visc"), box, "du_dt_visc", At({"u"}, Here))
        \o Sets(Wanted(cfg, "du_dt_visc_gl90"), box, "du_dt_visc_gl90", At({"u"}, Here))
        \o Sets(Wanted(cfg, "du_dt_str"), box, "du_dt_str", {})
        \o wind_u(cfg)
        \o vertvisc_tridiag(cfg, box, "u", At({"h_u", "a_u", "face_u"} \cup drag, Here), "du_dt_str", "surface_stress_u", "c1U")
        \o gl90_u(cfg)
        \o Changes(Wanted(cfg, "du_dt_visc"), box, "du_dt_visc", At({"u"}, Here))
        \o Sets(Wanted(cfg, "taux_shelf"), box, "taux_shelf", At({"a1_shelf_u", "u"}, Here))
        \o Sets(Wanted(cfg, "taux_bot"), box, "taux_bot", At({"u", "a_u"}, Here))
        \o Changes(Wanted(cfg, "taux_bot") /\ Wanted(cfg, "Ray_u"), box, "taux_bot", At({"u", "Ray_u"}, Here))
        \o stokes(DoStokesMixing(cfg))
        \o stokes(On(cfg, "fpmix"))

meridional_vertvisc(cfg) ==
    LET box == bxV(cfg)
        stokes(on) == Changes(on, box, "v", At({"face_v", "Us_y"}, Here))
        drag == GivenOf(cfg, {"Ray_v"})
    IN  stokes(DoStokesMixing(cfg))
        \o stokes(On(cfg, "fpmix"))
        \o Sets(Wanted(cfg, "dv_dt_visc"), box, "dv_dt_visc", At({"v"}, Here))
        \o Sets(Wanted(cfg, "dv_dt_visc_gl90"), box, "dv_dt_visc_gl90", At({"v"}, Here))
        \o Sets(Wanted(cfg, "dv_dt_str"), box, "dv_dt_str", {})
        \o wind_v(cfg)
        \o vertvisc_tridiag(cfg, box, "v", At({"h_v", "a_v", "face_v"} \cup drag, Here), "dv_dt_str", "surface_stress_v", "c1V")
        \o gl90_v(cfg)
        \o Changes(Wanted(cfg, "dv_dt_visc"), box, "dv_dt_visc", At({"v"}, Here))
        \o Sets(Wanted(cfg, "tauy_shelf"), box, "tauy_shelf", At({"a1_shelf_v", "v"}, Here))
        \o Sets(Wanted(cfg, "tauy_bot"), box, "tauy_bot", At({"v", "a_v"}, Here))
        \o Changes(Wanted(cfg, "tauy_bot") /\ Wanted(cfg, "Ray_v"), box, "tauy_bot", At({"v", "Ray_v"}, Here))
        \o stokes(DoStokesMixing(cfg))
        \o stokes(On(cfg, "fpmix"))

vertvisc_tr(cfg) ==
    <<Scratch(bxU(cfg), {"surface_stress_u", "c1U"}), Scratch(bxV(cfg), {"surface_stress_v", "c1V"})>>
    \o zonal_vertvisc(cfg)
    \o meridional_vertvisc(cfg)
    \o vertvisc_limit_vel(cfg)

-----------------------------------------------------------------------------
\* Thickness to vertical distance; has_spv is only true without Boussinesq
thickness_to_dz_3d(cfg) ==
    <<Loop(bx0, {Set({"dz"}, At({"h"} \cup When(On(cfg, "has_spv"), {"spv_avg"}), Here))})>>

-----------------------------------------------------------------------------
\* Arrays and options that the kernels take together and never check: a switch
\* without the array it works on runs through a null pointer, a diagnostic without
\* the option it diagnoses keeps what it held.
BothDirections(cfg) ==
    \A p \in {<<"Us_x", "Us_y">>, <<"frac_shelf_u", "frac_shelf_v">>} : Wanted(cfg, p[1]) = Wanted(cfg, p[2])

ReportsTogether(cfg) ==
    /\ On(cfg, "do_report_u") => {"u_old", "vel_report_u", "dowrite_u"} \subseteq cfg.given
    /\ On(cfg, "do_report_v") => {"v_old", "vel_report_v", "dowrite_v"} \subseteq cfg.given

FrictionTogether(cfg) ==
    /\ BothDirections(cfg)
    /\ ReportsTogether(cfg)
    /\ {"taux", "tauy"} \subseteq cfg.given
    /\ On(cfg, "fpmix") => Wanted(cfg, "Us_x")
    /\ On(cfg, "do_GLwork") =>
          {"KE_u", "KE_v", "du_dt_visc_gl90", "dv_dt_visc_gl90"} \subseteq cfg.given
    /\ cfg.on \cap {"do_du_dt_visc_gl90", "do_GLwork"} # {} /\ Wanted(cfg, "du_dt_visc_gl90") =>
          {"du_dt_visc", "a_u_gl90"} \subseteq cfg.given
    /\ cfg.on \cap {"do_dv_dt_visc_gl90", "do_GLwork"} # {} /\ Wanted(cfg, "dv_dt_visc_gl90") =>
          {"dv_dt_visc", "a_v_gl90"} \subseteq cfg.given
    /\ Wanted(cfg, "taux_shelf") => Wanted(cfg, "a1_shelf_u")
    /\ Wanted(cfg, "tauy_shelf") => Wanted(cfg, "a1_shelf_v")

CoefTogether(cfg) ==
    /\ BothDirections(cfg)
    /\ On(cfg, "use_GL90_in_SSW") => GL90Coupling \subseteq cfg.given
    /\ cfg.given \cap (GL90Coupling \cup {"Kv_gl90_u", "Kv_gl90_v"}) # {} => On(cfg, "use_GL90_in_SSW")
    /\ On(cfg, "read_kappa_gl90") => Wanted(cfg, "kappa_gl90_2d")
    /\ On(cfg, "bottomdraglaw") => {"Kv_bbl_u", "Kv_bbl_v", "bbl_thick_u", "bbl_thick_v"} \subseteq cfg.given
    /\ SurfaceLayer(cfg) => Wanted(cfg, "Ustar_2d")
    /\ On(cfg, "dynamic_viscous_ML") => {"nkml_visc_u", "nkml_visc_v"} \subseteq cfg.given
    /\ Wanted(cfg, "frac_shelf_u") =>
          {"tbl_thick_shelf_u", "tbl_thick_shelf_v", "Kv_tbl_shelf_u", "Kv_tbl_shelf_v"} \cup ShelfCoupling \subseteq cfg.given
=============================================================================
