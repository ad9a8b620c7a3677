--------------------------- MODULE ContinuityLoops ---------------------------
(***************************************************************************)
(* The PPM continuity solver, src/src/mom_kernels/mom_continuity_ppm.cpp,  *)
(* as the sequence of its loops.  Every operator is one function of that   *)
(* file and returns the loops it launches, in order.                       *)
(*                                                                         *)
(* Grid metrics that are only ever read are grouped by where they live:    *)
(* cell_x stands for IareaT, IdxT, areaT and dxT, cell_y for IareaT, IdyT, *)
(* areaT and dyT, face_u for dy_Cu, mask2dCu, dxCu and por_face_areaU,     *)
(* face_v for dx_Cv, mask2dCv, dyCv and por_face_areaV, and FA_u and FA_v  *)
(* for the six fields of the barotropic continuity type in each direction, *)
(* which one condition guards together.                                    *)
(*                                                                         *)
(* The arguments: cfg.scheme is the edge reconstruction, cfg.aggress the   *)
(* option AGGRESS_ADJUST, cfg.given the optional arrays that were passed,  *)
(* cfg.stencil the stencil width and cfg.halo the width of the halo all    *)
(* arrays of the caller have (isd .. ied, jsd .. jed).                     *)
(***************************************************************************)
EXTENDS KernelLoops

Schemes == {"upwind_1st", "simple_2nd", "PPM"}

\* What each scheme needs; the caller passes it as the argument stencil
SchemeStencil(scheme) ==
    CASE scheme = "upwind_1st" -> 1
      [] scheme = "simple_2nd" -> 2
      [] scheme = "PPM" -> 3

OptionalInputs == {"uhbt", "vhbt", "visc_rem_u", "visc_rem_v"}
OptionalOutputs == {"u_cor", "v_cor", "du_cor", "dv_cor", "FA_u", "FA_v", "h_u", "h_v"}

-----------------------------------------------------------------------------
\* Edge thicknesses.  h is hin in the first direction, h itself in the second.

\* ppm_limit_pos and ppm_limit_cw84: the edges are limited in place

\* Mutant: the limiter looks at the eastern neighbour's western edge
LimitAcrossCells(box, h) ==
    <<Loop(box, {Set({"h_W", "h_E"}, At({h, "h_W", "h_E"}, Here) \cup At({"h_W"}, East))})>>

LimitPosX(box, h) == <<Loop(box, {Set({"h_W", "h_E"}, At({h, "h_W", "h_E"}, Here))})>>
LimitPosY(box, h) == <<Loop(box, {Set({"h_S", "h_N"}, At({h, "h_S", "h_N"}, Here))})>>

PPM_reconstruction_x(bxH, h, cfg) ==
    LET bx == GrowX(bxH, 1)
        bxE == GrowX(bxH, 2)
        edges == Loop(bx, {Set({"h_W", "h_E"}, At({h, "mask2dT"}, West \cup Here \cup East)
                               \cup When(cfg.scheme = "PPM", At({"slp"}, West \cup Here \cup East)))})
        slopes == Loop(bxE, {Set({"slp"}, At({h, "mask2dT"}, West \cup Here \cup East))})
    IN  <<Scratch(bxE, {"slp"})>>
        \o (IF cfg.scheme = "PPM" THEN <<slopes, edges>> ELSE <<edges>>)
        \o LimitPosX(bx, h)

PPM_reconstruction_y(bxH, h, cfg) ==
    LET bx == GrowY(bxH, 1)
        bxE == GrowY(bxH, 2)
        edges == Loop(bx, {Set({"h_S", "h_N"}, At({h, "mask2dT"}, South \cup Here \cup North)
                               \cup When(cfg.scheme = "PPM", At({"slp"}, South \cup Here \cup North)))})
        slopes == Loop(bxE, {Set({"slp"}, At({h, "mask2dT"}, South \cup Here \cup North))})
    IN  <<Scratch(bxE, {"slp"})>>
        \o (IF cfg.scheme = "PPM" THEN <<slopes, edges>> ELSE <<edges>>)
        \o LimitPosY(bx, h)

\* Mutant: upwind edges are set on the cells of the box alone
zonal_edge_thickness_ungrown(bxC, h, cfg) ==
    IF cfg.scheme = "upwind_1st"
    THEN <<Loop(bxC, {Set({"h_W", "h_E"}, At({h}, Here))})>>
    ELSE PPM_reconstruction_x(bxC, h, cfg)

\* Mutant: the scheme is not handed down
zonal_edge_thickness_always_PPM(bxC, h, cfg) ==
    PPM_reconstruction_x(bxC, h, [cfg EXCEPT !.scheme = "PPM"])

zonal_edge_thickness(bxC, h, cfg) ==
    IF cfg.scheme = "upwind_1st"
    THEN <<Loop(GrowX(bxC, 1), {Set({"h_W", "h_E"}, At({h}, Here))})>>
    ELSE PPM_reconstruction_x(bxC, h, cfg)

meridional_edge_thickness(bxC, h, cfg) ==
    IF cfg.scheme = "upwind_1st"
    THEN <<Loop(GrowY(bxC, 1), {Set({"h_S", "h_N"}, At({h}, Here))})>>
    ELSE PPM_reconstruction_y(bxC, h, cfg)

-----------------------------------------------------------------------------
\* What flux_elem_point reads to find the transport through a face

ZonalFlux(velocity, h) ==
    At({velocity, "face_u"}, Here) \cup At({h, "h_W", "h_E", "cell_x"}, Here \cup East)

\* Mutant: the cell to the south is taken for the cell to the north
MeridionalFluxSouth(velocity, h) ==
    At({velocity, "face_v"}, Here) \cup At({h, "h_S", "h_N", "cell_y"}, Here \cup South)

MeridionalFlux(velocity, h) ==
    At({velocity, "face_v"}, Here) \cup At({h, "h_S", "h_N", "cell_y"}, Here \cup North)

\* zonal_flux_adjust: one loop that iterates each face to the correction du;
\* without uhbt the transport it aims at is zero, and without uh_3d it leaves uh
\* alone.  Faces that have converged keep the uh they have.
zonal_flux_adjust(bxC, h, target, uh_3d) ==
    <<Loop(GrowLoX(bxC), {Set({"du"} \cup uh_3d,
                ZonalFlux("u", h) \cup At(target \cup uh_3d, Here)
                \cup At({"do_I", "du_max_CFL", "du_min_CFL", "uh_tot_0", "duhdu_tot_0",
                         "visc_rem_u_tmp"}, Here))})>>

meridional_flux_adjust(bxC, h, target, vh_3d) ==
    <<Loop(GrowLoY(bxC), {Set({"dv"} \cup vh_3d,
                MeridionalFlux("v", h) \cup At(target \cup vh_3d, Here)
                \cup At({"do_I", "dv_max_CFL", "dv_min_CFL", "vh_tot_0", "dvhdv_tot_0",
                         "visc_rem_v_tmp"}, Here))})>>

set_zonal_BT_cont(bxC, h) ==
    <<Loop(GrowLoX(bxC), {Set({"FA_u"},
                ZonalFlux("u", h) \cup At({"du", "do_I", "visc_rem_u_tmp", "visc_rem_max"}, Here))})>>

set_merid_BT_cont(bxC, h) ==
    <<Loop(GrowLoY(bxC), {Set({"FA_v"},
                MeridionalFlux("v", h) \cup At({"dv", "do_I", "visc_rem_v_tmp", "visc_rem_max"}, Here))})>>

zonal_flux_thickness(bxC, velocity, h) ==
    <<Loop(GrowLoX(bxC), {Set({"h_u"}, ZonalFlux(velocity, h) \cup At({"visc_rem_u_tmp"}, Here))})>>

meridional_flux_thickness(bxC, velocity, h) ==
    <<Loop(GrowLoY(bxC), {Set({"h_v"}, MeridionalFlux(velocity, h) \cup At({"visc_rem_v_tmp"}, Here))})>>

-----------------------------------------------------------------------------
\* The mass fluxes of one direction with everything that hangs on them

needs_sums(given, transport, FA) == given \cap {transport, FA} # {}

\* The limits that keep the CFL number in bounds; AGGRESS_ADJUST looks at the
\* velocities of the faces on both sides
zonal_limits(cfg, visc_rem) ==
    At({"u", "face_u"}, Here) \cup At({"cell_x"}, Here \cup East) \cup visc_rem
        \cup When(cfg.aggress, At({"u"}, West \cup East))

meridional_limits(cfg, visc_rem) ==
    At({"v", "face_v"}, Here) \cup At({"cell_y"}, Here \cup North) \cup visc_rem
        \cup When(cfg.aggress, At({"v"}, South \cup North))

\* The corrected velocities, once the transport is the one that was asked for
zonal_corrected(bxUface, given) ==
    IF given \cap {"u_cor", "du_cor"} = {} THEN <<>>
    ELSE <<Loop(bxUface, {Set(given \cap {"u_cor"}, At({"u", "du", "visc_rem_u_tmp"}, Here)),
                      Set(given \cap {"du_cor"}, At({"du"}, Here))})>>

meridional_corrected(bxVface, given) ==
    IF given \cap {"v_cor", "dv_cor"} = {} THEN <<>>
    ELSE <<Loop(bxVface, {Set(given \cap {"v_cor"}, At({"v", "dv", "visc_rem_v_tmp"}, Here)),
                      Set(given \cap {"dv_cor"}, At({"dv"}, Here))})>>

\* The barotropic continuity type, and the thickness at the faces it is for
zonal_BT_cont(bxC, h, given) ==
    zonal_flux_adjust(bxC, h, {}, {}) \o set_zonal_BT_cont(bxC, h)
    \o (IF "h_u" \in given
        THEN zonal_flux_thickness(bxC, IF "u_cor" \in given THEN "u_cor" ELSE "u", h)
        ELSE <<>>)

meridional_BT_cont(bxC, h, given) ==
    meridional_flux_adjust(bxC, h, {}, {}) \o set_merid_BT_cont(bxC, h)
    \o (IF "h_v" \in given
        THEN meridional_flux_thickness(bxC, IF "v_cor" \in given THEN "v_cor" ELSE "v", h)
        ELSE <<>>)

zonal_mass_flux(bxC, h, cfg) ==
    LET bxUface == GrowLoX(bxC)
        given == cfg.given
        visc_rem == At(given \cap {"visc_rem_u"}, Here)
        sums == {Set({"uh_tot_0", "duhdu_tot_0"}, ZonalFlux("u", h) \cup visc_rem),
                 Set({"du_max_CFL", "du_min_CFL"}, zonal_limits(cfg, visc_rem)),
                 Set({"visc_rem_max"}, visc_rem),
                 Set({"do_I"}, {})}
    IN  <<Scratch(bxUface, {"visc_rem_u_tmp", "uh_tot_0", "duhdu_tot_0", "du_max_CFL", "du_min_CFL",
                        "visc_rem_max", "du", "do_I"}),
          Loop(bxUface, {Set({"uh"}, ZonalFlux("u", h)), Set({"visc_rem_u_tmp"}, visc_rem),
                     Set(given \cap {"du_cor"}, {})}
                    \cup When(needs_sums(given, "uhbt", "FA_u"), sums))>>
        \o (IF "uhbt" \in given
            THEN zonal_flux_adjust(bxC, h, {"uhbt"}, {"uh"}) \o zonal_corrected(bxUface, given)
            ELSE <<>>)
        \o (IF "FA_u" \in given THEN zonal_BT_cont(bxC, h, given) ELSE <<>>)

\* visc_rem_v_tmp is filled by a loop of its own, over all of isd .. ied
meridional_mass_flux(bxC, h, cfg) ==
    LET bxVface == GrowLoY(bxC)
        bx_visc_wide == [bxVface EXCEPT !.w = cfg.halo, !.e = cfg.halo]
        given == cfg.given
        visc_rem == At({"visc_rem_v_tmp"}, Here)
        sums == {Set({"vh_tot_0", "dvhdv_tot_0"}, MeridionalFlux("v", h) \cup visc_rem),
                 Set({"dv_max_CFL", "dv_min_CFL"}, meridional_limits(cfg, visc_rem)),
                 Set({"visc_rem_max"}, visc_rem),
                 Set({"do_I"}, {})}
    IN  <<Scratch(bx_visc_wide, {"visc_rem_v_tmp"}),
          Scratch(bxVface, {"vh_tot_0", "dvhdv_tot_0", "dv_max_CFL", "dv_min_CFL", "visc_rem_max",
                        "dv", "do_I"}),
          Loop(bx_visc_wide, {Set({"visc_rem_v_tmp"}, At(given \cap {"visc_rem_v"}, Here))}),
          Loop(bxVface, {Set({"vh"}, MeridionalFlux("v", h)), Set(given \cap {"dv_cor"}, {})}
                    \cup When(needs_sums(given, "vhbt", "FA_v"), sums))>>
        \o (IF "vhbt" \in given
            THEN meridional_flux_adjust(bxC, h, {"vhbt"}, {"vh"}) \o meridional_corrected(bxVface, given)
            ELSE <<>>)
        \o (IF "FA_v" \in given THEN meridional_BT_cont(bxC, h, given) ELSE <<>>)

\* The vertical sums alone: all of uhbt, halo included, is zeroed first
zonal_BT_mass_flux(bxC, cfg) ==
    <<Loop(DataBox(cfg), {Set({"uhbt"}, {})}),
      Loop(GrowLoX(bxC), {Set({"uhbt"}, ZonalFlux("u", "h"))})>>

meridional_BT_mass_flux(bxC, cfg) ==
    <<Loop(DataBox(cfg), {Set({"vhbt"}, {})}),
      Loop(GrowLoY(bxC), {Set({"vhbt"}, MeridionalFlux("v", "h"))})>>

continuity_zonal_convergence(bxC, h) ==
    <<Loop(bxC, {Set({"h"}, At({h, "cell_x"}, Here) \cup At({"uh"}, West \cup Here))})>>

continuity_meridional_convergence(bxC, h) ==
    <<Loop(bxC, {Set({"h"}, At({h, "cell_y"}, Here) \cup At({"vh"}, South \cup Here))})>>

-----------------------------------------------------------------------------
\* One direction of continuity_PPM: edges, fluxes, convergence

ZonalSweep(bxC, h, cfg) ==
    <<Scratch(DataBox(cfg), {"h_W", "h_E"})>>
    \o zonal_edge_thickness(bxC, h, cfg)
    \o zonal_mass_flux(bxC, h, cfg)
    \o continuity_zonal_convergence(bxC, h)

MeridionalSweep(bxC, h, cfg) ==
    <<Scratch(DataBox(cfg), {"h_S", "h_N"})>>
    \o meridional_edge_thickness(bxC, h, cfg)
    \o meridional_mass_flux(bxC, h, cfg)
    \o continuity_meridional_convergence(bxC, h)

\* The first direction runs over a box grown by the stencil of the second
continuity_PPM(cfg, x_first) ==
    IF x_first
    THEN ZonalSweep(GrowY(bx0, cfg.stencil), "hin", cfg) \o MeridionalSweep(bx0, "h", cfg)
    ELSE MeridionalSweep(GrowX(bx0, cfg.stencil), "hin", cfg) \o ZonalSweep(bx0, "h", cfg)

continuity_PPM_2d_fluxes(cfg) ==
    <<Scratch(DataBox(cfg), {"h_W", "h_E"})>>
    \o zonal_edge_thickness(bx0, "h", cfg)
    \o zonal_BT_mass_flux(bx0, cfg)
    \o <<Scratch(DataBox(cfg), {"h_S", "h_N"})>>
    \o meridional_edge_thickness(bx0, "h", cfg)
    \o meridional_BT_mass_flux(bx0, cfg)

\* continuity_PPM aborts unless both or neither of the viscous remnants are given
BothRemnantsOrNeither(cfg) == "visc_rem_u" \in cfg.given <=> "visc_rem_v" \in cfg.given

\* Velocities are corrected to a transport, and the thicknesses at faces are fields
\* of the barotropic continuity type: without these an output stays as it was
OutputsTogether(cfg) ==
    /\ "u_cor" \in cfg.given => "uhbt" \in cfg.given
    /\ "v_cor" \in cfg.given => "vhbt" \in cfg.given
    /\ "h_u" \in cfg.given => "FA_u" \in cfg.given
    /\ "h_v" \in cfg.given => "FA_v" \in cfg.given
=============================================================================
