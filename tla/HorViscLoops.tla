---------------------------- MODULE HorViscLoops ----------------------------
(***************************************************************************)
(* The horizontal viscosity, src/src/mom_kernels/mom_hor_visc.cpp, as the  *)
(* sequence of the loops of horizontal_viscosity_tr, and the smoothing and *)
(* barotropic strain kernels of the same file.                             *)
(*                                                                         *)
(* cfg.on holds the options of CS that are set, the optional fields that   *)
(* are allocated, and Re_Ah and backscatter_Ro_c when they are not zero;   *)
(* cfg.given the diagnostics that are wanted.  Metrics and coefficients    *)
(* are grouped by where they live: cell, corner, face_u and face_v.        *)
(*                                                                         *)
(* One block of layers is one call here: the scratch arrays are shared by  *)
(* the blocks, and what one block reads of them it has to have written.    *)
(* Ah, Kh, Shear_mag, hrat_min, visc_bound_rem and vert_vort_mag hold      *)
(* values at thickness points first and at corners later, as in the code.  *)
(*                                                                         *)
(* Left out, since the call aborts: open boundaries, QG Leith, GME, ZB2020 *)
(* and Leith+E with smoothing.                                             *)
(***************************************************************************)
EXTENDS KernelLoops

HorViscSwitches ==
    {"Laplacian", "biharmonic", "Smagorinsky_Kh", "Smagorinsky_Ah", "Leith_Kh", "Leith_Ah",
     "use_Leithy", "Modified_Leith", "use_beta_in_Leith", "bound_Kh", "bound_Ah", "bound_Coriolis",
     "EY24_EBT_BS", "anisotropic", "rescale_Kh", "res_scale_MEKE", "Re_Ah", "no_slip",
     "use_circulation", "use_cont_huv", "use_land_mask", "debug", "FrictWork_bug",
     "backscatter_Ro_c", "skeb_use_frict"}

MixingFields == {"MEKE_Ku", "MEKE_Au", "BS_struct", "MEKE_mom_src", "MEKE_mom_src_bh"}

HDiagnostics ==
    {"NoSt", "Ah_h", "Kh_h", "grid_Re_Kh", "grid_Re_Ah", "div_xx_h", "sh_xx_h", "BS_coeff_h",
     "FrictWork", "FrictWork_bh"}
QDiagnostics == {"ShSt", "Ah_q", "Kh_q", "vort_xy_q", "sh_xy_q", "BS_coeff_q"}

LimitsAtH == {"visc_limit_h", "visc_limit_h_flag", "visc_limit_h_frac"}
LimitsAtQ == {"visc_limit_q", "visc_limit_q_flag", "visc_limit_q_frac"}

AnyLeith(cfg) == cfg.on \cap {"Leith_Kh", "Leith_Ah", "use_Leithy"} # {}
AnySmagorinsky(cfg) == cfg.on \cap {"Smagorinsky_Kh", "Smagorinsky_Ah"} # {}
AnyBound(cfg) == cfg.on \cap {"bound_Kh", "bound_Ah"} # {}
find_FrictWork(cfg) == Wanted(cfg, "FrictWork") \/ On(cfg, "MEKE_mom_src")
find_FrictWork_bh(cfg) == Wanted(cfg, "FrictWork_bh") \/ On(cfg, "MEKE_mom_src_bh")

\* Options that the kernel takes together and never checks.  Without one of these
\* it reads scratch memory nobody set, or leaves a wanted diagnostic as it was.
OptionsGoTogether(cfg) ==
    /\ On(cfg, "use_Leithy") => {"Laplacian", "biharmonic"} \subseteq cfg.on
    /\ {"biharmonic", "bound_Ah", "bound_Kh"} \subseteq cfg.on => On(cfg, "Laplacian")
    /\ {"biharmonic", "EY24_EBT_BS"} \subseteq cfg.on => AnyBound(cfg)
    /\ On(cfg, "EY24_EBT_BS") => On(cfg, "MEKE_Ku")
    /\ find_FrictWork_bh(cfg) => On(cfg, "biharmonic")
    /\ {"MEKE_mom_src", "backscatter_Ro_c"} \subseteq cfg.on => find_FrictWork_bh(cfg)
    /\ On(cfg, "MEKE_mom_src_bh") => On(cfg, "MEKE_mom_src")
    /\ On(cfg, "skeb_use_frict") => find_FrictWork(cfg)
    /\ cfg.given \cap {"Kh_h", "Kh_q", "grid_Re_Kh", "div_xx_h", "sh_xx_h", "vort_xy_q", "sh_xy_q"} # {}
          => On(cfg, "Laplacian")
    /\ cfg.given \cap {"Ah_h", "Ah_q", "grid_Re_Ah"} # {} => On(cfg, "biharmonic")
    /\ cfg.given \cap {"BS_coeff_h", "BS_coeff_q"} # {} => On(cfg, "EY24_EBT_BS")

-----------------------------------------------------------------------------
\* Boxes

grow_by(box, lo_i, lo_j, hi_i, hi_j) ==
    [w |-> box.w + lo_i, e |-> box.e + hi_i, s |-> box.s + lo_j, n |-> box.n + hi_j]

\* Leith+E needs one more cell below for the values at thickness points
kh_lo(cfg) == IF cfg.on \cap {"use_Leithy", "debug"} # {} \/ cfg.symmetric THEN 1 ELSE 0

bxKh(cfg) == grow_by(bx0, kh_lo(cfg), kh_lo(cfg), 1, 1)
bxKh_i(cfg) == grow_by(bx0, kh_lo(cfg), 0, 1, 0)
bxKh_j(cfg) == grow_by(bx0, 0, kh_lo(cfg), 0, 1)
bxHstr(cfg) == grow_by(bxQ(cfg), 0, 0, 1, 1)
bxQstr == grow_by(bx0, 1, 1, 0, 0)
bxHgrad(cfg) == grow_by(bxQ(cfg), 1, 1, 2, 2)
bxQshear == grow_by(bx0, 2, 2, 1, 1)
bxQvsmooth(cfg) == grow_by(bxKh(cfg), 1, 1, 0, 0)

\* The corners around a cell, and the cells around a corner
CornersAround == {-1, 0} \X {-1, 0}
CellsAround == {0, 1} \X {0, 1}

-----------------------------------------------------------------------------
\* Strain

\* The velocity gradients along the axes, and their difference
AlongX(a) == At({a, "face_u"}, Here \cup West) \cup At({"cell"}, Here)
AlongY(a) == At({a, "face_v"}, Here \cup South) \cup At({"cell"}, Here)

\* The velocity gradients across the axes
AcrossX(a) == At({a, "face_v"}, Here \cup East) \cup At({"corner"}, Here)
AcrossY(a) == At({a, "face_u"}, Here \cup North) \cup At({"corner"}, Here)

\* The corners where vorticity is needed
bxVort(cfg) == grow_by(IF AnyLeith(cfg) THEN bxKh(cfg) ELSE bx0, 2, 2, 1, 1)
bxHtens(cfg) == IF AnyLeith(cfg) THEN grow_by(bx0, 2, 2, 2, 2) ELSE bxHgrad(cfg)

strain_gradients(cfg) ==
    <<Loop(bxHtens(cfg), {Set({"dudx"}, AlongX("u")), Set({"dvdy"}, AlongY("v")),
                          Set({"sh_xx"}, AlongX("u") \cup AlongY("v"))}),
      Loop(bxVort(cfg), {Set({"dvdx"}, AcrossX("v")), Set({"dudy"}, AcrossY("u"))})>>
    \o (IF On(cfg, "use_Leithy")
        THEN <<Loop(bxHstr(cfg), {Set({"sh_xx_smooth"}, AlongX("u_smooth") \cup AlongY("v_smooth"))}),
               Loop(bxQvsmooth(cfg), {Set({"dvdx_smooth"}, AcrossX("v_smooth")),
                                      Set({"dudy_smooth"}, AcrossY("u_smooth"))})>>
        ELSE <<>>)
    \o Sets(Wanted(cfg, "NoSt"), bx0, "NoSt", At({"sh_xx"}, Here))

strain_thickness(cfg) ==
    LET hs == {"h"} \cup When(On(cfg, "use_land_mask"), {"cell"})
        cont == On(cfg, "use_cont_huv")
    IN  Sets(TRUE, grow_by(bx0, 2, 2, 1, 2), "h_u", IF cont THEN At({"hu_cont"}, Here) ELSE At(hs, Here \cup East))
        \o Sets(TRUE, grow_by(bx0, 2, 2, 2, 1), "h_v", IF cont THEN At({"hv_cont"}, Here) ELSE At(hs, Here \cup North))

\* Shearing strain, and the Laplacian of velocity one point beyond the velocity
strain_shear(cfg) ==
    Sets(TRUE, bxQshear, "sh_xy", At({"dvdx", "dudy", "corner"}, Here))
    \o Sets(Wanted(cfg, "ShSt"), bxQshear, "ShSt", At({"sh_xy"}, Here))
    \o Sets(On(cfg, "use_Leithy"), bxQstr, "sh_xy_smooth", At({"dvdx_smooth", "dudy_smooth", "corner"}, Here))
    \o Sets(On(cfg, "biharmonic"), grow_by(bxU(cfg), 1, 1, 1, 1), "Del2u",
            At({"sh_xy", "corner"}, Here \cup South) \cup At({"sh_xx", "cell"}, Here \cup East) \cup At({"face_u"}, Here))
    \o Sets(On(cfg, "biharmonic"), grow_by(bxV(cfg), 1, 1, 1, 1), "Del2v",
            At({"sh_xy", "corner"}, Here \cup West) \cup At({"sh_xx", "cell"}, Here \cup North) \cup At({"face_v"}, Here))

\* The circulation form reads the velocities again, and only without no_slip
strain_vorticity(cfg) ==
    LET circulation == On(cfg, "use_circulation") /\ ~On(cfg, "no_slip")
    IN  Sets(AnyLeith(cfg) \/ Wanted(cfg, "vort_xy_q"), bxVort(cfg), "vort_xy",
             IF circulation THEN AcrossX("v") \cup AcrossY("u") ELSE At({"dvdx", "dudy", "corner"}, Here))
        \o Sets(On(cfg, "use_Leithy"), bxQvsmooth(cfg), "vort_xy_smooth",
                At({"dvdx_smooth", "dudy_smooth", "corner"}, Here))

hor_visc_strain(cfg) ==
    strain_gradients(cfg) \o strain_thickness(cfg) \o strain_shear(cfg) \o strain_vorticity(cfg)

-----------------------------------------------------------------------------
\* Leith viscosity: the gradients of vorticity and of divergence

leith_vorticity(cfg) ==
    LET dx(a) == At({a, "face_u"}, Here \cup West) \cup At({"corner"}, Here)
        dy(a) == At({a, "face_v"}, Here \cup South) \cup At({"corner"}, Here)
        leithy == On(cfg, "use_Leithy")
    IN  Sets(TRUE, grow_by(bxKh_i(cfg), 1, 2, 1, 1), "vort_xy_dx", dx("vort_xy"))
        \o Sets(TRUE, grow_by(bxKh_j(cfg), 2, 1, 1, 1), "vort_xy_dy", dy("vort_xy"))
        \o Sets(leithy, grow_by(bxKh(cfg), 0, 1, 0, 0), "vort_xy_dx_smooth", dx("vort_xy_smooth"))
        \o Sets(leithy, grow_by(bxKh(cfg), 1, 0, 0, 0), "vort_xy_dy_smooth", dy("vort_xy_smooth"))
        \o Sets(TRUE, bxQvsmooth(cfg), "Del2vort_q",
                At({"vort_xy_dx", "face_v"}, Here \cup East) \cup At({"vort_xy_dy", "face_u"}, Here \cup North)
                \cup At({"corner"}, Here))

\* Without Modified_Leith the divergence counts as zero
leith_divergence(cfg) ==
    LET modified(reads) == IF On(cfg, "Modified_Leith") THEN reads ELSE {}
    IN  (IF On(cfg, "Modified_Leith")
         THEN <<Scratch(DataBox(cfg), {"div_xx"}),
                Loop(grow_by(bxKh(cfg), 1, 1, 1, 1), {Set({"div_xx"}, At({"dudx", "dvdy"}, Here))})>>
         ELSE <<>>)
        \o Sets(TRUE, grow_by(bxKh_i(cfg), 1, 1, 0, 1), "div_xx_dx",
                modified(At({"div_xx"}, Here \cup East) \cup At({"face_u"}, Here)))
        \o Sets(TRUE, grow_by(bxKh_j(cfg), 1, 1, 1, 0), "div_xx_dy",
                modified(At({"div_xx"}, Here \cup North) \cup At({"face_v"}, Here)))
        \o Sets(TRUE, bxKh(cfg), "grad_div_mag_h",
                modified(At({"div_xx_dx"}, Here \cup West) \cup At({"div_xx_dy"}, Here \cup South)))
        \o Sets(TRUE, bxQstr, "grad_div_mag_q",
                modified(At({"div_xx_dx"}, Here \cup North) \cup At({"div_xx_dy"}, Here \cup East)))

\* Beta joins the vorticity gradients after the Laplacian has been taken of them
hor_visc_leith_grad_a(cfg) ==
    leith_vorticity(cfg)
    \o leith_divergence(cfg)
    \o Changes(On(cfg, "use_beta_in_Leith"), grow_by(bx0, 1, 2, 1, 1), "vort_xy_dx", At({"cell"}, Here \cup North))
    \o Changes(On(cfg, "use_beta_in_Leith"), grow_by(bx0, 2, 1, 1, 1), "vort_xy_dy", At({"cell"}, Here \cup East))

hor_visc_leith_grad_b(cfg) ==
    Sets(TRUE, bxKh(cfg), "grad_vort_mag_h", At({"vort_xy_dx"}, Here \cup South) \cup At({"vort_xy_dy"}, Here \cup West))
    \o Sets(TRUE, bxQstr, "grad_vort_mag_q", At({"vort_xy_dx"}, Here \cup East) \cup At({"vort_xy_dy"}, Here \cup North))
    \o Sets(On(cfg, "use_Leithy"), bxKh(cfg), "vert_vort_mag_smooth",
            At({"vort_xy_dx_smooth"}, Here \cup South) \cup At({"vort_xy_dy_smooth"}, Here \cup West))

\* The vorticity compared at a thickness point is the one at the corner to its northeast
hor_visc_leithy_m(cfg) ==
    Sets(TRUE, bxKh(cfg), "m_leithy",
         At({"Del2vort_q"}, CornersAround) \cup At({"vert_vort_mag", "vort_xy_smooth", "cell", "corner"}, Here))

hor_visc_leithy_ah(cfg) ==
    Sets(TRUE, bxKh(cfg), "Ah",
         At({"Del2vort_q"}, CornersAround) \cup At({"m_leithy", "vert_vort_mag_smooth", "cell"}, Here))

hor_visc_leithy_ah_h(cfg) == Sets(TRUE, bxKh(cfg), "Ah_h", At({"Ah"}, Here))

-----------------------------------------------------------------------------
\* Viscosities, at thickness points and then at corners

\* Kh from its background to its bound.  metric is where the coefficients live,
\* at which offsets MEKE_Ku is averaged.
KhSteps(cfg, box, metric, average) ==
    LET when(condition, reads) == Changes(condition, box, "Kh", reads)
    IN  Sets(TRUE, box, "Kh", At({metric}, Here))
        \o when(On(cfg, "Smagorinsky_Kh"), At({metric, "Shear_mag"}, Here))
        \o when(On(cfg, "Leith_Kh"), At({metric, "vert_vort_mag"}, Here))
        \o when(On(cfg, "rescale_Kh"), At({metric}, Here))
        \o when(TRUE, {})
        \o when(On(cfg, "MEKE_Ku") /\ ~On(cfg, "EY24_EBT_BS"),
                At({"MEKE_Ku"} \cup When(On(cfg, "BS_struct"), {"BS_struct"}), average)
                \cup At(When(On(cfg, "res_scale_MEKE"), {metric}), Here))
        \o when(On(cfg, "anisotropic"), At({metric}, Here))
        \o (IF {"bound_Kh", "bound_Ah"} \subseteq cfg.on
            THEN <<Loop(box, {Set({"visc_bound_rem", "Kh"}, At({"Kh", "hrat_min", metric}, Here))})>>
            ELSE when(On(cfg, "bound_Kh"), At({"hrat_min", metric}, Here)))

\* Ah from its background: the strains' part, and then the rest up to its bound
AhFromStrain(cfg, box, metric, Del2vort) ==
    Sets(TRUE, box, "Ah", At({metric}, Here))
    \o Changes(On(cfg, "Smagorinsky_Ah"), box, "Ah", At({metric, "Shear_mag"}, Here))
    \o Changes(On(cfg, "Leith_Ah"), box, "Ah", At({"Del2vort_q"}, Del2vort) \cup At({metric}, Here))

AhToBound(cfg, box, metric, average, velocities) ==
    Changes(On(cfg, "MEKE_Au"), box, "Ah", At({"MEKE_Au"}, average))
    \o Sets(On(cfg, "Re_Ah"), box, "Ah", velocities \cup At({metric}, Here))
    \o Changes(On(cfg, "bound_Ah"), box, "Ah",
               At({"hrat_min", metric} \cup When(On(cfg, "bound_Kh"), {"visc_bound_rem"}), Here))

\* How close Ah is to where backscatter shuts off: the flag is raised, never lowered
BackscatterLimits(box, limit, flag, frac, metric) ==
    <<Loop(box, {Set({limit}, At({"hrat_min", metric}, Here)),
                 Set({frac}, At({"Ah", "hrat_min", metric}, Here)),
                 Set({flag}, At({flag, "Ah", "hrat_min", metric}, Here))})>>

VelocitiesAtH == At({"u"}, Here \cup West) \cup At({"v"}, Here \cup South)
VelocitiesAtQ == At({"u"}, Here \cup North) \cup At({"v"}, Here \cup East)

hor_visc_h_coeffs_a(cfg) ==
    LET box == bxKh(cfg)
        wanted(a, reads) == Sets(Wanted(cfg, a), bx0, a, reads)
        Laplacian ==
            Sets(AnyLeith(cfg), box, "vert_vort_mag", At({"grad_vort_mag_h", "grad_div_mag_h"}, Here))
            \o KhSteps(cfg, box, "cell", Here)
            \o Sets(On(cfg, "use_Leithy"), box, "Kh", {})
            \o Sets(Wanted(cfg, "Kh_h") \/ On(cfg, "debug"), box, "Kh_h", At({"Kh"}, Here))
            \o wanted("grid_Re_Kh", VelocitiesAtH \cup At({"Kh", "cell"}, Here))
            \o wanted("div_xx_h", At({"dudx", "dvdy"}, Here))
            \o wanted("sh_xx_h", At({"sh_xx"}, Here))
    IN  Sets(AnySmagorinsky(cfg), box, "Shear_mag", At({"sh_xx"}, Here) \cup At({"sh_xy"}, CornersAround))
        \o Sets(AnyBound(cfg), box, "hrat_min",
                At({"h_u"}, Here \cup West) \cup At({"h_v"}, Here \cup South) \cup At({"h"}, Here))
        \o (IF On(cfg, "Laplacian") THEN Laplacian ELSE <<>>)
        \o Sets(TRUE, bxHstr(cfg), "str_xx", IF On(cfg, "Laplacian") THEN At({"Kh", "sh_xx"}, Here) ELSE {})
        \o Changes(On(cfg, "anisotropic"), bxHstr(cfg), "str_xx", At({"sh_xy"}, CornersAround) \cup At({"cell"}, Here))
        \o (IF On(cfg, "biharmonic") THEN AhFromStrain(cfg, box, "cell", CornersAround) ELSE <<>>)

\* Backscatter, where Ah is not too close to its limit
hor_visc_backscatter_h(cfg) ==
    LET coefficient == At({"visc_limit_h_flag", "MEKE_Ku"} \cup When(On(cfg, "BS_struct"), {"BS_struct"}), Here)
    IN  <<Loop(bxHstr(cfg),
               {Set({"str_xx"}, coefficient \cup At({"str_xx", "sh_xx"}, Here)),
                Set(When(Wanted(cfg, "BS_coeff_h"), {"BS_coeff_h"}), coefficient)})>>

hor_visc_backscatter_q(cfg) ==
    LET coefficient == At({"visc_limit_q_flag"}, Here)
                       \cup At({"MEKE_Ku"} \cup When(On(cfg, "BS_struct"), {"BS_struct"}), CellsAround)
    IN  <<Loop(bxQstr,
               {Set({"str_xy"}, coefficient \cup At({"str_xy", "sh_xy"}, Here)),
                Set(When(Wanted(cfg, "BS_coeff_q"), {"BS_coeff_q"}), coefficient)})>>

\* Ah at thickness points to its bound, and the biharmonic part of str_xx.  Leith+E
\* takes Kh from Ah, and keeps both in the diagnostics to average them at corners.
h_biharmonic(cfg) ==
    LET box == bxKh(cfg)
        leithy == On(cfg, "use_Leithy")
        d_str == At({"Del2u", "face_u"}, Here \cup West) \cup At({"Del2v", "face_v"}, Here \cup South)
                 \cup At({"Ah", "cell"}, Here)
    IN  AhToBound(cfg, box, "cell", Here, VelocitiesAtH)
        \o (IF On(cfg, "EY24_EBT_BS")
            THEN BackscatterLimits(box, "visc_limit_h", "visc_limit_h_flag", "visc_limit_h_frac", "cell")
            ELSE <<>>)
        \o Sets(Wanted(cfg, "Ah_h") \/ On(cfg, "debug") \/ leithy, box, "Ah_h", At({"Ah"}, Here))
        \o (IF leithy THEN <<Loop(box, {Set({"Kh", "Kh_h"}, At({"m_leithy", "Ah"}, Here))})>> ELSE <<>>)
        \o Sets(Wanted(cfg, "grid_Re_Ah"), bx0, "grid_Re_Ah", VelocitiesAtH \cup At({"Ah", "cell"}, Here))
        \o <<Loop(bxHstr(cfg),
                  {Set({"str_xx"}, d_str \cup At({"str_xx"} \cup When(leithy, {"Kh", "sh_xx_smooth"}), Here)),
                   Set({"bhstr_xx"}, d_str \cup At({"h"}, Here))})>>

\* Thickness at corners; at coastal corners no_slip takes it, and hrat_min, from
\* the faces that are open.  Elsewhere they stay as they are.
q_thickness(cfg) ==
    LET thicknesses == At({"h_u"}, Here \cup North) \cup At({"h_v"}, Here \cup East)
        masks == At({"face_u"}, Here \cup North) \cup At({"face_v"}, Here \cup East) \cup At({"corner"}, Here)
        hrat_min == When(AnyBound(cfg), {"hrat_min"})
    IN  Sets(TRUE, bxQstr, "hq", thicknesses)
        \o Sets(AnyBound(cfg), bxQstr, "hrat_min", thicknesses \cup At({"hq"}, Here))
        \o (IF On(cfg, "no_slip")
            THEN <<Loop(bxQstr, {Set({"hq"} \cup hrat_min, thicknesses \cup masks \cup At({"hq"} \cup hrat_min, Here))})>>
            ELSE <<>>)

hor_visc_h_coeffs_b(cfg) ==
    (IF On(cfg, "biharmonic") THEN h_biharmonic(cfg) ELSE <<>>)
    \o (IF On(cfg, "EY24_EBT_BS") THEN hor_visc_backscatter_h(cfg) ELSE <<>>)
    \o (IF On(cfg, "biharmonic")
        THEN <<Loop(bxQstr, {Set({"dDel2vdx"}, AcrossX("Del2v")), Set({"dDel2udy"}, AcrossY("Del2u"))})>>
        ELSE <<>>)
    \o Sets(AnySmagorinsky(cfg), bxQstr, "Shear_mag", At({"sh_xy"}, Here) \cup At({"sh_xx"}, CellsAround))
    \o q_thickness(cfg)

q_Laplacian(cfg) ==
    LET leithy == On(cfg, "use_Leithy")
        wanted(a, from) == Sets(Wanted(cfg, a), bxQstr, a, At({from}, Here))
    IN  Sets(cfg.on \cap {"Leith_Kh", "Leith_Ah"} # {}, bxQstr, "vert_vort_mag",
             At({"grad_vort_mag_q", "grad_div_mag_q"}, Here))
        \o KhSteps(cfg, bxQstr, "corner", CellsAround)
        \o Sets(leithy, bxQstr, "Kh", At({"Kh_h"}, CellsAround))
        \o Sets(Wanted(cfg, "Kh_q") \/ On(cfg, "debug"), bxQstr, "Kh_q", At({"Kh"}, Here))
        \o wanted("vort_xy_q", "vort_xy")
        \o wanted("sh_xy_q", "sh_xy")
        \o Sets(TRUE, bxQstr, "str_xy", At({"Kh", IF leithy THEN "sh_xy_smooth" ELSE "sh_xy"}, Here))

q_biharmonic(cfg) ==
    LET d_str == At({"Ah", "dDel2vdx", "dDel2udy"}, Here)
    IN  AhFromStrain(cfg, bxQstr, "corner", Here)
        \o AhToBound(cfg, bxQstr, "corner", CellsAround, VelocitiesAtQ)
        \o (IF On(cfg, "EY24_EBT_BS")
            THEN BackscatterLimits(bxQstr, "visc_limit_q", "visc_limit_q_flag", "visc_limit_q_frac", "corner")
            ELSE <<>>)
        \o Sets(On(cfg, "use_Leithy"), bxQstr, "Ah", At({"Ah_h"}, CellsAround))
        \o Sets(Wanted(cfg, "Ah_q") \/ On(cfg, "debug"), bxQstr, "Ah_q", At({"Ah"}, Here))
        \o <<Loop(bxQstr, {Set({"str_xy"}, d_str \cup At({"str_xy"}, Here)),
                           Set({"bhstr_xy"}, d_str \cup At({"hq", "corner"}, Here))})>>

hor_visc_q_coeffs(cfg) ==
    (IF On(cfg, "Laplacian") THEN q_Laplacian(cfg) ELSE Sets(TRUE, bxQstr, "str_xy", {}))
    \o Changes(On(cfg, "anisotropic"), bxQstr, "str_xy", At({"sh_xx"}, CellsAround) \cup At({"corner"}, Here))
    \o (IF On(cfg, "biharmonic") THEN q_biharmonic(cfg) ELSE <<>>)
    \o (IF On(cfg, "EY24_EBT_BS") THEN hor_visc_backscatter_q(cfg) ELSE <<>>)

-----------------------------------------------------------------------------
\* Stress divergence and the work it does

\* The work of a stress on the flow: of the velocities as they are, or of the
\* transports over the thicknesses
WorkOf(cfg, str_xx, str_xy) ==
    LET us == {-1, 0} \X {-1, 0, 1}
        vs == {-1, 0, 1} \X {-1, 0}
        flow == IF On(cfg, "FrictWork_bug")
                THEN At({"u"}, us) \cup At({"v"}, vs)
                ELSE At({"uh", "h_u", "face_u"}, us) \cup At({"vh", "h_v", "face_v"}, vs)
    IN  flow \cup At({str_xx, "cell"}, Here) \cup At({str_xy, "corner"}, CornersAround)

frict_work(cfg, condition, work, str_xx, str_xy) ==
    Sets(condition, bx0, work, WorkOf(cfg, str_xx, str_xy))
    \o Changes(condition /\ On(cfg, "EY24_EBT_BS"), bx0, work, At({"visc_limit_h_flag"}, Here))

\* With a Rossby number scale the part that goes to MEKE depends on the shear
hor_visc_meke_mom_src(cfg) ==
    LET scaled == On(cfg, "backscatter_Ro_c")
        RoScl == At({"sh_xx"}, Here) \cup At({"sh_xy", "corner"}, CornersAround)
        work_bh == At({"FrictWork_bh"}, Here)
        bh == On(cfg, "MEKE_mom_src_bh")
        src == At({"MEKE_mom_src", "FrictWork"}, Here)
        src_bh == At({"MEKE_mom_src_bh"}, Here) \cup work_bh
    IN  IF scaled
        THEN <<Loop(bx0, {Set({"MEKE_mom_src"}, src \cup work_bh \cup RoScl),
                          Set(When(bh, {"MEKE_mom_src_bh"}), IF bh THEN src_bh \cup RoScl ELSE {})})>>
        ELSE Sets(TRUE, bx0, "MEKE_mom_src", src) \o Sets(bh, bx0, "MEKE_mom_src_bh", src_bh)

hor_visc_stress_div(cfg) ==
    Changes(TRUE, bxHstr(cfg), "str_xx", At({"h", "cell"}, Here))
    \o Changes(TRUE, bxQstr, "str_xy", At({"hq", "corner"}, Here))
    \o Sets(TRUE, bxU(cfg), "diffu", At({"str_xy", "corner"}, Here \cup South) \cup At({"str_xx", "cell"}, Here \cup East)
                                     \cup At({"face_u", "h_u"}, Here))
    \o Sets(TRUE, bxV(cfg), "diffv", At({"str_xy", "corner"}, Here \cup West) \cup At({"str_xx", "cell"}, Here \cup North)
                                     \cup At({"face_v", "h_v"}, Here))
    \o frict_work(cfg, find_FrictWork(cfg), "FrictWork", "str_xx", "str_xy")
    \o frict_work(cfg, find_FrictWork_bh(cfg), "FrictWork_bh", "bhstr_xx", "bhstr_xy")
    \o Changes(On(cfg, "skeb_use_frict"), bx0, "skeb_diss", At({"FrictWork", "h"}, Here))
    \o (IF On(cfg, "MEKE_mom_src") THEN hor_visc_meke_mom_src(cfg) ELSE <<>>)

-----------------------------------------------------------------------------
\* The whole call

HorViscScratch(cfg) ==
    <<Scratch(UBox(cfg), {"h_u", "Del2u", "div_xx_dx", "vort_xy_dy", "vort_xy_dy_smooth"}),
      Scratch(VBox(cfg), {"h_v", "Del2v", "div_xx_dy", "vort_xy_dx", "vort_xy_dx_smooth"}),
      Scratch(DataBox(cfg), {"sh_xx_smooth", "sh_xx", "dvdy", "dudx", "grad_div_mag_h", "grad_vort_mag_h",
                             "bhstr_xx", "str_xx", "m_leithy"}),
      Scratch(CornerBox(cfg), {"dudy_smooth", "dvdx_smooth", "dudy", "dvdx", "sh_xy_smooth", "sh_xy", "hq",
                               "grad_div_mag_q", "Del2vort_q", "grad_vort_mag_q", "vort_xy_smooth", "vort_xy",
                               "dDel2udy", "dDel2vdx", "bhstr_xy", "str_xy", "visc_bound_rem", "hrat_min",
                               "vert_vort_mag_smooth", "vert_vort_mag", "Shear_mag", "Kh", "Ah"})>>

\* Mutant: the sums over layers go on from what the last call left in them
HorViscZerosNoSums(cfg) ==
    (IF On(cfg, "EY24_EBT_BS")
     THEN <<Loop(DataBox(cfg), {Set(LimitsAtH, {})}), Loop(CornerBox(cfg), {Set(LimitsAtQ, {})})>>
     ELSE <<>>)
    \o Sets(On(cfg, "use_Leithy"), DataBox(cfg), "m_leithy", {})

\* What is set to zero before the layers are worked on
HorViscZeros(cfg) ==
    (IF On(cfg, "EY24_EBT_BS")
     THEN <<Loop(DataBox(cfg), {Set(LimitsAtH, {})}), Loop(CornerBox(cfg), {Set(LimitsAtQ, {})})>>
     ELSE <<>>)
    \o Sets(On(cfg, "use_Leithy"), DataBox(cfg), "m_leithy", {})
    \o (IF On(cfg, "MEKE_mom_src")
        THEN <<Loop(bx0, {Set({"MEKE_mom_src"} \cup (cfg.on \cap {"MEKE_mom_src_bh"}), {})})>>
        ELSE <<>>)

horizontal_viscosity_tr(cfg) ==
    HorViscScratch(cfg)
    \o HorViscZeros(cfg)
    \o hor_visc_strain(cfg)
    \o (IF AnyLeith(cfg) THEN hor_visc_leith_grad_a(cfg) \o hor_visc_leith_grad_b(cfg) ELSE <<>>)
    \o hor_visc_h_coeffs_a(cfg)
    \o (IF {"biharmonic", "use_Leithy"} \subseteq cfg.on
        THEN hor_visc_leithy_m(cfg) \o hor_visc_leithy_ah(cfg) \o hor_visc_leithy_ah_h(cfg)
        ELSE <<>>)
    \o hor_visc_h_coeffs_b(cfg)
    \o hor_visc_q_coeffs(cfg)
    \o hor_visc_stress_div(cfg)

-----------------------------------------------------------------------------
\* Smoothing, and the strain of the barotropic velocities

\* The point to the southeast is given the value of the one to the southwest: the
\* ninth point of the filter is never read.
smooth_x9_points == ({-1, 0, 1} \X {-1, 0, 1}) \ {<<1, -1>>}

\* Land points keep their value
smooth_x9_pass(box, alloc, field, mask) ==
    <<Loop(alloc, {Set({"f_prev"}, At({field}, Here))}),
      Loop(box, {Set({field}, At({"f_prev"}, smooth_x9_points) \cup At({mask}, {-1, 0, 1} \X {-1, 0, 1})
                              \cup At({field}, Here))})>>

\* Two passes, the first over a box one larger
smooth_x9(box, alloc, field, mask) ==
    <<Scratch(alloc, {"f_prev"})>>
    \o smooth_x9_pass(grow_by(box, 1, 1, 1, 1), alloc, field, mask)
    \o smooth_x9_pass(box, alloc, field, mask)

smooth_x9_h(cfg) == smooth_x9(bx0, DataBox(cfg), "field_h", "cell")

smooth_x9_uv(cfg) ==
    smooth_x9(bxU(cfg), UBox(cfg), "field_u", "face_u") \o smooth_x9(bxV(cfg), VBox(cfg), "field_v", "face_v")

smooth_gme_pass(alloc, flux, mask) ==
    <<Scratch(alloc, {"f_orig"}),
      Loop(alloc, {Set({"f_orig"}, At({flux}, Here))}),
      Loop(bx0, {Set({flux}, At({"f_orig", mask}, Here \cup East \cup West \cup North \cup South) \cup At({flux}, Here))})>>

smooth_gme_h_pass(cfg) == smooth_gme_pass(DataBox(cfg), "GME_flux_h", "cell")
smooth_gme_q_pass(cfg) == smooth_gme_pass(CornerBox(cfg), "GME_flux_q", "corner")

\* The GME efficiencies over the boxes that hor_visc_q_coeffs would use them on
hor_visc_gme_bt(cfg) ==
    LET bxQ0dvdx == grow_by(bxQ(cfg), 2, 2, 2, 2)
        bxH0dudx == grow_by(bx0, 2, 2, 2, 2)
        faces == At({"face_u"}, Here \cup West) \cup At({"face_v"}, Here \cup South)
        faces_q == At({"face_u"}, Here \cup North) \cup At({"face_v"}, Here \cup East)
    IN  <<Scratch(DataBox(cfg), {"htot"}),
          Loop(bxH0dudx, {Set({"dudx_bt"}, AlongX("ubtav")), Set({"dvdy_bt"}, AlongY("vbtav"))}),
          Loop(bxHgrad(cfg), {Set({"sh_xx_bt"}, At({"dudx_bt", "dvdy_bt"}, Here))}),
          Loop(bxQ0dvdx, {Set({"dvdx_bt"}, AcrossX("vbtav")), Set({"dudy_bt"}, AcrossY("ubtav"))}),
          Loop(bxQshear, {Set({"sh_xy_bt"}, At({"dvdx_bt", "dudy_bt", "corner"}, Here))}),
          Loop(bxH0dudx, {Set({"htot"}, At({"h"}, Here))}),
          Loop(bxHgrad(cfg), {Set({"GME_effic_h"}, faces \cup At({"dvdx_bt", "dudy_bt"}, CornersAround)
                                                   \cup At({"dudx_bt", "dvdy_bt", "htot", "cell"}, Here))}),
          Loop(bxQshear, {Set({"GME_effic_q"}, faces_q \cup At({"dudx_bt", "dvdy_bt", "htot"}, CellsAround)
                                               \cup At({"dvdx_bt", "dudy_bt", "corner"}, Here))})>>
=============================================================================
