---------------------------- MODULE MCKernelCalls ----------------------------
(* The kernels under their schemes and options.  PPM takes the optional arrays *)
(* in every combination, the others all of them or none.                       *)
EXTENDS KernelCalls

MCSides == {"direct", "transposed"}

ZonalOptions == {"uhbt", "visc_rem_u", "u_cor", "du_cor", "FA_u", "h_u"}

BothWays(given) == given \cup {Partner(a) : a \in given}

\* The same options in both directions, or all of them but for one direction's
GivenSets ==
    {BothWays(z) : z \in SUBSET ZonalOptions}
    \cup {BothWays(ZonalOptions) \ missing :
             missing \in {{"vhbt", "v_cor"}, {"v_cor"}, {"dv_cor"}, {"FA_v", "h_v"}, {"h_v"}}}

Config(scheme, aggress, given) ==
    [scheme |-> scheme, aggress |-> aggress, given |-> given, on |-> {}, symmetric |-> FALSE,
     stencil |-> SchemeStencil(scheme),
     halo |-> IF scheme = "PPM" THEN 3 ELSE 2]

AllOptions == BothWays(ZonalOptions)

ContinuityCalls ==
    {[kernel |-> "continuity_PPM", x_first |-> x_first, cfg |-> cfg] :
        x_first \in BOOLEAN,
        cfg \in {Config("PPM", FALSE, given) : given \in GivenSets}
                \cup {Config(scheme, aggress, given) :
                        scheme \in Schemes, aggress \in BOOLEAN, given \in {{}, AllOptions}}}
    \cup
    {[kernel |-> "continuity_PPM_2d_fluxes", x_first |-> TRUE, cfg |-> Config(scheme, FALSE, {})] :
        scheme \in Schemes}

\* The options widen what is read, each in a part of its own: all or none.  The
\* memory layout, symmetric or not, moves no box but those of the outputs.
CoriolisCall(scheme, flag, symmetric, given) ==
    [kernel |-> "coradcalc_tr", x_first |-> TRUE,
     cfg |-> [scheme |-> scheme, up3 |-> flag, En_Dis |-> flag, bound |-> flag, smooth |-> flag,
              symmetric |-> symmetric, given |-> given, on |-> {}, halo |-> coriolis_scheme_stencil(scheme)]]

CoriolisCalls ==
    {CoriolisCall(scheme, flag, FALSE, {}) : scheme \in CoriolisSchemes, flag \in BOOLEAN}
    \cup
    {CoriolisCall(scheme, flag, symmetric, Diagnostics) :
        scheme \in CoriolisSchemes, flag \in BOOLEAN, symmetric \in BOOLEAN}

\* Horizontal viscosity: each term in some set of options with the terms it
\* interacts with, and every diagnostic the options have values for
HorViscOptions ==
    {{"Laplacian"},
     {"biharmonic"},
     {"Laplacian", "biharmonic"},
     {"Laplacian", "bound_Kh", "Smagorinsky_Kh", "rescale_Kh", "anisotropic", "no_slip"},
     {"biharmonic", "bound_Ah", "Smagorinsky_Ah", "Leith_Ah", "Re_Ah", "use_circulation", "bound_Coriolis"},
     {"Laplacian", "biharmonic", "Smagorinsky_Kh", "Smagorinsky_Ah", "bound_Kh", "bound_Ah", "no_slip",
      "use_cont_huv", "debug", "MEKE_mom_src", "MEKE_mom_src_bh", "backscatter_Ro_c", "skeb_use_frict"},
     {"Laplacian", "biharmonic", "Leith_Kh", "Leith_Ah", "Modified_Leith", "use_beta_in_Leith", "bound_Ah",
      "MEKE_Ku", "MEKE_Au", "BS_struct", "res_scale_MEKE", "use_land_mask", "MEKE_mom_src", "FrictWork_bug"},
     {"Laplacian", "biharmonic", "use_Leithy", "use_beta_in_Leith", "bound_Kh"},
     {"Laplacian", "biharmonic", "use_Leithy", "Leith_Ah", "Smagorinsky_Kh", "Modified_Leith", "bound_Kh",
      "bound_Ah", "MEKE_mom_src", "MEKE_mom_src_bh"},
     {"Laplacian", "biharmonic", "EY24_EBT_BS", "bound_Kh", "bound_Ah", "MEKE_Ku", "BS_struct", "MEKE_mom_src",
      "MEKE_mom_src_bh", "skeb_use_frict"},
     {"Laplacian", "EY24_EBT_BS", "bound_Kh", "MEKE_Ku"},
     {"Laplacian", "Leith_Kh", "use_circulation"}}

DiagnosticsOf(on) ==
    {"NoSt", "ShSt", "FrictWork"}
    \cup When("Laplacian" \in on, {"Kh_h", "Kh_q", "grid_Re_Kh", "div_xx_h", "sh_xx_h", "vort_xy_q", "sh_xy_q"})
    \cup When("biharmonic" \in on, {"Ah_h", "Ah_q", "grid_Re_Ah", "FrictWork_bh"})
    \cup When("EY24_EBT_BS" \in on, {"BS_coeff_h", "BS_coeff_q"})

HorViscCall(kernel, symmetric, halo, on, given) ==
    [kernel |-> kernel, x_first |-> TRUE,
     cfg |-> [on |-> on, given |-> given, symmetric |-> symmetric, halo |-> halo]]

\* The halo is as narrow as the options allow
HorViscCalls ==
    {HorViscCall("horizontal_viscosity_tr", symmetric, IF AnyLeith([on |-> on]) THEN 3 ELSE 2, on,
                 IF symmetric THEN DiagnosticsOf(on) ELSE {}) :
        symmetric \in BOOLEAN, on \in HorViscOptions}

SmoothingCalls ==
    {HorViscCall(kernel, symmetric, 2, {}, {}) : kernel \in SmoothingKernels, symmetric \in BOOLEAN}

BarotropicStrainCalls ==
    {HorViscCall("hor_visc_gme_bt", symmetric, 3, {}, {}) : symmetric \in BOOLEAN}

\* Vertical friction: options with the arrays they work on
CoefOptions ==
    {<<{}, {}>>,
     <<{"harmonic_visc", "bottomdraglaw"},
       BothWays({"Kv_bbl_u", "bbl_thick_u", "Kv_shear", "Kv_shear_Bu", "hML_u", "Kv_u"})>>,
     <<{"bottomdraglaw", "dynamic_viscous_ML", "nkml"},
       BothWays({"Kv_bbl_u", "bbl_thick_u", "nkml_visc_u", "frac_shelf_u", "tbl_thick_shelf_u",
                 "Kv_tbl_shelf_u", "a1_shelf_u", "Ustar_2d", "hML_u", "Kv_v"})>>,
     <<{"use_GL90_in_SSW", "read_kappa_gl90", "Kv_extra_bbl", "bottomdraglaw"},
       BothWays({"a_u_gl90", "Kv_bbl_u", "bbl_thick_u", "Kv_shear", "kappa_gl90_2d", "kdgl90_struct", "Kv_gl90_u", "Kv_u"})>>,
     <<{"use_GL90_in_SSW", "use_GL90_N2", "fixed_LOTW_ML", "apply_LOTW_floor", "Kvml"},
       BothWays({"a_u_gl90", "Ustar_2d", "SpV_avg", "frac_shelf_u", "tbl_thick_shelf_u", "Kv_tbl_shelf_u",
                 "a1_shelf_u"})>>}

FrictionOptions ==
    {<<{}, {"taux", "tauy"}>>,
     <<{"direct_stress"}, BothWays({"taux", "Ray_u", "du_dt_str", "du_dt_visc", "taux_bot"})>>,
     <<{"do_GLwork", "do_du_dt_visc_gl90", "do_dv_dt_visc_gl90"},
       BothWays({"taux", "Ray_u", "a_u_gl90", "du_dt_visc", "du_dt_visc_gl90", "du_dt_str", "KE_u"})>>,
     <<{"StokesMixing", "do_report_u", "do_report_v"},
       BothWays({"taux", "Us_x", "a1_shelf_u", "taux_shelf", "taux_bot", "u_old", "vel_report_u", "dowrite_u"})>>,
     <<{"fpmix", "do_du_dt_visc_gl90", "do_report_u"},
       {"taux", "tauy", "Us_x", "Us_y", "Ray_u", "a_u_gl90", "du_dt_visc", "du_dt_visc_gl90", "u_old",
        "vel_report_u", "dowrite_u", "tauy_bot"}>>}

Reported == BothWays({"u_old", "vel_report_u", "dowrite_u"})

FrictionCalls ==
    UNION {
      {HorViscCall("vertvisc_coef_tr", symmetric, 1, o[1], o[2]) : o \in CoefOptions}
      \cup {HorViscCall("vertvisc_tr", symmetric, 1, o[1], o[2]) : o \in FrictionOptions}
      \cup {HorViscCall("vertvisc_limit_vel", symmetric, 1, on, IF on = {} THEN {} ELSE Reported) :
               on \in SUBSET {"do_report_u", "do_report_v"}}
      \cup {HorViscCall("vertvisc_remnant_tr", symmetric, 1, {}, given) : given \in {{}, {"Ray_u", "Ray_v"}}}
      \cup {HorViscCall("vertfpmix_tr", symmetric, 1, {}, {})}
      \cup {HorViscCall("thickness_to_dz_3d", symmetric, 1, on, {}) : on \in {{}, {"has_spv"}}}
      : symmetric \in BOOLEAN}

MCCalls ==
    FrictionCalls \cup ContinuityCalls \cup CoriolisCalls \cup HorViscCalls \cup SmoothingCalls \cup BarotropicStrainCalls

\* The smoother that has a rotation to keep
NinePointCalls == {HorViscCall("smooth_x9_h", symmetric, 2, {}, {}) : symmetric \in BOOLEAN}
=============================================================================
