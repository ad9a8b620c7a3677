---------------------------- MODULE KernelBridges ----------------------------
(***************************************************************************)
(* The bridges between the Fortran host and the kernels: the               *)
(* turbotmp_mom_*_bridge.cpp files of src/src/mom_kernels.  A bridge makes *)
(* a device array for every array the host passes, copies it in over its   *)
(* whole allocation, runs the kernel, copies the results back over their   *)
(* whole allocations, and frees every device array.  An array that may be  *)
(* missing on the host (data == nullptr) is made, copied and returned only *)
(* when it is there: cfg.given holds those.                                *)
(*                                                                         *)
(* Here is which arrays each bridge passes and which it returns.  Metrics  *)
(* are grouped as in the kernels' modules.                                 *)
(***************************************************************************)
EXTENDS ContinuityLoops, CoriolisLoops, HorViscLoops, VertFricLoops

Metrics == {"cell", "corner", "face_u", "face_v"}

-----------------------------------------------------------------------------
\* Continuity

continuity_ppm_passed(cfg) ==
    {"u", "v", "hin", "h", "uh", "vh", "mask2dT", "cell_x", "cell_y", "face_u", "face_v"} \cup cfg.given
continuity_ppm_returned(cfg) == {"h", "uh", "vh"} \cup GivenOf(cfg, OptionalOutputs)

continuity_ppm_2d_fluxes_passed ==
    {"u", "v", "h", "uhbt", "vhbt", "mask2dT", "cell_x", "cell_y", "face_u", "face_v"}
continuity_ppm_2d_fluxes_returned == {"uhbt", "vhbt"}

-----------------------------------------------------------------------------
\* Coriolis; the Stokes accelerations go out and come back, though no kernel that
\* runs sets them

coradcalc_tr_passed(cfg) ==
    {"u", "v", "h", "uh", "vh", "CAu", "CAv", "RV", "PV", "CAuS", "CAvS"} \cup Metrics \cup cfg.given
coradcalc_tr_returned(cfg) == {"CAu", "CAv", "RV", "PV", "CAuS", "CAvS"} \cup cfg.given

-----------------------------------------------------------------------------
\* Horizontal viscosity.  The strains and coefficients of the GME scheme and every
\* diagnostic are always there; fields of other components may be missing.

GMEFields ==
    {"sh_xx_bt", "sh_xy_bt", "GME_effic_h", "GME_effic_q", "KH_u_GME", "KH_v_GME"}
GMEStresses == {"GME_coeff_h", "GME_coeff_q", "str_xx_GME", "str_xy_GME", "FrictWork_GME"}
HorViscDiagnostics == HDiagnostics \cup QDiagnostics \cup LimitsAtH \cup LimitsAtQ

\* Those there are: continuity thicknesses, and fields of MEKE, VarMix and STOCH
horizontal_viscosity_tr_optional(cfg) ==
    When(On(cfg, "use_cont_huv"), {"hu_cont", "hv_cont"})
    \cup (cfg.on \cap MixingFields)
    \cup When(On(cfg, "skeb_use_frict"), {"skeb_diss"})

horizontal_viscosity_tr_passed(cfg) ==
    {"u", "v", "h", "uh", "vh", "diffu", "diffv", "u_smooth", "v_smooth"} \cup Metrics
    \cup GMEFields \cup GMEStresses \cup HorViscDiagnostics \cup horizontal_viscosity_tr_optional(cfg)

horizontal_viscosity_tr_returned(cfg) ==
    {"diffu", "diffv"} \cup GMEStresses \cup HorViscDiagnostics
    \cup (horizontal_viscosity_tr_optional(cfg)
          \cap {"hu_cont", "hv_cont", "MEKE_mom_src", "MEKE_mom_src_bh", "skeb_diss"})

smooth_x9_h_passed == {"cell", "field_h"}
smooth_x9_h_returned == {"field_h"}
smooth_x9_uv_passed == {"face_u", "face_v", "field_u", "field_v"}
smooth_x9_uv_returned == {"field_u", "field_v"}
smooth_gme_h_pass_passed == {"cell", "GME_flux_h"}
smooth_gme_h_pass_returned == {"GME_flux_h"}
smooth_gme_q_pass_passed == {"corner", "GME_flux_q"}
smooth_gme_q_pass_returned == {"GME_flux_q"}

hor_visc_gme_bt_returned ==
    {"h", "dudx_bt", "dvdy_bt", "dvdx_bt", "dudy_bt", "sh_xx_bt", "sh_xy_bt", "GME_effic_h", "GME_effic_q"}
hor_visc_gme_bt_passed == Metrics \cup {"ubtav", "vbtav"} \cup hor_visc_gme_bt_returned

-----------------------------------------------------------------------------
\* Vertical friction and interface heights

vertvisc_limit_vel_passed(cfg) == {"u", "v", "cell", "face_u", "face_v", "h_u", "h_v"} \cup cfg.given
vertvisc_limit_vel_returned(cfg) == {"u", "v"} \cup cfg.given

vertvisc_remnant_tr_passed(cfg) ==
    {"visc_rem_u", "visc_rem_v", "face_u", "face_v", "a_u", "a_v", "h_u", "h_v"} \cup cfg.given
vertvisc_remnant_tr_returned == {"visc_rem_u", "visc_rem_v"}

vertfpmix_tr_returned == {"u", "v", "uE_u", "vE_v", "uInc_u", "vInc_v"}
vertfpmix_tr_passed ==
    {"hbl_h", "taux", "tauy", "Us_x", "Us_y", "cell", "face_u", "face_v", "h_u", "h_v"} \cup vertfpmix_tr_returned

vertvisc_coef_tr_passed(cfg) ==
    {"u", "v", "h", "dz", "cell", "corner", "face_u", "face_v", "a_u", "h_u", "a_v", "h_v"} \cup cfg.given
vertvisc_coef_tr_returned(cfg) ==
    {"a_u", "h_u", "a_v", "h_v"} \cup GivenOf(cfg, GL90Coupling \cup ShelfCoupling \cup CoefOutputs)

vertvisc_tr_passed(cfg) ==
    {"u", "v", "h", "cell", "face_u", "face_v", "a_u", "h_u", "a_v", "h_v"} \cup cfg.given
vertvisc_tr_returned(cfg) ==
    {"u", "v"} \cup GivenOf(cfg, TendencyOutputs \cup StressOutputs \cup WorkOutputs \cup VelocityReports)

thickness_to_dz_3d_passed == {"h", "dz", "spv_avg"}
thickness_to_dz_3d_returned == {"dz"}
=============================================================================
