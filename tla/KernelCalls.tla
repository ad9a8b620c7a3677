----------------------------- MODULE KernelCalls -----------------------------
(***************************************************************************)
(* One call of a kernel, and beside it the call of the same kernel on the  *)
(* transposed grid: the axes exchanged, the direction of the first sweep   *)
(* exchanged, and every zonal argument given as its meridional partner.    *)
(* The two share nothing.  They are run together so that their results can *)
(* be compared: DESIGN.md section 5 asks for answers that do not change    *)
(* when the grid is rotated, and the code has to be written twice, once    *)
(* for each direction, for that to hold.                                   *)
(*                                                                         *)
(* A call goes through its bridge: the arrays of the host are copied to    *)
(* the device, the kernel runs there, and the results are copied back.     *)
(***************************************************************************)
EXTENDS KernelBridges

CONSTANTS
    Calls,      \* the calls made: records as in CallOK
    Sides       \* {"direct", "transposed"}, or only the first

ASSUME SidesAssumption == "direct" \in Sides /\ Sides \subseteq {"direct", "transposed"}

VARIABLES
    call,       \* [Sides -> the call]
    todo,       \* [Sides -> the steps that are left]
    mem,        \* [Sides -> the memory of the device]
    returned    \* [Sides -> what has been copied back to arrays of the host]

vars == <<call, todo, mem, returned>>

-----------------------------------------------------------------------------
\* The arrays of the calls

ContinuityKernels == {"continuity_PPM", "continuity_PPM_2d_fluxes"}
SmoothingKernels == {"smooth_x9_h", "smooth_x9_uv", "smooth_gme_h_pass", "smooth_gme_q_pass"}
HorViscKernels == {"horizontal_viscosity_tr", "hor_visc_gme_bt"}
FrictionKernels ==
    {"vertvisc_limit_vel", "vertvisc_remnant_tr", "vertfpmix_tr", "vertvisc_coef_tr", "vertvisc_tr"}
Kernels ==
    ContinuityKernels \cup {"coradcalc_tr"} \cup HorViscKernels \cup SmoothingKernels
    \cup FrictionKernels \cup {"thickness_to_dz_3d"}

\* The arguments and results of one direction with those of the other
FrictionPairs ==
    {<<"taux", "tauy">>, <<"taux_shelf", "tauy_shelf">>, <<"taux_bot", "tauy_bot">>, <<"a_u", "a_v">>,
     <<"a_u_gl90", "a_v_gl90">>, <<"a1_shelf_u", "a1_shelf_v">>, <<"Ray_u", "Ray_v">>,
     <<"du_dt_visc", "dv_dt_visc">>, <<"du_dt_visc_gl90", "dv_dt_visc_gl90">>, <<"du_dt_str", "dv_dt_str">>,
     <<"KE_u", "KE_v">>, <<"u_old", "v_old">>, <<"vel_report_u", "vel_report_v">>, <<"dowrite_u", "dowrite_v">>,
     <<"Us_x", "Us_y">>, <<"uE_u", "vE_v">>, <<"uInc_u", "vInc_v">>, <<"frac_shelf_u", "frac_shelf_v">>,
     <<"Kv_bbl_u", "Kv_bbl_v">>, <<"bbl_thick_u", "bbl_thick_v">>, <<"tbl_thick_shelf_u", "tbl_thick_shelf_v">>,
     <<"Kv_tbl_shelf_u", "Kv_tbl_shelf_v">>, <<"nkml_visc_u", "nkml_visc_v">>, <<"hML_u", "hML_v">>,
     <<"Kv_u", "Kv_v">>, <<"Kv_gl90_u", "Kv_gl90_v">>}

Pairs ==
    {<<"u", "v">>, <<"uh", "vh">>, <<"uhbt", "vhbt">>, <<"visc_rem_u", "visc_rem_v">>,
     <<"u_cor", "v_cor">>, <<"du_cor", "dv_cor">>, <<"FA_u", "FA_v">>, <<"h_u", "h_v">>,
     <<"cell_x", "cell_y">>, <<"face_u", "face_v">>, <<"CAu", "CAv">>,
     <<"gradKEu", "gradKEv">>, <<"rv_x_v", "rv_x_u">>, <<"hu_cont", "hv_cont">>,
     <<"u_smooth", "v_smooth">>, <<"diffu", "diffv">>, <<"field_u", "field_v">>,
     <<"ubtav", "vbtav">>, <<"dudx_bt", "dvdy_bt">>, <<"dvdx_bt", "dudy_bt">>,
     <<"CAuS", "CAvS">>, <<"KH_u_GME", "KH_v_GME">>} \cup FrictionPairs

\* Options of one direction
OptionPairs == {<<"do_report_u", "do_report_v">>, <<"do_du_dt_visc_gl90", "do_dv_dt_visc_gl90">>}

OfU == {p[1] : p \in Pairs}
OfV == {p[2] : p \in Pairs}
AtCells == {"cell_x", "cell_y", "dudx_bt", "dvdy_bt"}
AtCorners ==
    {"corner", "RV", "PV", "dvdx_bt", "dudy_bt", "sh_xy_bt", "GME_effic_q", "GME_flux_q", "GME_coeff_q",
     "str_xy_GME", "Kv_shear_Bu"}
    \cup QDiagnostics \cup LimitsAtQ

\* The array that plays the same part on the transposed grid; fields at cells and
\* corners play their own
Partner(a) ==
    LET of(b) == {<<a, b>>, <<b, a>>} \cap (Pairs \cup OptionPairs) # {}
        partners == {p[1] : p \in Pairs \cup OptionPairs} \cup {p[2] : p \in Pairs \cup OptionPairs}
    IN  IF a \in partners THEN CHOOSE b \in partners : of(b) ELSE a

\* What the bridge of a call copies to the device, and what it copies back
Passed(c) ==
    CASE c.kernel = "continuity_PPM" -> continuity_ppm_passed(c.cfg)
      [] c.kernel = "continuity_PPM_2d_fluxes" -> continuity_ppm_2d_fluxes_passed
      [] c.kernel = "coradcalc_tr" -> coradcalc_tr_passed(c.cfg)
      [] c.kernel = "horizontal_viscosity_tr" -> horizontal_viscosity_tr_passed(c.cfg)
      [] c.kernel = "hor_visc_gme_bt" -> hor_visc_gme_bt_passed
      [] c.kernel = "smooth_x9_h" -> smooth_x9_h_passed
      [] c.kernel = "smooth_x9_uv" -> smooth_x9_uv_passed
      [] c.kernel = "smooth_gme_h_pass" -> smooth_gme_h_pass_passed
      [] c.kernel = "smooth_gme_q_pass" -> smooth_gme_q_pass_passed
      [] c.kernel = "vertvisc_limit_vel" -> vertvisc_limit_vel_passed(c.cfg)
      [] c.kernel = "vertvisc_remnant_tr" -> vertvisc_remnant_tr_passed(c.cfg)
      [] c.kernel = "vertfpmix_tr" -> vertfpmix_tr_passed
      [] c.kernel = "vertvisc_coef_tr" -> vertvisc_coef_tr_passed(c.cfg)
      [] c.kernel = "vertvisc_tr" -> vertvisc_tr_passed(c.cfg)
      [] c.kernel = "thickness_to_dz_3d" -> thickness_to_dz_3d_passed

Returned(c) ==
    CASE c.kernel = "continuity_PPM" -> continuity_ppm_returned(c.cfg)
      [] c.kernel = "continuity_PPM_2d_fluxes" -> continuity_ppm_2d_fluxes_returned
      [] c.kernel = "coradcalc_tr" -> coradcalc_tr_returned(c.cfg)
      [] c.kernel = "horizontal_viscosity_tr" -> horizontal_viscosity_tr_returned(c.cfg)
      [] c.kernel = "hor_visc_gme_bt" -> hor_visc_gme_bt_returned
      [] c.kernel = "smooth_x9_h" -> smooth_x9_h_returned
      [] c.kernel = "smooth_x9_uv" -> smooth_x9_uv_returned
      [] c.kernel = "smooth_gme_h_pass" -> smooth_gme_h_pass_returned
      [] c.kernel = "smooth_gme_q_pass" -> smooth_gme_q_pass_returned
      [] c.kernel = "vertvisc_limit_vel" -> vertvisc_limit_vel_returned(c.cfg)
      [] c.kernel = "vertvisc_remnant_tr" -> vertvisc_remnant_tr_returned
      [] c.kernel = "vertfpmix_tr" -> vertfpmix_tr_returned
      [] c.kernel = "vertvisc_coef_tr" -> vertvisc_coef_tr_returned(c.cfg)
      [] c.kernel = "vertvisc_tr" -> vertvisc_tr_returned(c.cfg)
      [] c.kernel = "thickness_to_dz_3d" -> thickness_to_dz_3d_returned

\* What a call changes in place: the new value is meant to come from the old
Updated(c) ==
    CASE c.kernel = "horizontal_viscosity_tr" -> When(On(c.cfg, "skeb_use_frict"), {"skeb_diss"})
      [] c.kernel = "smooth_x9_h" -> {"field_h"}
      [] c.kernel = "smooth_x9_uv" -> {"field_u", "field_v"}
      [] c.kernel = "smooth_gme_h_pass" -> {"GME_flux_h"}
      [] c.kernel = "smooth_gme_q_pass" -> {"GME_flux_q"}
      [] c.kernel = "vertfpmix_tr" -> {"u", "v"}
      [] c.kernel \in {"vertvisc_limit_vel", "vertvisc_tr"} ->
            {"u", "v"} \cup When(On(c.cfg, "do_report_u"), {"u_old"}) \cup When(On(c.cfg, "do_report_v"), {"v_old"})
      [] OTHER -> {}

Reports(c) ==
    When(On(c.cfg, "do_report_u"), {"vel_report_u", "dowrite_u"})
    \cup When(On(c.cfg, "do_report_v"), {"vel_report_v", "dowrite_v"})

\* Diagnostics that are set because the kernel needs them, or for the checksums
UsedInside(cfg) ==
    When(find_FrictWork(cfg), {"FrictWork"})
    \cup When(find_FrictWork_bh(cfg), {"FrictWork_bh"})
    \cup When(On(cfg, "use_Leithy"), {"Ah_h", "Kh_h"})
    \cup When({"debug", "Laplacian"} \subseteq cfg.on, {"Kh_h", "Kh_q"})
    \cup When({"debug", "biharmonic"} \subseteq cfg.on, {"Ah_h", "Ah_q"})

Results(c) ==
    CASE c.kernel = "continuity_PPM" -> {"h", "uh", "vh"} \cup (c.cfg.given \cap OptionalOutputs)
      [] c.kernel = "continuity_PPM_2d_fluxes" -> {"uhbt", "vhbt"}
      [] c.kernel = "coradcalc_tr" -> {"CAu", "CAv"} \cup c.cfg.given
      [] c.kernel = "horizontal_viscosity_tr" ->
            {"diffu", "diffv"} \cup c.cfg.given \cup UsedInside(c.cfg) \cup (c.cfg.on \cap {"MEKE_mom_src", "MEKE_mom_src_bh"})
            \cup When(On(c.cfg, "EY24_EBT_BS"), LimitsAtH \cup LimitsAtQ)
      [] c.kernel = "hor_visc_gme_bt" ->
            {"dudx_bt", "dvdy_bt", "dvdx_bt", "dudy_bt", "sh_xx_bt", "sh_xy_bt", "GME_effic_h", "GME_effic_q"}
      [] c.kernel = "vertvisc_limit_vel" -> Reports(c)
      [] c.kernel = "vertvisc_remnant_tr" -> {"visc_rem_u", "visc_rem_v"}
      [] c.kernel = "vertfpmix_tr" -> {"uE_u", "vE_v", "uInc_u", "vInc_v"}
      [] c.kernel = "vertvisc_coef_tr" ->
            {"a_u", "h_u", "a_v", "h_v"} \cup GivenOf(c.cfg, GL90Coupling \cup CoefOutputs)
            \cup When(Wanted(c.cfg, "frac_shelf_u"), ShelfCoupling)
      [] c.kernel = "vertvisc_tr" ->
            Reports(c) \cup GivenOf(c.cfg, TendencyOutputs \cup StressOutputs)
            \cup When(On(c.cfg, "do_GLwork"), WorkOutputs)
      [] c.kernel = "thickness_to_dz_3d" -> {"dz"}
      [] OTHER -> {}

Outputs(c) == Results(c) \cup Updated(c)

\* The box a caller's array is allocated on
Allocated(a, cfg) ==
    CASE a \in AtCorners -> CornerBox(cfg)
      [] a \in OfU \ (AtCells \cup AtCorners) -> UBox(cfg)
      [] a \in OfV \ (AtCells \cup AtCorners) -> VBox(cfg)
      [] OTHER -> DataBox(cfg)

\* What a call has to have computed: the core cells and the faces around them, or
\* the boxes that the next kernel reads
Required(a, c) ==
    CASE c.kernel \in ContinuityKernels ->
            (CASE a \in OfU -> GrowLoX(bx0)
               [] a \in OfV -> GrowLoY(bx0)
               [] OTHER -> bx0)
      [] c.kernel = "hor_visc_gme_bt" -> IF a \in AtCorners THEN bxQshear ELSE bxHgrad(c.cfg)
      [] c.kernel = "smooth_gme_q_pass" -> bx0
      [] OTHER ->
            (CASE a \in AtCorners -> bxQ(c.cfg)
               [] a \in OfU \ AtCorners -> bxU(c.cfg)
               [] a \in OfV \ AtCorners -> bxV(c.cfg)
               [] OTHER -> bx0)

CallOK(c) ==
    /\ c.kernel \in Kernels
    /\ c.x_first \in BOOLEAN
    /\ {"kernel", "x_first", "cfg"} \subseteq DOMAIN c
    /\ {"halo", "symmetric", "given", "on"} \subseteq DOMAIN c.cfg
    /\ c.cfg.halo \in Nat
    /\ c.cfg.symmetric \in BOOLEAN
    /\ CASE c.kernel \in ContinuityKernels ->
              /\ {"scheme", "aggress", "stencil"} \subseteq DOMAIN c.cfg
              /\ c.cfg.scheme \in Schemes
              /\ c.cfg.given \subseteq OptionalInputs \cup OptionalOutputs
              /\ c.cfg.aggress \in BOOLEAN
              /\ c.cfg.stencil \in Nat
         [] c.kernel = "coradcalc_tr" ->
              /\ {"scheme", "up3", "En_Dis", "bound", "smooth"} \subseteq DOMAIN c.cfg
              /\ c.cfg.scheme \in CoriolisSchemes
              /\ c.cfg.given \subseteq Diagnostics
              /\ \A option \in {"up3", "En_Dis", "bound", "smooth"} : c.cfg[option] \in BOOLEAN
         [] c.kernel = "horizontal_viscosity_tr" ->
              /\ c.cfg.on \subseteq HorViscSwitches \cup MixingFields
              /\ c.cfg.given \subseteq HDiagnostics \cup QDiagnostics
         [] c.kernel \in FrictionKernels ->
              /\ c.cfg.on \subseteq VertFricSwitches
              /\ c.cfg.given \subseteq
                    VertFricInputs \cup VelocityReports \cup TendencyOutputs \cup StressOutputs
                    \cup WorkOutputs \cup ShelfCoupling \cup GL90Coupling \cup CoefOutputs
         [] OTHER -> c.cfg.given = {}

ASSUME CallsAssumption == \A c \in Calls : CallOK(c)

Mirrored(c) ==
    [c EXCEPT !.x_first = ~c.x_first,
              !.cfg.given = {Partner(a) : a \in c.cfg.given},
              !.cfg.on = {Partner(option) : option \in c.cfg.on}]

KernelOf(c) ==
    CASE c.kernel = "continuity_PPM" -> continuity_PPM(c.cfg, c.x_first)
      [] c.kernel = "continuity_PPM_2d_fluxes" -> continuity_PPM_2d_fluxes(c.cfg)
      [] c.kernel = "coradcalc_tr" -> coradcalc_tr(c.cfg)
      [] c.kernel = "horizontal_viscosity_tr" -> horizontal_viscosity_tr(c.cfg)
      [] c.kernel = "hor_visc_gme_bt" -> hor_visc_gme_bt(c.cfg)
      [] c.kernel = "smooth_x9_h" -> smooth_x9_h(c.cfg)
      [] c.kernel = "smooth_x9_uv" -> smooth_x9_uv(c.cfg)
      [] c.kernel = "smooth_gme_h_pass" -> smooth_gme_h_pass(c.cfg)
      [] c.kernel = "smooth_gme_q_pass" -> smooth_gme_q_pass(c.cfg)
      [] c.kernel = "vertvisc_limit_vel" -> vertvisc_limit_vel(c.cfg)
      [] c.kernel = "vertvisc_remnant_tr" -> vertvisc_remnant_tr(c.cfg)
      [] c.kernel = "vertfpmix_tr" -> vertfpmix_tr(c.cfg)
      [] c.kernel = "vertvisc_coef_tr" -> vertvisc_coef_tr(c.cfg)
      [] c.kernel = "vertvisc_tr" -> vertvisc_tr(c.cfg)
      [] c.kernel = "thickness_to_dz_3d" -> thickness_to_dz_3d(c.cfg)

\* The bridge around the kernel
Copying(op) == [op |-> op, box |-> bx0, sets |-> {}]
Program(c) == <<Copying("copy_in")>> \o KernelOf(c) \o <<Copying("copy_back")>>

\* All the arrays a call has to do with
ArraysOf(c) ==
    Passed(c) \cup UNION {Writes(step) \cup {r[1] : r \in Reads(step)} : step \in ToSet(Program(c))}

\* Every array of the host holds the caller's values over all of its box, outputs
\* too: what they hold before the call is nothing a result may be computed from.
OnHost(a, c) == Initial(a, Allocated(a, c.cfg))

\* The device holds nothing yet
InitialMemory(c) ==
    [alloc |-> [a \in ArraysOf(c) |-> Allocated(a, c.cfg)],
     content |-> [a \in ArraysOf(c) |-> <<>>]]

\* Options the kernels take together
Consistent(c) ==
    CASE c.kernel = "continuity_PPM" -> BothRemnantsOrNeither(c.cfg) /\ OutputsTogether(c.cfg)
      [] c.kernel = "horizontal_viscosity_tr" -> OptionsGoTogether(c.cfg)
      [] c.kernel = "vertvisc_limit_vel" -> ReportsTogether(c.cfg)
      [] c.kernel = "vertvisc_coef_tr" -> CoefTogether(c.cfg)
      [] c.kernel = "vertvisc_tr" -> FrictionTogether(c.cfg)
      [] OTHER -> TRUE

-----------------------------------------------------------------------------
Init ==
    /\ \E c \in Calls :
          /\ Consistent(c)
          /\ call = [s \in Sides |-> IF s = "direct" THEN c ELSE Mirrored(c)]
    /\ todo = [s \in Sides |-> Program(call[s])]
    /\ mem = [s \in Sides |-> InitialMemory(call[s])]
    /\ returned = [s \in Sides |-> << >>]

\* Mutant: arrays that are only returned are not copied in first
CopyInputsIn(s) ==
    /\ todo[s] # <<>>
    /\ Head(todo[s]).op = "copy_in"
    /\ mem' = [mem EXCEPT ![s].content = [a \in DOMAIN @ |->
                 IF a \in Passed(call[s]) \ Results(call[s]) THEN OnHost(a, call[s]) ELSE <<>>]]
    /\ todo' = [todo EXCEPT ![s] = Tail(@)]
    /\ UNCHANGED <<call, returned>>

\* Every array the bridge passes, over its whole allocation
CopyIn(s) ==
    /\ todo[s] # <<>>
    /\ Head(todo[s]).op = "copy_in"
    /\ mem' = [mem EXCEPT ![s].content = [a \in DOMAIN @ |->
                 IF a \in Passed(call[s]) THEN OnHost(a, call[s]) ELSE <<>>]]
    /\ todo' = [todo EXCEPT ![s] = Tail(@)]
    /\ UNCHANGED <<call, returned>>

\* The next ParallelFor of a call, all of its cells
RunLoop(s) ==
    /\ todo[s] # <<>>
    /\ Head(todo[s]).op = "loop"
    /\ mem' = [mem EXCEPT ![s] = AfterLoop(@, Head(todo[s]))]
    /\ todo' = [todo EXCEPT ![s] = Tail(@)]
    /\ UNCHANGED <<call, returned>>

\* Scratch arrays come into being
AllocateScratch(s) ==
    /\ todo[s] # <<>>
    /\ Head(todo[s]).op = "scratch"
    /\ mem' = [mem EXCEPT ![s] = AfterScratch(@, Head(todo[s]))]
    /\ todo' = [todo EXCEPT ![s] = Tail(@)]
    /\ UNCHANGED <<call, returned>>

\* The arrays the bridge returns, over their whole allocations; then everything on
\* the device is freed
CopyBack(s) ==
    /\ todo[s] # <<>>
    /\ Head(todo[s]).op = "copy_back"
    /\ returned' = [returned EXCEPT ![s] = [a \in Returned(call[s]) |-> mem[s].content[a]]]
    /\ mem' = [mem EXCEPT ![s].content = [a \in DOMAIN @ |-> <<>>]]
    /\ todo' = [todo EXCEPT ![s] = Tail(@)]
    /\ UNCHANGED call

Done == \A s \in Sides : todo[s] = <<>>

\* The two calls share no memory: one of them can as well run to its end first
Turn(s) == s = "direct" \/ todo["direct"] = <<>>

Next ==
    \/ \E s \in Sides : Turn(s) /\ (CopyIn(s) \/ RunLoop(s) \/ AllocateScratch(s) \/ CopyBack(s))
    \/ Done /\ UNCHANGED vars

Spec == Init /\ [][Next]_vars

-----------------------------------------------------------------------------
\* Properties

\* What the host finds in its arrays
Host(s) ==
    [content |-> [a \in Passed(call[s]) \cup DOMAIN returned[s] |->
        IF a \in DOMAIN returned[s] THEN returned[s][a] ELSE OnHost(a, call[s])]]

\* A loop reads only cells that hold a value: within the allocation, and set by
\* the caller or by an earlier loop.  A box one cell too small leaves the next
\* loop reading scratch memory nobody wrote, at the edge of the box only, where
\* a test on one grid sees plausible numbers.  (mom_continuity_ppm.cpp:418)
ReadsHoldValues ==
    \A s \in Sides :
        todo[s] # <<>> => ReadsSet(mem[s], Head(todo[s]))

\* No body reads, at another cell, an array that the same loop writes: on a GPU
\* the cells of a loop run in any order.
CellsDoNotRace ==
    \A s \in Sides :
        todo[s] # <<>> => RaceFree(Head(todo[s]))

\* When the call returns every output is set wherever the caller needs it, and
\* is computed from the arguments alone: from nothing an output array happened to
\* hold before, be it from the last call or outside the boxes of this one.
ResultsAreFresh ==
    \A s \in Sides :
        todo[s] = <<>> =>
            \A a \in Outputs(call[s]) :
                /\ IsSet(Host(s), a, Required(a, call[s]))
                /\ \A r \in Origins(Host(s), a, Required(a, call[s])) : r[1] \notin Results(call[s])

Distance(d) == IF d < 0 THEN -d ELSE d

\* The stencil of the scheme. AGGRESS_ADJUST looks at the velocities of the two
\* neighbouring faces, which the stencil of the upwind scheme does not cover.
Reach(c) ==
    CASE c.kernel \in ContinuityKernels ->
            IF c.cfg.aggress /\ c.cfg.stencil < 2 THEN 2 ELSE c.cfg.stencil
      [] c.kernel = "coradcalc_tr" -> coriolis_scheme_stencil(c.cfg.scheme)
      [] c.kernel = "horizontal_viscosity_tr" -> IF AnyLeith(c.cfg) THEN 3 ELSE 2
      [] c.kernel \in {"smooth_x9_h", "smooth_x9_uv"} -> 2
      [] OTHER -> 1

\* The halos are as wide as that, for the barotropic strains as wide as the boxes they
\* run over; and the stencil is no narrower than the scheme's.
WideEnough(c) ==
    /\ (IF c.kernel = "hor_visc_gme_bt" THEN 3 ELSE Reach(c)) <= c.cfg.halo
    /\ c.kernel \in ContinuityKernels => SchemeStencil(c.cfg.scheme) <= c.cfg.stencil

ASSUME HalosAssumption == \A c \in Calls : WideEnough(c)

\* A result at a cell is computed from arguments at most a stencil away in each
\* direction.  That is the halo the caller has to fill.
DependsWithinStencil ==
    \A s \in Sides :
        todo[s] = <<>> =>
            \A a \in Outputs(call[s]) : \A r \in Origins(Host(s), a, Required(a, call[s])) :
                /\ Distance(r[2][1]) <= Reach(call[s])
                /\ Distance(r[2][2]) <= Reach(call[s])

\* Results that were found in scratch arrays, or after steps, that serve another
\* purpose first.
\*  - The face areas of the barotropic continuity type come from the correction to
\*    zero transport, not from the one to the transport uhbt found just before.
\*  - The part of GL90 in the friction is a solve of its own, from the velocities
\*    before: neither the wind nor the other viscosities leave a trace.  Nor do they
\*    in its coefficients.
\*  - The acceleration by the wind does not depend on the velocity.
KeptApart(c) ==
    CASE c.kernel = "continuity_PPM" -> {<<"FA_u", "uhbt">>, <<"FA_v", "vhbt">>}
      [] c.kernel = "vertvisc_tr" ->
            ({"du_dt_visc_gl90", "KE_u"} \X {"taux", "a_u", "Ray_u"}) \cup {<<"du_dt_str", "u">>}
            \cup ({"dv_dt_visc_gl90", "KE_v"} \X {"tauy", "a_v", "Ray_v"}) \cup {<<"dv_dt_str", "v">>}
      [] c.kernel = "vertvisc_coef_tr" -> ({"a_u_gl90", "Kv_gl90_u"} \X {"Kv_bbl_u", "Kv_shear", "Ustar_2d"})
            \cup ({"a_v_gl90", "Kv_gl90_v"} \X {"Kv_bbl_v", "Kv_shear", "Ustar_2d"})
      [] OTHER -> {}

ResultsKeepApart ==
    \A s \in Sides : todo[s] = <<>> =>
        \A p \in KeptApart(call[s]) : p[1] \in Outputs(call[s]) =>
            \A r \in Origins(Host(s), p[1], Required(p[1], call[s])) : r[1] # p[2]

\* After the call an array that is no result holds what the host put there, though
\* many of them are copied back; and a result, which is copied back whole, holds a
\* value in every cell: what the loops did not set is what was copied in.
HostKeepsTheRest ==
    \A s \in Sides : todo[s] = <<>> =>
        \A a \in DOMAIN Host(s).content :
            /\ IsSet(Host(s), a, Allocated(a, call[s].cfg))
            /\ a \notin Outputs(call[s]) => Host(s).content[a] = OnHost(a, call[s])

TransposedFrom(from) == {<<Partner(r[1]), <<r[2][2], r[2][1]>>>> : r \in from}

Agree ==
    \A a \in Outputs(call["direct"]) :
        TransposedFrom(Origins(Host("direct"), a, Required(a, call["direct"])))
          = Origins(Host("transposed"), Partner(a), Required(Partner(a), call["transposed"]))

Compared == Done /\ Sides = {"direct", "transposed"}

\* On the transposed grid every result comes from the transposed arguments: the
\* zonal and the meridional functions, written separately, agree.  Of the nine-point
\* smoother the code claims it at cells only, and SmoothingRotates is about that.
RotationInvariant ==
    (Compared /\ call["direct"].kernel \notin {"smooth_x9_h", "smooth_x9_uv"}) => Agree

\* "apply smoothing on field_h using rotationally symmetric expressions": what the
\* comment in smooth_x9_h says of it (mom_hor_visc.cpp:101)
SmoothingRotates ==
    (Compared /\ call["direct"].kernel = "smooth_x9_h") => Agree
=============================================================================
