---------------------------- MODULE CoriolisLoops ----------------------------
(***************************************************************************)
(* The Coriolis and momentum advection terms,                              *)
(* src/src/mom_kernels/mom_coriolisadv.cpp, as the sequence of the loops   *)
(* of coradcalc_tr.  Every operator is one function of that file.          *)
(*                                                                         *)
(* Grid metrics are grouped by where they live: face_u and face_v, corner  *)
(* and cell.  The arguments: cfg.scheme is Coriolis_Scheme, cfg.up3 says   *)
(* whether KE_Scheme is KE_UP3 (the others read alike), cfg.En_Dis is      *)
(* Coriolis_En_Dis, cfg.bound is bound_Coriolis, cfg.smooth is             *)
(* weno_velocity_smooth, cfg.given the diagnostics that are wanted.        *)
(* cfg.symmetric says whether IscB is isc - 1 or isc.                      *)
(*                                                                         *)
(* One iteration tile is one call here: tiles share no layer, and all that *)
(* one reads of the scratch arrays it has to have written itself.          *)
(* Stokes drift and open boundaries are disabled: the call aborts when it  *)
(* is passed either.                                                       *)
(***************************************************************************)
EXTENDS KernelLoops

WenoSchemes == {"wenovi7th", "wenovi5th", "wenovi3rd"}
CoriolisSchemes ==
    WenoSchemes \cup {"SADOURNY75_ENERGY", "SADOURNY75_ENSTRO", "ARAKAWA_HSU90",
                      "ARAKAWA_LAMB81", "AL_BLEND", "ROBUST_ENSTRO"}

Diagnostics == {"RV", "PV", "gradKEu", "gradKEv", "rv_x_u", "rv_x_v"}

coriolis_scheme_stencil(scheme) ==
    CASE scheme = "wenovi7th" -> 4
      [] scheme = "wenovi5th" -> 3
      [] OTHER -> 2

\* The corners at which the scheme needs vorticity
bxQs(cfg) ==
    LET stencil == coriolis_scheme_stencil(cfg.scheme) IN
    IF cfg.scheme \in WenoSchemes
    THEN [w |-> stencil, e |-> stencil - 1, s |-> stencil, n |-> stencil - 1]
    ELSE GrowX(GrowY(bxQ(cfg), 1), 1)

\* bxVx and bxUx: faces of the other direction around the faces of this one
bxVx(cfg) == GrowLoX(GrowHiY(bxV(cfg)))
bxUx(cfg) == GrowLoY(GrowHiX(bxU(cfg)))
bxQ_pij(cfg) == GrowHiX(GrowHiY(bxQ(cfg)))

\* The four v faces around a u face, and the four u faces around a v face
AroundU == {<<0, 0>>, <<1, 0>>, <<0, -1>>, <<1, -1>>}
AroundV == {<<0, 0>>, <<0, 1>>, <<-1, 0>>, <<-1, 1>>}

-----------------------------------------------------------------------------
gradke(cfg) ==
    LET us == IF cfg.up3 THEN {-2, -1, 0, 1} \X {0} ELSE {-1, 0} \X {0}
        vs == IF cfg.up3 THEN {0} \X {-2, -1, 0, 1} ELSE {0} \X {-1, 0}
    IN  <<Loop(bxQ_pij(cfg), {Set({"KE"}, At({"u", "face_u"}, us) \cup At({"v", "face_v"}, vs)
                                          \cup At({"cell"}, Here))}),
          Loop(bxU(cfg), {Set({"KEx"}, At({"KE"}, Here \cup East) \cup At({"face_u"}, Here))}),
          Loop(bxV(cfg), {Set({"KEy"}, At({"KE"}, Here \cup North) \cup At({"face_v"}, Here))})>>

\* Potential vorticity, its ingredients, and the centred transports
coradv_setup(cfg) ==
    LET box == bxQs(cfg)
        bxQ_gij == GrowX(GrowY(bxQ(cfg), 1), 1)
        hAreas == At({"hArea_u"}, Here \cup North) \cup At({"hArea_v"}, Here \cup East)
        diagnostic(a, reads) ==
            IF a \in cfg.given THEN <<Loop(bxQ_gij, {Set({a}, At(reads, Here))})>> ELSE <<>>
    IN  <<Scratch(CornerBox(cfg), {"dvdx", "dudy", "rel_vort"}),
          Scratch(UBox(cfg), {"hArea_u"}),
          Scratch(VBox(cfg), {"hArea_v"}),
          Loop(box, {Set({"dvdx"}, At({"v", "face_v"}, Here \cup East)),
                     Set({"dudy"}, At({"u", "face_u"}, Here \cup North))}),
          Loop(GrowHiX(box), {Set({"hArea_v"}, At({"Area_h", "h"}, Here \cup North))}),
          Loop(GrowHiY(box), {Set({"hArea_u"}, At({"Area_h", "h"}, Here \cup East))})>>
        \o (IF cfg.En_Dis
            THEN <<Loop(bxVx(cfg), {Set({"uh_center"}, At({"u", "face_u"}, Here) \cup At({"h"}, Here \cup East))}),
                   Loop(bxUx(cfg), {Set({"vh_center"}, At({"v", "face_v"}, Here) \cup At({"h"}, Here \cup North))})>>
            ELSE <<>>)
        \o <<Loop(box, {Set({"rel_vort"}, At({"dvdx", "dudy", "corner"}, Here))}),
             Loop(box, {Set({"abs_vort"}, At({"rel_vort", "corner"}, Here))}),
             Loop(box, {Set({"Ih_q"}, hAreas \cup At({"Area_q"}, Here)),
                        Set({"q"}, hAreas \cup At({"Area_q", "abs_vort"}, Here))})>>
        \o (IF cfg.scheme \in WenoSchemes
            THEN <<Loop(box, {Set({"h_q"}, hAreas \cup At({"Area_q"}, Here))})>>
            ELSE <<>>)
        \o diagnostic("RV", {"rel_vort"})
        \o diagnostic("PV", {"q"})
        \o (IF cfg.given \cap {"rv_x_u", "rv_x_v"} # {}
            THEN <<Loop(bxQ_gij, {Set({"q2"}, At({"rel_vort", "Ih_q"}, Here))})>>
            ELSE <<>>)

\* Bounds, kinetic energy gradient and diagnostics: CAu and CAv are updated in place
coradv_common_terms(cfg) ==
    LET energy == cfg.scheme = "SADOURNY75_ENERGY"
        qsU == Here \cup South \cup (IF energy THEN {} ELSE {<<1, 0>>, <<-1, -1>>, <<-1, 0>>, <<1, -1>>})
        qsV == Here \cup West \cup (IF energy THEN {} ELSE {<<0, 1>>, <<-1, -1>>, <<0, -1>>, <<-1, 1>>})
        loop(condition, box, a, reads) ==
            IF condition THEN <<Loop(box, {Set({a}, reads)})>> ELSE <<>>
    IN  loop(cfg.bound, bxU(cfg), "CAu", At({"CAu"}, Here) \cup At({"abs_vort"}, Here \cup South) \cup At({"v"}, AroundU))
        \o loop(TRUE, bxU(cfg), "CAu", At({"CAu", "KEx"}, Here))
        \o loop("gradKEu" \in cfg.given, bxU(cfg), "gradKEu", At({"KEx"}, Here))
        \o loop(cfg.bound, bxV(cfg), "CAv", At({"CAv"}, Here) \cup At({"abs_vort"}, Here \cup West) \cup At({"u"}, AroundV))
        \o loop(TRUE, bxV(cfg), "CAv", At({"CAv", "KEy"}, Here))
        \o loop("gradKEv" \in cfg.given, bxV(cfg), "gradKEv", At({"KEy"}, Here))
        \o loop("rv_x_u" \in cfg.given, bxV(cfg), "rv_x_u", At({"q2"}, qsV) \cup At({"uh"}, AroundV) \cup At({"face_v"}, Here))
        \o loop("rv_x_v" \in cfg.given, bxU(cfg), "rv_x_v", At({"q2"}, qsU) \cup At({"vh"}, AroundU) \cup At({"face_u"}, Here))

-----------------------------------------------------------------------------
\* The schemes

\* Arakawa and Lamb write a and d one cell to the west of the cell they run for:
\* that part of the body is a loop over the box moved west by one.
coradv_arakawa(cfg) ==
    LET lamb == cfg.scheme \in {"ARAKAWA_LAMB81", "AL_BLEND"}
        weights == When(cfg.scheme = "AL_BLEND", {"Ih_q"})
        hsu == <<Loop(bxVx(cfg), {Set({"a"}, At({"q"}, {<<0, 0>>, <<1, 0>>, <<0, -1>>})),
                                  Set({"d"}, At({"q"}, {<<0, 0>>, <<1, -1>>, <<0, -1>>}))}),
                 Loop(GrowHiY(bxQ(cfg)), {Set({"b"}, At({"q"}, {<<0, 0>>, <<-1, 0>>, <<0, -1>>})),
                                          Set({"c"}, At({"q"}, {<<0, 0>>, <<-1, -1>>, <<0, -1>>}))})>>
        both == <<Loop(ReadAt(bxQ_pij(cfg), <<-1, 0>>), {Set({"a", "d"}, At({"q"} \cup weights, {0, 1} \X {-1, 0}))}),
                  Loop(bxQ_pij(cfg), {Set({"b", "c", "ep_u", "ep_v"}, At({"q"} \cup weights, {-1, 0} \X {-1, 0}))})>>
        extra(box, a, reads) == IF lamb THEN <<Loop(box, {Set({a}, reads \cup At({a}, Here))})>> ELSE <<>>
    IN  <<Scratch(UBox(cfg), {"a", "b", "c", "d"}), Scratch(DataBox(cfg), {"ep_u", "ep_v"})>>
        \o (IF lamb THEN both ELSE hsu)
        \o <<Loop(bxU(cfg), {Set({"CAu"}, At({"a", "b", "c", "d", "face_u"}, Here) \cup At({"vh"}, AroundU))})>>
        \o extra(bxU(cfg), "CAu", At({"ep_u"}, Here \cup East) \cup At({"uh"}, West \cup East) \cup At({"face_u"}, Here))
        \o <<Loop(bxV(cfg), {Set({"CAv"}, At({"a"}, West) \cup At({"b", "face_v"}, Here) \cup At({"c"}, North)
                                          \cup At({"d"}, {<<-1, 1>>}) \cup At({"uh"}, AroundV))})>>
        \o extra(bxV(cfg), "CAv", At({"ep_v"}, Here \cup North) \cup At({"vh"}, South \cup North) \cup At({"face_v"}, Here))

coradv_robust_enstro(cfg) ==
    <<Loop(bxU(cfg), {Set({"CAu"}, At({"vh", "v", "face_v"}, AroundU) \cup At({"h"}, {0, 1} \X {-1, 0, 1})
                                   \cup At({"abs_vort"}, Here \cup South) \cup At({"face_u"}, Here))}),
      Loop(bxV(cfg), {Set({"CAv"}, At({"uh", "u", "face_u"}, AroundV) \cup At({"h"}, {-1, 0, 1} \X {0, 1})
                                   \cup At({"abs_vort"}, Here \cup West) \cup At({"face_v"}, Here))})>>

coradv_sadourny(cfg) ==
    LET biased == cfg.En_Dis /\ cfg.scheme = "SADOURNY75_ENERGY"
    IN  <<Scratch(DataBox(cfg), {"uh_min", "uh_max", "vh_min", "vh_max"})>>
        \o (IF cfg.En_Dis
            THEN <<Loop(bxVx(cfg), {Set({"uh_min", "uh_max"}, At({"uh_center", "uh", "face_u"}, Here))}),
                   Loop(bxUx(cfg), {Set({"vh_min", "vh_max"}, At({"vh_center", "vh", "face_v"}, Here))})>>
            ELSE <<>>)
        \o <<Loop(bxU(cfg), {Set({"CAu"}, At({"q"}, Here \cup South) \cup At({"face_u"} \cup When(biased, {"u"}), Here)
                                          \cup At(IF biased THEN {"vh_min", "vh_max"} ELSE {"vh"}, AroundU))}),
             Loop(bxV(cfg), {Set({"CAv"}, At({"q"}, Here \cup West) \cup At({"face_v"} \cup When(biased, {"v"}), Here)
                                          \cup At(IF biased THEN {"uh_min", "uh_max"} ELSE {"uh"}, AroundV))})>>

\* Of all orders up to the scheme's, whichever no masked face forbids
coradv_weno(cfg) ==
    LET reach == CASE cfg.scheme = "wenovi7th" -> 4
                   [] cfg.scheme = "wenovi5th" -> 3
                   [] OTHER -> 2
        along == -reach .. reach
        upwind == -reach .. reach - 1
    IN  <<Loop(bxU(cfg), {Set({"CAu"}, At({"vh"}, AroundU) \cup At({"q"}, Here \cup South)
                                       \cup At({"abs_vort", "h_q"}, {0} \X upwind)
                                       \cup At({"face_u"} \cup When(cfg.smooth, {"u"}), {0} \X along))}),
          Loop(bxV(cfg), {Set({"CAv"}, At({"uh"}, AroundV) \cup At({"q"}, Here \cup West)
                                       \cup At({"abs_vort", "h_q"}, upwind \X {0})
                                       \cup At({"face_v"} \cup When(cfg.smooth, {"v"}), along \X {0}))})>>

coradcalc_tr(cfg) ==
    <<Scratch(CornerBox(cfg), {"Area_q"}),
      Scratch(DataBox(cfg), {"Area_h"}),
      Loop(GrowHiX(GrowHiY(bxQs(cfg))), {Set({"Area_h"}, At({"cell"}, Here))}),
      Loop(bxQs(cfg), {Set({"Area_q"}, At({"Area_h"}, {0, 1} \X {0, 1}))}),
      Scratch(CornerBox(cfg), {"q", "Ih_q", "h_q", "abs_vort", "q2"}),
      Scratch(UBox(cfg), {"KEx", "uh_center"}),
      Scratch(VBox(cfg), {"KEy", "vh_center"}),
      Scratch(DataBox(cfg), {"KE"})>>
    \o coradv_setup(cfg)
    \o gradke(cfg)
    \o (CASE cfg.scheme \in {"SADOURNY75_ENERGY", "SADOURNY75_ENSTRO"} -> coradv_sadourny(cfg)
          [] cfg.scheme \in {"ARAKAWA_HSU90", "ARAKAWA_LAMB81", "AL_BLEND"} -> coradv_arakawa(cfg)
          [] cfg.scheme = "ROBUST_ENSTRO" -> coradv_robust_enstro(cfg)
          [] cfg.scheme \in WenoSchemes -> coradv_weno(cfg))
    \o coradv_common_terms(cfg)
=============================================================================
