------------------------- MODULE KernelValuesProofs -------------------------
(***************************************************************************)
(* What the values of a call are computed from, for every halo, every      *)
(* configuration and both calls of a run.                                  *)
(*                                                                         *)
(* A table claims of each array a box that it is set on and how far its    *)
(* values come from.  KernelProofs shows, one lemma per loop, that the     *)
(* loops of continuity lead from true claims to true claims; those of the  *)
(* vertical friction, the smoothing filters, the barotropic strain and the *)
(* Coriolis terms follow here.  A kernel that leads from what its caller   *)
(* hands over to what it promises keeps its promise, and with that the     *)
(* values of every state of a run are as the properties of KernelCalls     *)
(* say.                                                                    *)
(***************************************************************************)
EXTENDS KernelProofs

-----------------------------------------------------------------------------
\* What the friction kernels have in common: they read beside the cell they are at, and
\* their results at faces are required where the faces of the core are.
Fringe(c, k, A, B, V) ==
    /\ CallOK(c) /\ WideEnough(c) /\ Reach(c) = 1
    /\ c.kernel \notin ContinuityKernels \cup {"hor_visc_gme_bt", "smooth_gme_q_pass"}
    /\ k \in {0, 1} /\ bxU(c.cfg) = Box(k, 0, 0, 0) /\ bxV(c.cfg) = Box(0, 0, k, 0)
    /\ A \cap (B \cup V) = {} /\ B \cap V = {}
    /\ Outputs(c) \subseteq B \cup V
    /\ Outputs(c) \cap B \subseteq ZonalFields \ AtCorners
    /\ Outputs(c) \cap V \subseteq MeridionalFields \ AtCorners

\* Such a call starts from arrays it is passed, each with a claim that it comes from
\* itself, and ends with claims that are as its results have to be.
LEMMA LocalPromise ==
    ASSUME NEW c, NEW k, NEW A, NEW B, NEW V, Fringe(c, k, A, B, V),
           NEW H, H = c.cfg.halo, NEW F, NEW T, IsLocal(T, H, A, B, V, k, F),
           NEW G, NEW S, IsLocal(S, H, A, B, V, k, G),
           NEW Z, Handed(c, A \cup B \cup V, F, Z),
           NEW Y, Fresh(c, G, Y), Gives(T, Z, KernelOf(c), S, Y)
    PROVE  Promise(c)
  <1>1. Begins(c, T, Z)
    BY LocalBegins
  <1>2. Reach(c) = 1 /\ AtFaces(c, B, V, k)
    BY FacesRequired DEF Fringe, AtFaces
  <1>3. Ends(c, S, Y)
    BY <1>2, LocalEnds
  <1> QED BY <1>1, <1>3 DEF Promise

\* The claims of a call that may compute anything from any of P.
Always(D, P) == [a \in D |-> P]

\* Such a call and its table
Uniform(c, T, H, k, A, B, V, P) ==
    /\ Fringe(c, k, A, B, V)
    /\ H = c.cfg.halo
    /\ T = LocalTable(A, B, V, H, Box(k, 0, 0, 0), Box(0, 0, k, 0), Always(A \cup B \cup V, P))

\* They are claims of that kind.
LEMMA UniformIsLocal ==
    ASSUME NEW c, NEW T, NEW H, NEW k, NEW A, NEW B, NEW V, NEW P, Uniform(c, T, H, k, A, B, V, P)
    PROVE  IsLocal(T, H, A, B, V, k, Always(A \cup B \cup V, P)) /\ Fringe(c, k, A, B, V) /\ H = c.cfg.halo
  BY DEF CallOK, WideEnough, Fringe, IsLocal, Uniform

\* What they hold.
LEMMA UniformHolds ==
    ASSUME NEW c, NEW T, NEW H, NEW k, NEW A, NEW B, NEW V, NEW P, Uniform(c, T, H, k, A, B, V, P)
    PROVE  /\ Beside(T, H, A, B, AroundFaceU, Box(k, 0, 0, 0))
           /\ Beside(T, H, A, V, AroundFaceV, Box(0, 0, k, 0))
           /\ \A a \in A \cup B \cup V : T[a].of = P
  <1> DEFINE F == Always(A \cup B \cup V, P)
  <1>1. \A a \in A \cup B \cup V : F[a] = P
    BY DEF Always
  <1>2. IsLocal(T, H, A, B, V, k, F)
    BY UniformIsLocal
  <1> HIDE DEF F
  <1>3. /\ Beside(T, H, A, B, AroundFaceU, Box(k, 0, 0, 0))
        /\ Beside(T, H, A, V, AroundFaceV, Box(0, 0, k, 0))
        /\ \A a \in A \cup B \cup V : a \in DOMAIN T /\ T[a].of = F[a]
    BY <1>2, LocalTableHolds
  <1> QED BY <1>1, <1>3

\* What such a call has to do to keep its promise.
Delivers(c, T, Z, Y, A, P) ==
    /\ Z \subseteq P \cap A /\ Z \subseteq Passed(c)
    /\ Gives(T, Z, KernelOf(c), T, Y)
    /\ Outputs(c) \subseteq Y
    /\ P \cap Results(c) = {}
    /\ KeptApart(c) = {}

\* A call that does so keeps it.
LEMMA UniformPromise ==
    ASSUME NEW c, NEW T, NEW H, NEW k, NEW A, NEW B, NEW V, NEW P, Uniform(c, T, H, k, A, B, V, P),
           NEW Z, NEW Y, Delivers(c, T, Z, Y, A \cup B \cup V, P)
    PROVE  Promise(c)
  <1> DEFINE F == Always(A \cup B \cup V, P)
  <1>1. \A a \in A \cup B \cup V : F[a] = P
    BY DEF Always
  <1>2. IsLocal(T, H, A, B, V, k, F) /\ Fringe(c, k, A, B, V) /\ H = c.cfg.halo
    BY UniformIsLocal
  <1>3. Outputs(c) \subseteq B \cup V
    BY <1>2 DEF Fringe
  <1> HIDE DEF F
  <1>4. Handed(c, A \cup B \cup V, F, Z) /\ Fresh(c, F, Y)
    BY <1>1, <1>3 DEF Handed, Fresh, Delivers
  <1>5. Gives(T, Z, KernelOf(c), T, Y)
    BY DEF Delivers
  <1> QED BY <1>2, <1>4, <1>5, LocalPromise

-----------------------------------------------------------------------------
\* The vertical friction

\* One direction of the share that viscosity leaves: column is what it is computed from.
LEMMA RemnantGives ==
    ASSUME NEW T, NEW H, NEW A, NEW B, NEW O, NEW box, Beside(T, H, A, B, O, box), <<0, 0>> \in O,
           NEW Z, NEW column, column \subseteq A \cap Z, NEW Q, \A a \in column \cup B : T[a].of = Q,
           NEW c1, NEW rem, B = {c1, rem}, c1 \notin A \cup {rem}
    PROVE  Gives(T, Z, <<Scratch(box, {c1}),
                         Loop(box, {Set({c1, rem}, At(column, Here))}),
                         Loop(box, {Set({rem}, At({rem, c1}, Here))})>>, T, (Z \ {c1}) \cup B)
  <1> DEFINE Z1 == Z \ {c1}
             Z2 == Z1 \cup {c1, rem}
  <1>1. Gives(T, Z, <<Scratch(box, {c1})>>, T, Z1)
    BY ScratchGives
  <1>2. Local(T, Z1, A, B, O, Q, At(column, Here))
    <2>1. column \subseteq (A \cup B) \cap Z1 /\ \A a \in column : T[a].of \subseteq Q
      OBVIOUS
    <2> HIDE DEF Z1
    <2> QED BY <2>1, LocalReads
  <1>3. Gives(T, Z1, <<Loop(box, {Set({c1, rem}, At(column, Here))})>>, T, Z2)
    <2>1. {c1, rem} \subseteq B /\ \A a \in {c1, rem} : Q \subseteq T[a].of
      OBVIOUS
    <2> HIDE DEF Z1
    <2> QED BY <1>2, <2>1, LocalLoop
  <1>4. Local(T, Z2, A, B, O, Q, At({rem, c1}, Here))
    <2>1. {rem, c1} \subseteq B \cap Z2 /\ \A a \in {rem, c1} : T[a].of \subseteq Q
      OBVIOUS
    <2> HIDE DEF Z2
    <2> QED BY <2>1, LocalReads
  <1>5. Gives(T, Z2, <<Loop(box, {Set({rem}, At({rem, c1}, Here))})>>, T, Z2 \cup {rem})
    <2>1. {rem} \subseteq B /\ \A a \in {rem} : Q \subseteq T[a].of
      OBVIOUS
    <2> HIDE DEF Z2
    <2> QED BY <1>4, <2>1, LocalLoop
  <1>6. Z2 \cup {rem} = (Z \ {c1}) \cup B
    OBVIOUS
  <1> DEFINE Y == (Z \ {c1}) \cup B
             s1 == Scratch(box, {c1})
             s2 == Loop(box, {Set({c1, rem}, At(column, Here))})
             s3 == Loop(box, {Set({rem}, At({rem, c1}, Here))})
  <1>7. Gives(T, Z, <<s1>>, T, Z1) /\ Gives(T, Z1, <<s2>>, T, Z2) /\ Gives(T, Z2, <<s3>>, T, Y)
    BY <1>1, <1>3, <1>5, <1>6
  <1> HIDE DEF Z1, Z2, Y, s1, s2, s3
  <1>8. Gives(T, Z, <<s1, s2, s3>>, T, Y)
    BY <1>7, ThreeStepsGive
  <1> QED BY <1>8 DEF s1, s2, s3, Y

\* The remnants are promised.
LEMMA RemnantPromise ==
    ASSUME NEW c, CallOK(c), WideEnough(c), c.kernel = "vertvisc_remnant_tr"
    PROVE  Promise(c)
  <1> DEFINE cfg == c.cfg
             H == c.cfg.halo
             cu == {"h_u", "a_u", "face_u"} \cup GivenOf(cfg, {"Ray_u"})
             cv == {"h_v", "a_v", "face_v"} \cup GivenOf(cfg, {"Ray_v"})
             A == cu \cup cv
             B == {"c1U", "visc_rem_u"}
             V == {"c1V", "visc_rem_v"}
             Y1 == (A \ {"c1U"}) \cup B
             Y == (Y1 \ {"c1V"}) \cup V
  <1>1. Reach(c) = 1 /\ cfg.symmetric \in BOOLEAN
    <2>1. Reach(c) = 1
      BY DEF Reach, ContinuityKernels
    <2> QED BY <2>1 DEF CallOK
  <1>2. PICK k \in {0, 1} : bxU(cfg) = Box(k, 0, 0, 0) /\ bxV(cfg) = Box(0, 0, k, 0)
    BY <1>1, FaceBoxes
  <1>3. A \cap (B \cup V) = {} /\ B \cap V = {} /\ "c1U" \notin A /\ "c1V" \notin A
    BY DEF GivenOf
  <1>4. Results(c) = {"visc_rem_u", "visc_rem_v"} /\ Outputs(c) = {"visc_rem_u", "visc_rem_v"} /\ KeptApart(c) = {}
    BY DEF Results, Updated, Outputs, KeptApart
  <1>5. /\ Outputs(c) \subseteq Y /\ Outputs(c) \subseteq B \cup V
        /\ Outputs(c) \cap B \subseteq ZonalFields \ AtCorners /\ Outputs(c) \cap V \subseteq MeridionalFields \ AtCorners
    BY <1>4 DEF ZonalFields, MeridionalFields, AtCorners, QDiagnostics, LimitsAtQ
  <1>6. Fringe(c, k, A, B, V)
    <2>1. c.kernel \notin ContinuityKernels \cup {"hor_visc_gme_bt", "smooth_gme_q_pass"}
      BY DEF ContinuityKernels
    <2> HIDE DEF A, B, V
    <2> QED BY <1>1, <1>2, <1>3, <1>5, <2>1 DEF Fringe
  <1> DEFINE T == LocalTable(A, B, V, H, Box(k, 0, 0, 0), Box(0, 0, k, 0), Always(A \cup B \cup V, A))
             box == Box(k, 0, 0, 0)
             boxV == Box(0, 0, k, 0)
  <1>u. Uniform(c, T, H, k, A, B, V, A)
    BY <1>6 DEF Uniform
  <1>7. /\ Beside(T, H, A, B, AroundFaceU, box)
        /\ Beside(T, H, A, V, AroundFaceV, boxV)
        /\ \A a \in A \cup B \cup V : T[a].of = A
    <2> HIDE DEF A, B, V, T, H
    <2> QED BY <1>u, UniformHolds
  <1>8. <<0, 0>> \in AroundFaceU /\ <<0, 0>> \in AroundFaceV
    BY DEF AroundFaceU, AroundFaceV
  <1>9. Gives(T, A, remnant_u(cfg), T, Y1)
    <2>1. cu \subseteq A \cap A /\ B = {"c1U", "visc_rem_u"} /\ "c1U" \notin A \cup {"visc_rem_u"}
      BY <1>3
    <2>2. \A a \in cu \cup B : T[a].of = A
      BY <1>7
    <2> HIDE DEF T, A, B, cu, box
    <2>3. Gives(T, A, <<Scratch(box, {"c1U"}), Loop(box, {Set({"c1U", "visc_rem_u"}, At(cu, Here))}),
                        Loop(box, {Set({"visc_rem_u"}, At({"visc_rem_u", "c1U"}, Here))})>>, T, Y1)
      BY <1>7, <1>8, <2>1, <2>2, RemnantGives
    <2> QED BY <1>2, <2>3 DEF remnant_u, cu, box
  <1>10. Gives(T, Y1, remnant_v(cfg), T, Y)
    <2>1. cv \subseteq A \cap Y1 /\ V = {"c1V", "visc_rem_v"} /\ "c1V" \notin A \cup {"visc_rem_v"}
      BY <1>3
    <2>2. \A a \in cv \cup V : T[a].of = A
      BY <1>7
    <2> HIDE DEF T, A, V, cv, Y1, boxV
    <2>3. Gives(T, Y1, <<Scratch(boxV, {"c1V"}), Loop(boxV, {Set({"c1V", "visc_rem_v"}, At(cv, Here))}),
                         Loop(boxV, {Set({"visc_rem_v"}, At({"visc_rem_v", "c1V"}, Here))})>>, T, Y)
      BY <1>7, <1>8, <2>1, <2>2, RemnantGives
    <2> QED BY <1>2, <2>3 DEF remnant_v, cv, boxV
  <1>11. Gives(T, A, KernelOf(c), T, Y)
    <2>1. KernelOf(c) = remnant_u(cfg) \o remnant_v(cfg)
      BY DEF KernelOf, vertvisc_remnant_tr
    <2> HIDE DEF T, A, Y1, Y
    <2> QED BY <1>9, <1>10, <2>1, ThenGives
  <1>12. Delivers(c, T, A, Y, A \cup B \cup V, A)
    <2>1. A \subseteq A \cap (A \cup B \cup V) /\ A \subseteq Passed(c)
      BY DEF Passed, vertvisc_remnant_tr_passed, GivenOf
    <2>2. A \cap Results(c) = {} /\ KeptApart(c) = {} /\ Outputs(c) \subseteq Y
      BY <1>4, <1>5 DEF GivenOf
    <2> HIDE DEF A, B, V, T, Y
    <2> QED BY <1>11, <2>1, <2>2 DEF Delivers
  <1> HIDE DEF A, B, V, T, Y, H
  <1> QED BY <1>u, <1>12, UniformPromise

-----------------------------------------------------------------------------
\* Reads stay good when more is known.
LEMMA LocalMore ==
    ASSUME NEW T, NEW Z, NEW A, NEW B, NEW O, NEW Q, NEW R, Local(T, Z, A, B, O, Q, R), NEW W, Z \subseteq W
    PROVE  Local(T, W, A, B, O, Q, R)
  BY DEF Local

\* Reads of one array at the cell itself.
LEMMA LocalHere ==
    ASSUME NEW T, NEW Z, NEW A, NEW B, NEW O, <<0, 0>> \in O, NEW Q, NEW X,
           X \subseteq (A \cup B) \cap Z, \A a \in X : T[a].of \subseteq Q
    PROVE  Local(T, Z, A, B, O, Q, At(X, Here))
  BY LocalReads

\* Two sets of reads.
LEMMA LocalBoth ==
    ASSUME NEW T, NEW Z, NEW A, NEW B, NEW O, NEW Q, NEW R, NEW S,
           Local(T, Z, A, B, O, Q, R), Local(T, Z, A, B, O, Q, S)
    PROVE  Local(T, Z, A, B, O, Q, R \cup S)
  BY DEF Local

\* One direction of the truncation: cfl is what it is decided from, on whether columns are
\* reported.
LEMMA LimitGives ==
    ASSUME NEW T, NEW H, NEW A, NEW B, NEW O, NEW box, Beside(T, H, A, B, O, box), <<0, 0>> \in O,
           NEW Z, NEW Q, NEW vel \in B \cap Z, NEW old \in B, NEW rep \in B, NEW dow \in B, NEW h \in (A \cup B) \cap Z,
           \A a \in {vel, old, rep, dow} : T[a].of = Q,
           NEW cfl, Local(T, Z, A, B, O, Q, cfl), NEW on, on => old \in Z
    PROVE  Gives(T, Z, Sets(on, box, dow, {}) \o Sets(on, box, rep, {})
                       \o Changes(on, box, rep, At({vel}, Here) \cup cfl)
                       \o Changes(on, box, dow, At({vel}, Here) \cup cfl)
                       \o Changes(on, box, old, At({vel, dow}, Here))
                       \o <<Loop(box, {Set({vel}, At({vel}, Here) \cup cfl), Counts({h})})>>,
                 T, Z \cup When(on, {dow, rep}))
  <1> DEFINE Z1 == Z \cup When(on, {dow})
             Z2 == Z1 \cup When(on, {rep})
             R == At({vel}, Here) \cup cfl
             s1 == Sets(on, box, dow, {})
             s2 == Sets(on, box, rep, {})
             s3 == Changes(on, box, rep, R)
             s4 == Changes(on, box, dow, R)
             s5 == Changes(on, box, old, At({vel, dow}, Here))
             s6 == <<Loop(box, {Set({vel}, R), Counts({h})})>>
  <1>1. \A P, W : Local(T, W, A, B, O, P, {})
    BY DEF Local
  <1>2. Gives(T, Z, s1, T, Z1)
    BY <1>1, LocalSets
  <1>3. Gives(T, Z1, s2, T, Z2)
    <2> HIDE DEF Z1
    <2> QED BY <1>1, LocalSets
  <1>4. Local(T, Z2, A, B, O, Q, R)
    <2>1. Local(T, Z2, A, B, O, Q, At({vel}, Here))
      <3>1. {vel} \subseteq (A \cup B) \cap Z2 /\ \A a \in {vel} : T[a].of \subseteq Q
        OBVIOUS
      <3> HIDE DEF Z2
      <3> QED BY <3>1, LocalHere
    <2>2. Local(T, Z2, A, B, O, Q, cfl)
      <3>1. Z \subseteq Z2
        OBVIOUS
      <3> HIDE DEF Z2
      <3> QED BY <3>1, LocalMore
    <2> QED BY <2>1, <2>2, LocalBoth
  <1>5. on => rep \in Z2 /\ dow \in Z2 /\ old \in Z2
    BY DEF When
  <1>6. vel \in Z2 /\ h \in Z2 /\ T[rep].of = Q /\ T[dow].of = Q /\ T[old].of = Q /\ T[vel].of = Q
    OBVIOUS
  <1>7. on => Local(T, Z2, A, B, O, Q, At({vel, dow}, Here))
    <2> SUFFICES ASSUME on PROVE Local(T, Z2, A, B, O, Q, At({vel, dow}, Here))
      OBVIOUS
    <2>1. {vel, dow} \subseteq (A \cup B) \cap Z2 /\ \A a \in {vel, dow} : T[a].of \subseteq Q
      BY <1>5, <1>6
    <2> HIDE DEF Z2
    <2> QED BY <2>1, LocalHere
  <1>8. Local(T, Z2, A, B, O, T[h].of, At({h}, Here))
    <2>1. {h} \subseteq (A \cup B) \cap Z2 /\ \A a \in {h} : T[a].of \subseteq T[h].of
      BY <1>6
    <2> HIDE DEF Z2
    <2> QED BY <2>1, LocalHere
  <1>z. Z2 = Z \cup When(on, {dow, rep})
    BY DEF When
  <1> HIDE DEF Z1, Z2, R
  <1>9. Gives(T, Z2, s3, T, Z2)
    BY <1>4, <1>5, <1>6, LocalChanges
  <1>10. Gives(T, Z2, s4, T, Z2)
    BY <1>4, <1>5, <1>6, LocalChanges
  <1>11. Gives(T, Z2, s5, T, Z2)
    BY <1>5, <1>6, <1>7, LocalChanges
  <1>12. Gives(T, Z2, s6, T, Z2)
    <2> DEFINE P == T[h].of
               S == At({h}, Here)
               W == {vel}
               X == {}
    <2>1. W \subseteq B /\ \A a \in W : Q \subseteq T[a].of
      BY <1>6
    <2>2. X \subseteq B /\ \A a \in X : P \subseteq T[a].of
      OBVIOUS
    <2>4. Counts({h}) = Set(X, S) /\ Z2 = Z2 \cup W \cup X
      BY <1>6 DEF Counts
    <2> HIDE DEF P, S, W, X
    <2>3. Gives(T, Z2, <<Loop(box, {Set(W, R), Set(X, S)})>>, T, Z2 \cup W \cup X)
      BY <1>4, <1>8, <2>1, <2>2, LocalLoopOfTwo DEF P, S
    <2> QED BY <2>3, <2>4 DEF W
  <1> HIDE DEF s1, s2, s3, s4, s5, s6
  <1>13. Gives(T, Z, s1 \o s2, T, Z2)
    BY <1>2, <1>3, ThenGives
  <1>14. Gives(T, Z, s1 \o s2 \o s3, T, Z2)
    BY <1>9, <1>13, ThenGives
  <1>15. Gives(T, Z, s1 \o s2 \o s3 \o s4, T, Z2)
    BY <1>10, <1>14, ThenGives
  <1>16. Gives(T, Z, s1 \o s2 \o s3 \o s4 \o s5, T, Z2)
    BY <1>11, <1>15, ThenGives
  <1>17. Gives(T, Z, s1 \o s2 \o s3 \o s4 \o s5 \o s6, T, Z2)
    BY <1>12, <1>16, ThenGives
  <1> QED BY <1>17, <1>z DEF s1, s2, s3, s4, s5, s6, R

-----------------------------------------------------------------------------
\* The offsets around a face are where the cells beside it and the corners at its ends are.
LEMMA AroundFaces ==
    /\ <<0, 0>> \in AroundFaceU /\ Here \cup East \subseteq AroundFaceU /\ Here \cup South \subseteq AroundFaceU
    /\ <<0, 0>> \in AroundFaceV /\ Here \cup North \subseteq AroundFaceV /\ Here \cup West \subseteq AroundFaceV
    /\ Here \subseteq AroundFaceU /\ Here \subseteq AroundFaceV
  BY DEF AroundFaceU, AroundFaceV, Here, East, West, North, South

\* Reads of arguments around the box.
LEMMA LocalAround ==
    ASSUME NEW T, NEW Z, NEW A, NEW B, NEW O, NEW Q, NEW X, NEW P, P \subseteq O,
           X \subseteq A \cap Z, \A a \in X : T[a].of \subseteq Q
    PROVE  Local(T, Z, A, B, O, Q, At(X, P))
  BY LocalReads

\* What the truncation in one direction works on
Limits(T, Z, A, B, Q, vel, old, rep, dow, edge, h, on) ==
    /\ {vel, old, rep, dow} \subseteq B /\ {"cell", edge, h} \subseteq A \cap Z /\ vel \in Z /\ (on => old \in Z)
    /\ \A a \in {vel, old, rep, dow} : T[a].of = Q
    /\ \A a \in {"cell", edge} : T[a].of \subseteq Q

\* The truncation of the zonal velocity.
LEMMA LimitUGives ==
    ASSUME NEW T, NEW H, NEW A, NEW B, NEW cfg, Beside(T, H, A, B, AroundFaceU, bxU(cfg)),
           NEW Z, NEW Q, Limits(T, Z, A, B, Q, "u", "u_old", "vel_report_u", "dowrite_u", "face_u", "h_u",
                                  On(cfg, "do_report_u"))
    PROVE  Gives(T, Z, limit_u(cfg), T, Z \cup When(On(cfg, "do_report_u"), {"dowrite_u", "vel_report_u"}))
  <1> DEFINE cfl == At({"face_u"}, Here) \cup At({"cell"}, Here \cup East)
             O == AroundFaceU
  <1>1. Local(T, Z, A, B, O, Q, cfl)
    <2>1. Local(T, Z, A, B, O, Q, At({"face_u"}, Here))
      BY AroundFaces, LocalAround DEF Limits
    <2>2. Local(T, Z, A, B, O, Q, At({"cell"}, Here \cup East))
      BY AroundFaces, LocalAround DEF Limits
    <2> QED BY <2>1, <2>2, LocalBoth
  <1>2. <<0, 0>> \in O
    BY AroundFaces
  <1>3. "u" \in B \cap Z /\ "u_old" \in B /\ "vel_report_u" \in B /\ "dowrite_u" \in B /\ "h_u" \in (A \cup B) \cap Z
    BY DEF Limits
  <1> DEFINE on == On(cfg, "do_report_u")
             box == bxU(cfg)
             vel == "u"
             old == "u_old"
             rep == "vel_report_u"
             dow == "dowrite_u"
             h == "h_u"
  <1> HIDE DEF cfl, O, on, box
  <1>4. Gives(T, Z, Sets(on, box, dow, {}) \o Sets(on, box, rep, {})
                       \o Changes(on, box, rep, At({vel}, Here) \cup cfl)
                       \o Changes(on, box, dow, At({vel}, Here) \cup cfl)
                       \o Changes(on, box, old, At({vel, dow}, Here))
                       \o <<Loop(box, {Set({vel}, At({vel}, Here) \cup cfl), Counts({h})})>>,
                 T, Z \cup When(on, {dow, rep}))
    <2>1. on => old \in Z
      BY DEF on, Limits
    <2>2. Beside(T, H, A, B, O, box)
      BY DEF O, box
    <2>3. \A a \in {vel, old, rep, dow} : T[a].of = Q
      BY DEF Limits
    <2>4. vel \in B \cap Z /\ old \in B /\ rep \in B /\ dow \in B /\ h \in (A \cup B) \cap Z
      BY <1>3
    <2> HIDE DEF vel, old, rep, dow, h
    <2> QED BY <1>1, <1>2, <2>1, <2>2, <2>3, <2>4, LimitGives
  <1> QED BY <1>4 DEF limit_u, on, box, cfl

\* And of the meridional one.
LEMMA LimitVGives ==
    ASSUME NEW T, NEW H, NEW A, NEW B, NEW cfg, Beside(T, H, A, B, AroundFaceV, bxV(cfg)),
           NEW Z, NEW Q, Limits(T, Z, A, B, Q, "v", "v_old", "vel_report_v", "dowrite_v", "face_v", "h_v",
                                  On(cfg, "do_report_v"))
    PROVE  Gives(T, Z, limit_v(cfg), T, Z \cup When(On(cfg, "do_report_v"), {"dowrite_v", "vel_report_v"}))
  <1> DEFINE cfl == At({"face_v"}, Here) \cup At({"cell"}, Here \cup North)
             O == AroundFaceV
  <1>1. Local(T, Z, A, B, O, Q, cfl)
    <2>1. Local(T, Z, A, B, O, Q, At({"face_v"}, Here))
      BY AroundFaces, LocalAround DEF Limits
    <2>2. Local(T, Z, A, B, O, Q, At({"cell"}, Here \cup North))
      BY AroundFaces, LocalAround DEF Limits
    <2> QED BY <2>1, <2>2, LocalBoth
  <1>2. <<0, 0>> \in O
    BY AroundFaces
  <1>3. "v" \in B \cap Z /\ "v_old" \in B /\ "vel_report_v" \in B /\ "dowrite_v" \in B /\ "h_v" \in (A \cup B) \cap Z
    BY DEF Limits
  <1> DEFINE on == On(cfg, "do_report_v")
             box == bxV(cfg)
             vel == "v"
             old == "v_old"
             rep == "vel_report_v"
             dow == "dowrite_v"
             h == "h_v"
  <1> HIDE DEF cfl, O, on, box
  <1>4. Gives(T, Z, Sets(on, box, dow, {}) \o Sets(on, box, rep, {})
                       \o Changes(on, box, rep, At({vel}, Here) \cup cfl)
                       \o Changes(on, box, dow, At({vel}, Here) \cup cfl)
                       \o Changes(on, box, old, At({vel, dow}, Here))
                       \o <<Loop(box, {Set({vel}, At({vel}, Here) \cup cfl), Counts({h})})>>,
                 T, Z \cup When(on, {dow, rep}))
    <2>1. on => old \in Z
      BY DEF on, Limits
    <2>2. Beside(T, H, A, B, O, box)
      BY DEF O, box
    <2>3. \A a \in {vel, old, rep, dow} : T[a].of = Q
      BY DEF Limits
    <2>4. vel \in B \cap Z /\ old \in B /\ rep \in B /\ dow \in B /\ h \in (A \cup B) \cap Z
      BY <1>3
    <2> HIDE DEF vel, old, rep, dow, h
    <2> QED BY <1>1, <1>2, <2>1, <2>2, <2>3, <2>4, LimitGives
  <1> QED BY <1>4 DEF limit_v, on, box, cfl

\* The velocities cut to what the time step allows are promised, and the reports.
LEMMA LimitPromise ==
    ASSUME NEW c, CallOK(c), WideEnough(c), Consistent(c), c.kernel = "vertvisc_limit_vel"
    PROVE  Promise(c)
  <1> DEFINE cfg == c.cfg
             H == c.cfg.halo
             ru == On(cfg, "do_report_u")
             rv == On(cfg, "do_report_v")
             A == {"cell", "face_u", "face_v", "h_u", "h_v"}
             B == {"u", "u_old", "vel_report_u", "dowrite_u"}
             V == {"v", "v_old", "vel_report_v", "dowrite_v"}
             P == A \cup {"u", "v", "u_old", "v_old"}
             Z == A \cup {"u", "v"} \cup When(ru, {"u_old"}) \cup When(rv, {"v_old"})
             Y1 == Z \cup When(ru, {"dowrite_u", "vel_report_u"})
             Y == Y1 \cup When(rv, {"dowrite_v", "vel_report_v"})
  <1>1. Reach(c) = 1 /\ cfg.symmetric \in BOOLEAN
    <2>1. Reach(c) = 1
      BY DEF Reach, ContinuityKernels
    <2> QED BY <2>1 DEF CallOK
  <1>2. PICK k \in {0, 1} : bxU(cfg) = Box(k, 0, 0, 0) /\ bxV(cfg) = Box(0, 0, k, 0)
    BY <1>1, FaceBoxes
  <1>3. A \cap (B \cup V) = {} /\ B \cap V = {}
    OBVIOUS
  <1>4. /\ Results(c) = When(ru, {"vel_report_u", "dowrite_u"}) \cup When(rv, {"vel_report_v", "dowrite_v"})
        /\ Outputs(c) = Results(c) \cup {"u", "v"} \cup When(ru, {"u_old"}) \cup When(rv, {"v_old"})
        /\ KeptApart(c) = {}
    BY DEF Results, Updated, Outputs, KeptApart, Reports
  <1>5. /\ Outputs(c) \subseteq Y /\ Outputs(c) \subseteq B \cup V
        /\ Outputs(c) \cap B \subseteq ZonalFields \ AtCorners /\ Outputs(c) \cap V \subseteq MeridionalFields \ AtCorners
    BY <1>4 DEF ZonalFields, MeridionalFields, AtCorners, QDiagnostics, LimitsAtQ, When
  <1>6. Fringe(c, k, A, B, V)
    <2>1. c.kernel \notin ContinuityKernels \cup {"hor_visc_gme_bt", "smooth_gme_q_pass"}
      BY DEF ContinuityKernels
    <2> HIDE DEF A, B, V
    <2> QED BY <1>1, <1>2, <1>3, <1>5, <2>1 DEF Fringe
  <1> DEFINE T == LocalTable(A, B, V, H, Box(k, 0, 0, 0), Box(0, 0, k, 0), Always(A \cup B \cup V, P))
  <1>u. Uniform(c, T, H, k, A, B, V, P)
    BY <1>6 DEF Uniform
  <1>7. /\ Beside(T, H, A, B, AroundFaceU, bxU(cfg))
        /\ Beside(T, H, A, V, AroundFaceV, bxV(cfg))
        /\ \A a \in A \cup B \cup V : T[a].of = P
    <2> HIDE DEF A, B, V, T, H
    <2> QED BY <1>2, <1>u, UniformHolds
  <1>9. Gives(T, Z, limit_u(cfg), T, Y1)
    <2>1. /\ B = {"u", "u_old", "vel_report_u", "dowrite_u"} /\ {"u", "cell", "face_u", "h_u"} \subseteq Z
          /\ {"cell", "face_u"} \subseteq A /\ "h_u" \in A /\ (ru => "u_old" \in Z)
      BY DEF When
    <2>2. /\ \A a \in {"u", "u_old", "vel_report_u", "dowrite_u"} : T[a].of = P
          /\ \A a \in {"cell", "face_u"} : T[a].of \subseteq P
      BY <1>7
    <2>3. Limits(T, Z, A, B, P, "u", "u_old", "vel_report_u", "dowrite_u", "face_u", "h_u", ru)
      BY <2>1, <2>2 DEF Limits
    <2> HIDE DEF T, A, B, Z, P
    <2> QED BY <1>7, <2>3, LimitUGives
  <1>10. Gives(T, Y1, limit_v(cfg), T, Y)
    <2>1. /\ V = {"v", "v_old", "vel_report_v", "dowrite_v"} /\ {"v", "cell", "face_v", "h_v"} \subseteq Y1
          /\ {"cell", "face_v"} \subseteq A /\ "h_v" \in A /\ (rv => "v_old" \in Y1)
      BY DEF When
    <2>2. /\ \A a \in {"v", "v_old", "vel_report_v", "dowrite_v"} : T[a].of = P
          /\ \A a \in {"cell", "face_v"} : T[a].of \subseteq P
      BY <1>7
    <2>3. Limits(T, Y1, A, V, P, "v", "v_old", "vel_report_v", "dowrite_v", "face_v", "h_v", rv)
      BY <2>1, <2>2 DEF Limits
    <2> HIDE DEF T, A, V, Y1, P
    <2> QED BY <1>7, <2>3, LimitVGives
  <1>11. Gives(T, Z, KernelOf(c), T, Y)
    <2>1. KernelOf(c) = limit_u(cfg) \o limit_v(cfg)
      BY DEF KernelOf, vertvisc_limit_vel
    <2> HIDE DEF T, Z, Y1, Y
    <2> QED BY <1>9, <1>10, <2>1, ThenGives
  <1>12. Delivers(c, T, Z, Y, A \cup B \cup V, P)
    <2>1. Z \subseteq P \cap (A \cup B \cup V)
      BY DEF When
    <2>3. Z \subseteq Passed(c)
      <3>1. ReportsTogether(cfg)
        BY DEF Consistent
      <3>2. /\ Passed(c) = vertvisc_limit_vel_passed(cfg)
        BY DEF Passed
      <3> QED BY <3>1, <3>2 DEF ReportsTogether, vertvisc_limit_vel_passed, When
    <2>2. P \cap Results(c) = {} /\ KeptApart(c) = {} /\ Outputs(c) \subseteq Y
      BY <1>4, <1>5 DEF When
    <2> HIDE DEF A, B, V, T, Y, P, Z
    <2> QED BY <1>11, <2>1, <2>2, <2>3 DEF Delivers
  <1> HIDE DEF A, B, V, T, Y, H, P, Z
  <1> QED BY <1>u, <1>12, UniformPromise

-----------------------------------------------------------------------------
\* One direction of the nonlocal momentum flux: drift is what the Eulerian velocity is found
\* from, depth what the increment is.
LEMMA MixGives ==
    ASSUME NEW T, NEW H, NEW A, NEW B, NEW O, NEW box, Beside(T, H, A, B, O, box), <<0, 0>> \in O,
           NEW Z, NEW Q, NEW vel \in B \cap Z, NEW uE \in B, NEW uInc \in B, \A a \in {vel, uE, uInc} : T[a].of = Q,
           NEW drift, Local(T, Z, A, B, O, Q, drift), NEW depth, Local(T, Z, A, B, O, Q, depth)
    PROVE  Gives(T, Z, <<Loop(box, {Set({uE}, drift), Set({uInc}, depth)}),
                         Loop(box, {Set({vel}, At({vel, uInc}, Here))})>>, T, Z \cup {uE, uInc})
  <1> DEFINE W == {uE}
             X == {uInc}
             Y == Z \cup W \cup X
             V == {vel}
             s1 == Loop(box, {Set(W, drift), Set(X, depth)})
             s2 == Loop(box, {Set(V, At({vel, uInc}, Here))})
  <1>1. W \subseteq B /\ X \subseteq B /\ (\A a \in W : Q \subseteq T[a].of) /\ (\A a \in X : Q \subseteq T[a].of)
    OBVIOUS
  <1>2. V \subseteq B /\ (\A a \in V : Q \subseteq T[a].of)
    OBVIOUS
  <1>3. {vel, uInc} \subseteq (A \cup B) \cap Y /\ \A a \in {vel, uInc} : T[a].of \subseteq Q
    OBVIOUS
  <1>4. Y \cup V = Y /\ Y = Z \cup {uE, uInc}
    OBVIOUS
  <1> HIDE DEF W, X, V, Y
  <1>5. Gives(T, Z, <<s1>>, T, Y)
    BY <1>1, LocalLoopOfTwo DEF Y
  <1>6. Local(T, Y, A, B, O, Q, At({vel, uInc}, Here))
    BY <1>3, LocalHere
  <1>7. Gives(T, Y, <<s2>>, T, Y \cup V)
    BY <1>2, <1>6, LocalLoop
  <1> HIDE DEF s1, s2
  <1>8. Gives(T, Z, <<s1, s2>>, T, Y)
    BY <1>4, <1>5, <1>7, TwoStepsGive
  <1> QED BY <1>4, <1>8 DEF s1, s2, W, X, V

\* The mixed velocities are promised.
LEMMA MixingPromise ==
    ASSUME NEW c, CallOK(c), WideEnough(c), c.kernel = "vertfpmix_tr"
    PROVE  Promise(c)
  <1> DEFINE cfg == c.cfg
             H == c.cfg.halo
             A == {"face_u", "h_u", "taux", "Us_x", "face_v", "h_v", "tauy", "Us_y", "cell", "hbl_h"}
             B == {"u", "uE_u", "uInc_u"}
             V == {"v", "vE_v", "vInc_v"}
             P == A \cup {"u", "v"}
             Y1 == P \cup {"uE_u", "uInc_u"}
             Y == Y1 \cup {"vE_v", "vInc_v"}
  <1>1. Reach(c) = 1 /\ cfg.symmetric \in BOOLEAN
    <2>1. Reach(c) = 1
      BY DEF Reach, ContinuityKernels
    <2> QED BY <2>1 DEF CallOK
  <1>2. PICK k \in {0, 1} : bxU(cfg) = Box(k, 0, 0, 0) /\ bxV(cfg) = Box(0, 0, k, 0)
    BY <1>1, FaceBoxes
  <1>3. A \cap (B \cup V) = {} /\ B \cap V = {}
    OBVIOUS
  <1>4. /\ Results(c) = {"uE_u", "vE_v", "uInc_u", "vInc_v"}
        /\ Outputs(c) = Results(c) \cup {"u", "v"}
        /\ KeptApart(c) = {}
    BY DEF Results, Updated, Outputs, KeptApart
  <1>5. /\ Outputs(c) \subseteq Y /\ Outputs(c) \subseteq B \cup V
        /\ Outputs(c) \cap B \subseteq ZonalFields \ AtCorners /\ Outputs(c) \cap V \subseteq MeridionalFields \ AtCorners
    BY <1>4 DEF ZonalFields, MeridionalFields, AtCorners, QDiagnostics, LimitsAtQ
  <1>6. Fringe(c, k, A, B, V)
    <2>1. c.kernel \notin ContinuityKernels \cup {"hor_visc_gme_bt", "smooth_gme_q_pass"}
      BY DEF ContinuityKernels
    <2> HIDE DEF A, B, V
    <2> QED BY <1>1, <1>2, <1>3, <1>5, <2>1 DEF Fringe
  <1> DEFINE T == LocalTable(A, B, V, H, Box(k, 0, 0, 0), Box(0, 0, k, 0), Always(A \cup B \cup V, P))
  <1>u. Uniform(c, T, H, k, A, B, V, P)
    BY <1>6 DEF Uniform
  <1>7. /\ Beside(T, H, A, B, AroundFaceU, bxU(cfg))
        /\ Beside(T, H, A, V, AroundFaceV, bxV(cfg))
        /\ \A a \in A \cup B \cup V : T[a].of = P
    <2> HIDE DEF A, B, V, T, H
    <2> QED BY <1>2, <1>u, UniformHolds
  <1>9. Gives(T, P, <<Loop(bxU(cfg), {Set({"uE_u"}, At({"u", "Us_x", "face_u"}, Here)),
                                     Set({"uInc_u"}, At({"face_u", "h_u", "taux"}, Here)
                                                    \cup At({"cell", "hbl_h"}, Here \cup East))}),
                     Loop(bxU(cfg), {Set({"u"}, At({"u", "uInc_u"}, Here))})>>, T, Y1)
    <2> DEFINE box == bxU(cfg)
               O == AroundFaceU
               drift == At({"u", "Us_x", "face_u"}, Here)
               near == At({"face_u", "h_u", "taux"}, Here)
               beside == At({"cell", "hbl_h"}, Here \cup East)
               vel == "u"
               uE == "uE_u"
               uInc == "uInc_u"
    <2>1. /\ {"u", "Us_x", "face_u"} \subseteq (A \cup B) \cap P
          /\ \A a \in {"u", "Us_x", "face_u"} : T[a].of \subseteq P
      BY <1>7
    <2>2. /\ {"face_u", "h_u", "taux"} \subseteq (A \cup B) \cap P
          /\ \A a \in {"face_u", "h_u", "taux"} : T[a].of \subseteq P
      BY <1>7
    <2>3. {"cell", "hbl_h"} \subseteq A \cap P /\ \A a \in {"cell", "hbl_h"} : T[a].of \subseteq P
      BY <1>7
    <2>4. /\ vel \in B \cap P /\ uE \in B /\ uInc \in B
          /\ \A a \in {vel, uE, uInc} : T[a].of = P
      BY <1>7
    <2>5. <<0, 0>> \in O /\ Beside(T, H, A, B, O, box) /\ Here \cup East \subseteq O
      BY <1>7, AroundFaces
    <2>y. P \cup {uE, uInc} = Y1
      OBVIOUS
    <2> HIDE DEF T, A, B, V, P, O, box, Y1, Y
    <2>6. Local(T, P, A, B, O, P, drift)
      BY <2>1, <2>5, LocalHere
    <2>7. Local(T, P, A, B, O, P, near)
      BY <2>2, <2>5, LocalHere
    <2>8. Local(T, P, A, B, O, P, beside)
      BY <2>3, <2>5, LocalAround
    <2> HIDE DEF drift, near, beside, vel, uE, uInc
    <2>9. Local(T, P, A, B, O, P, near \cup beside)
      BY <2>7, <2>8, LocalBoth
    <2>10. Gives(T, P, <<Loop(box, {Set({uE}, drift), Set({uInc}, near \cup beside)}),
                          Loop(box, {Set({vel}, At({vel, uInc}, Here))})>>, T, Y1)
      BY <2>4, <2>5, <2>6, <2>9, <2>y, MixGives
    <2> QED BY <2>10 DEF box, drift, near, beside, vel, uE, uInc
  <1>10. Gives(T, Y1, <<Loop(bxV(cfg), {Set({"vE_v"}, At({"v", "Us_y", "face_v"}, Here)),
                                     Set({"vInc_v"}, At({"face_v", "h_v", "tauy"}, Here)
                                                    \cup At({"cell", "hbl_h"}, Here \cup North))}),
                     Loop(bxV(cfg), {Set({"v"}, At({"v", "vInc_v"}, Here))})>>, T, Y)
    <2> DEFINE box == bxV(cfg)
               O == AroundFaceV
               drift == At({"v", "Us_y", "face_v"}, Here)
               near == At({"face_v", "h_v", "tauy"}, Here)
               beside == At({"cell", "hbl_h"}, Here \cup North)
               vel == "v"
               uE == "vE_v"
               uInc == "vInc_v"
    <2>1. /\ {"v", "Us_y", "face_v"} \subseteq (A \cup V) \cap Y1
          /\ \A a \in {"v", "Us_y", "face_v"} : T[a].of \subseteq P
      BY <1>7
    <2>2. /\ {"face_v", "h_v", "tauy"} \subseteq (A \cup V) \cap Y1
          /\ \A a \in {"face_v", "h_v", "tauy"} : T[a].of \subseteq P
      BY <1>7
    <2>3. {"cell", "hbl_h"} \subseteq A \cap Y1 /\ \A a \in {"cell", "hbl_h"} : T[a].of \subseteq P
      BY <1>7
    <2>4. /\ vel \in V \cap Y1 /\ uE \in V /\ uInc \in V
          /\ \A a \in {vel, uE, uInc} : T[a].of = P
      BY <1>7
    <2>5. <<0, 0>> \in O /\ Beside(T, H, A, V, O, box) /\ Here \cup North \subseteq O
      BY <1>7, AroundFaces
    <2>y. Y1 \cup {uE, uInc} = Y
      OBVIOUS
    <2> HIDE DEF T, A, B, V, P, O, box, Y1, Y
    <2>6. Local(T, Y1, A, V, O, P, drift)
      BY <2>1, <2>5, LocalHere
    <2>7. Local(T, Y1, A, V, O, P, near)
      BY <2>2, <2>5, LocalHere
    <2>8. Local(T, Y1, A, V, O, P, beside)
      BY <2>3, <2>5, LocalAround
    <2> HIDE DEF drift, near, beside, vel, uE, uInc
    <2>9. Local(T, Y1, A, V, O, P, near \cup beside)
      BY <2>7, <2>8, LocalBoth
    <2>10. Gives(T, Y1, <<Loop(box, {Set({uE}, drift), Set({uInc}, near \cup beside)}),
                          Loop(box, {Set({vel}, At({vel, uInc}, Here))})>>, T, Y)
      BY <2>4, <2>5, <2>6, <2>9, <2>y, MixGives
    <2> QED BY <2>10 DEF box, drift, near, beside, vel, uE, uInc
  <1>11. Gives(T, P, KernelOf(c), T, Y)
    <2> DEFINE du == At({"face_u", "h_u", "taux"}, Here) \cup At({"cell", "hbl_h"}, Here \cup East)
               dv == At({"face_v", "h_v", "tauy"}, Here) \cup At({"cell", "hbl_h"}, Here \cup North)
               s1 == Loop(bxU(cfg), {Set({"uE_u"}, At({"u", "Us_x", "face_u"}, Here)), Set({"uInc_u"}, du)})
               s2 == Loop(bxU(cfg), {Set({"u"}, At({"u", "uInc_u"}, Here))})
               s3 == Loop(bxV(cfg), {Set({"vE_v"}, At({"v", "Us_y", "face_v"}, Here)), Set({"vInc_v"}, dv)})
               s4 == Loop(bxV(cfg), {Set({"v"}, At({"v", "vInc_v"}, Here))})
    <2>1. KernelOf(c) = <<s1, s2, s3, s4>>
      BY DEF KernelOf, vertfpmix_tr
    <2>2. Gives(T, P, <<s1, s2>>, T, Y1) /\ Gives(T, Y1, <<s3, s4>>, T, Y)
      BY <1>9, <1>10
    <2> HIDE DEF T, P, Y1, Y, s1, s2, s3, s4
    <2>3. Gives(T, P, <<s1, s2>> \o <<s3, s4>>, T, Y)
      BY <2>2, ThenGives
    <2> QED BY <2>1, <2>3, JoinedPairs
  <1>12. Delivers(c, T, P, Y, A \cup B \cup V, P)
    <2>1. P \subseteq P \cap (A \cup B \cup V)
      OBVIOUS
    <2>3. P \subseteq Passed(c)
      BY DEF Passed, vertfpmix_tr_passed, vertfpmix_tr_returned
    <2>2. P \cap Results(c) = {} /\ KeptApart(c) = {} /\ Outputs(c) \subseteq Y
      BY <1>4, <1>5
    <2> HIDE DEF A, B, V, T, Y, P
    <2> QED BY <1>11, <2>1, <2>2, <2>3 DEF Delivers
  <1> HIDE DEF A, B, V, T, Y, H, P
  <1> QED BY <1>u, <1>12, UniformPromise

-----------------------------------------------------------------------------
\* The vertical distances are promised.
LEMMA DistancePromise ==
    ASSUME NEW c, CallOK(c), WideEnough(c), c.kernel = "thickness_to_dz_3d"
    PROVE  Promise(c)
  <1> DEFINE cfg == c.cfg
             H == c.cfg.halo
             k == 0
             A == {"h", "spv_avg"}
             B == {"dz"}
             V == {}
             D == A \cup B \cup V
             Y == A \cup B
             F == Always(D, A)
             T == LocalTable(A, B, V, H, Box(k, 0, 0, 0), Box(0, 0, k, 0), F)
             X == {"h"} \cup When(On(cfg, "has_spv"), {"spv_avg"})
  <1>1. Reach(c) = 1 /\ H \in Nat /\ 1 <= H
    <2>1. Reach(c) = 1
      BY DEF Reach, ContinuityKernels
    <2> QED BY <2>1 DEF CallOK, WideEnough
  <1>2. A \cap (B \cup V) = {} /\ B \cap V = {} /\ k \in {0, 1}
    OBVIOUS
  <1>3. Results(c) = {"dz"} /\ Outputs(c) = {"dz"} /\ KeptApart(c) = {}
    BY DEF Results, Updated, Outputs, KeptApart
  <1>4. bx0 = Box(k, 0, 0, 0)
    BY DEF bx0, Box
  <1>5. Required("dz", c) = bx0
    <2>1. "dz" \notin ZonalFields \cup MeridionalFields \cup AtCorners
      BY DEF ZonalFields, MeridionalFields, AtCorners, QDiagnostics, LimitsAtQ
    <2>2. c.kernel \notin ContinuityKernels \cup {"hor_visc_gme_bt", "smooth_gme_q_pass"}
      BY DEF ContinuityKernels
    <2> QED BY <2>1, <2>2, FacesRequired
  <1>6. \A a \in D : F[a] = A
    BY DEF Always
  <1>7. IsLocal(T, H, A, B, V, k, F)
    <2> HIDE DEF F, A, B, V, k, H
    <2> QED BY <1>1, <1>2 DEF IsLocal
  <1>8. Handed(c, D, F, A)
    <2>1. A \subseteq D /\ \A a \in A : a \in F[a]
      BY <1>6
    <2>2. A \subseteq Passed(c)
      BY DEF Passed, thickness_to_dz_3d_passed
    <2> HIDE DEF F, A, D
    <2> QED BY <2>1, <2>2 DEF Handed
  <1>9. AtFaces(c, B, V, k) /\ Fresh(c, F, Y)
    <2>1. F["dz"] = A /\ A \cap Results(c) = {} /\ Outputs(c) \subseteq Y
      BY <1>3, <1>6
    <2>2. AtFaces(c, B, V, k)
      BY <1>3, <1>4, <1>5 DEF AtFaces
    <2> HIDE DEF F, A, Y
    <2> QED BY <1>3, <2>1, <2>2 DEF Fresh
  <1>10. Gives(T, A, KernelOf(c), T, Y)
    <2>0. /\ Beside(T, H, A, B, AroundFaceU, Box(k, 0, 0, 0))
          /\ \A a \in D : a \in DOMAIN T /\ T[a].of = F[a]
      <3> HIDE DEF T, A, B, V, k, H, F
      <3> QED BY <1>7, LocalTableHolds
    <2>1. X \subseteq (A \cup B) \cap A /\ \A a \in X : T[a].of \subseteq A
      BY <1>6, <2>0 DEF When
    <2>2. B \subseteq B /\ \A a \in B : A \subseteq T[a].of
      BY <1>6, <2>0
    <2> HIDE DEF T, A, B, V, k, H, F, X
    <2>3. Local(T, A, A, B, AroundFaceU, A, At(X, Here))
      BY <2>1, AroundFaces, LocalHere
    <2>4. Gives(T, A, <<Loop(bx0, {Set(B, At(X, Here))})>>, T, Y)
      BY <1>4, <2>0, <2>2, <2>3, LocalLoop
    <2>5. KernelOf(c) = thickness_to_dz_3d(cfg)
      BY DEF KernelOf
    <2> QED BY <2>4, <2>5 DEF thickness_to_dz_3d, B, X
  <1> HIDE DEF T, A, B, V, k, H, F, Y, D
  <1>11. Begins(c, T, A)
    <2>1. H = c.cfg.halo
      BY DEF H
    <2> QED BY <1>7, <1>8, <2>1, LocalBegins DEF D
  <1>12. Ends(c, T, Y)
    BY <1>1, <1>7, <1>9, LocalEnds
  <1> QED BY <1>10, <1>11, <1>12 DEF Promise

-----------------------------------------------------------------------------
\* The coupling coefficients

\* The arguments, those that the coefficients of GL90 may come from, and what comes from
\* no others
CoefArgs(cfg) == {"u", "v", "h", "dz", "cell", "corner", "face_u", "face_v"} \cup GivenOf(cfg, VertFricInputs)
CoefCalm(cfg) == CoefArgs(cfg) \ {"Kv_bbl_u", "Kv_bbl_v", "Kv_shear", "Ustar_2d"}
CoefApart ==
    {"dz_harm", "z_i", "hvel", "dz_vel", "z_i_gl90", "a_cpl_gl90", "hvel_shelf", "dz_vel_shelf",
     "h_u", "a_u_gl90", "Kv_gl90_u", "h_v", "a_v_gl90", "Kv_gl90_v"}

\* The offsets around the faces of one direction
AroundFace(on_u) == IF on_u THEN AroundFaceU ELSE AroundFaceV

\* Claims of that kind, for what is found at the faces of one direction
Coefs(T, H, cfg, on_u, B, box) ==
    /\ Beside(T, H, CoefArgs(cfg), B, AroundFace(on_u), box)
    /\ \A a \in CoefArgs(cfg) \cup B : T[a].of \subseteq CoefArgs(cfg)
    /\ \A a \in CoefCalm(cfg) \cup (B \cap CoefApart) : T[a].of \subseteq CoefCalm(cfg)
    /\ \A a \in B \ CoefApart : CoefArgs(cfg) \subseteq T[a].of
    /\ \A a \in B \cap CoefApart : CoefCalm(cfg) \subseteq T[a].of
    /\ CoefScratch \subseteq B

\* Reads at the cell and beside it, of arguments and of what has been found, for the two
\* kinds of claims.
LEMMA CoefReads ==
    ASSUME NEW T, NEW H, NEW cfg, NEW on_u \in BOOLEAN, NEW B, NEW box, Coefs(T, H, cfg, on_u, B, box),
           NEW Z, CoefArgs(cfg) \subseteq Z
    PROVE  /\ \A X, P : X \subseteq CoefArgs(cfg) /\ P \subseteq AroundFace(on_u) =>
                 Local(T, Z, CoefArgs(cfg), B, AroundFace(on_u), CoefArgs(cfg), At(X, P))
           /\ \A X : X \subseteq CoefArgs(cfg) \cup (B \cap Z) =>
                 Local(T, Z, CoefArgs(cfg), B, AroundFace(on_u), CoefArgs(cfg), At(X, Here))
           /\ \A X, P : X \subseteq CoefCalm(cfg) /\ P \subseteq AroundFace(on_u) =>
                 Local(T, Z, CoefArgs(cfg), B, AroundFace(on_u), CoefCalm(cfg), At(X, P))
           /\ \A X : X \subseteq CoefCalm(cfg) \cup (B \cap CoefApart \cap Z) =>
                 Local(T, Z, CoefArgs(cfg), B, AroundFace(on_u), CoefCalm(cfg), At(X, Here))
           /\ \A Q, R, S : Local(T, Z, CoefArgs(cfg), B, AroundFace(on_u), Q, R)
                           /\ Local(T, Z, CoefArgs(cfg), B, AroundFace(on_u), Q, S) =>
                 Local(T, Z, CoefArgs(cfg), B, AroundFace(on_u), Q, R \cup S)
           /\ \A Q, condition, R : (condition => Local(T, Z, CoefArgs(cfg), B, AroundFace(on_u), Q, R)) =>
                 Local(T, Z, CoefArgs(cfg), B, AroundFace(on_u), Q, When(condition, R))
  <1> DEFINE A == CoefArgs(cfg)
             G == CoefCalm(cfg)
             O == AroundFace(on_u)
  <1>1. <<0, 0>> \in O
    BY AroundFaces DEF AroundFace
  <1>2. G \subseteq A
    BY DEF CoefCalm
  <1>3. /\ \A a \in A \cup B : T[a].of \subseteq A
        /\ \A a \in G \cup (B \cap CoefApart) : T[a].of \subseteq G
    BY DEF Coefs
  <1> HIDE DEF A, G, O
  <1>4. \A X, P : X \subseteq A /\ P \subseteq O => Local(T, Z, A, B, O, A, At(X, P))
    BY <1>3, LocalReads DEF A
  <1>5. \A X : X \subseteq A \cup (B \cap Z) => Local(T, Z, A, B, O, A, At(X, Here))
    BY <1>1, <1>3, LocalReads DEF A
  <1>6. \A X, P : X \subseteq G /\ P \subseteq O => Local(T, Z, A, B, O, G, At(X, P))
    BY <1>2, <1>3, LocalReads DEF A
  <1>7. \A X : X \subseteq G \cup (B \cap CoefApart \cap Z) => Local(T, Z, A, B, O, G, At(X, Here))
    BY <1>1, <1>2, <1>3, LocalReads DEF A
  <1>8. \A Q, R, S : Local(T, Z, A, B, O, Q, R) /\ Local(T, Z, A, B, O, Q, S) => Local(T, Z, A, B, O, Q, R \cup S)
    BY LocalReads
  <1>9. \A Q, condition, R : (condition => Local(T, Z, A, B, O, Q, R)) => Local(T, Z, A, B, O, Q, When(condition, R))
    BY LocalReads
  <1> QED BY <1>4, <1>5, <1>6, <1>7, <1>8, <1>9 DEF A, G, O

\* What the coefficients are computed from is known.
LEMMA CouplingReads ==
    ASSUME NEW T, NEW H, NEW cfg, NEW on_u \in BOOLEAN, NEW B, NEW box, Coefs(T, H, cfg, on_u, B, box),
           NEW Z, CoefArgs(cfg) \subseteq Z, CoefTogether(cfg), {"dz_harm", "z_i", "dz_vel"} \subseteq Z,
           NEW do_shelf \in BOOLEAN, do_shelf => Wanted(cfg, "frac_shelf_u"), NEW hvel \in B \cap Z
    PROVE  /\ Local(T, Z, CoefArgs(cfg), B, AroundFace(on_u), CoefArgs(cfg), MixedLayerDepth(cfg, on_u))
           /\ Local(T, Z, CoefArgs(cfg), B, AroundFace(on_u), CoefArgs(cfg),
                    find_coupling_coef_point(cfg, on_u, do_shelf, hvel))
           /\ On(cfg, "use_GL90_in_SSW") /\ "z_i_gl90" \in Z =>
                 Local(T, Z, CoefArgs(cfg), B, AroundFace(on_u), CoefCalm(cfg), find_coupling_coef_gl90_point(cfg, on_u))
  <1> DEFINE A == CoefArgs(cfg)
             G == CoefCalm(cfg)
             O == AroundFace(on_u)
             L(R) == Local(T, Z, A, B, O, A, R)
             K(R) == Local(T, Z, A, B, O, G, R)
  <1>1. /\ \A X, P : X \subseteq A /\ P \subseteq O => L(At(X, P))
        /\ \A X : X \subseteq A \cup (B \cap Z) => L(At(X, Here))
        /\ \A R, S : L(R) /\ L(S) => L(R \cup S)
        /\ \A condition, R : (condition => L(R)) => L(When(condition, R))
    BY CoefReads
  <1>2. /\ \A X, P : X \subseteq G /\ P \subseteq O => K(At(X, P))
        /\ \A X : X \subseteq G \cup (B \cap CoefApart \cap Z) => K(At(X, Here))
        /\ \A R, S : K(R) /\ K(S) => K(R \cup S)
        /\ \A condition, R : (condition => K(R)) => K(When(condition, R))
    BY CoefReads
  <1> HIDE DEF L, K
  <1>3. CellsBeside(on_u) \subseteq O /\ CornersBeside(on_u) \subseteq O
    BY AroundFaces DEF CellsBeside, CornersBeside, AroundFace
  <1>4. {"dz_harm", "z_i", "dz_vel"} \subseteq B
    BY DEF Coefs, CoefScratch
  <1>5. L(MixedLayerDepth(cfg, on_u))
    <2>1. On(cfg, "dynamic_viscous_ML") => {OfDirection(on_u, "nkml_visc_u", "nkml_visc_v")} \subseteq A
      BY DEF CoefTogether, OfDirection, CoefArgs, GivenOf, VertFricInputs
    <2>2. L(At({"dz_vel"}, Here))
      <3>1. {"dz_vel"} \subseteq A \cup (B \cap Z)
        BY <1>4
      <3> HIDE DEF A
      <3> QED BY <1>1, <3>1
    <2> HIDE DEF A
    <2>3. On(cfg, "dynamic_viscous_ML") => L(At({OfDirection(on_u, "nkml_visc_u", "nkml_visc_v")}, Here))
      BY <1>1, <2>1
    <2> QED BY <1>1, <2>2, <2>3 DEF MixedLayerDepth
  <1>6. L(interior_coupling(cfg, on_u, do_shelf))
    <2> DEFINE bottom == OfDirection(on_u, {"Kv_bbl_u", "bbl_thick_u"}, {"Kv_bbl_v", "bbl_thick_v"})
    <2>1. /\ {"dz_harm"} \subseteq A \cup (B \cap Z) /\ {"z_i"} \subseteq A \cup (B \cap Z)
          /\ GivenOf(cfg, {"Kv_shear"}) \subseteq A /\ GivenOf(cfg, {"Kv_shear_Bu"}) \subseteq A
      BY <1>4 DEF CoefArgs, GivenOf, VertFricInputs
    <2>2. On(cfg, "bottomdraglaw") => {"z_i"} \cup bottom \subseteq A \cup (B \cap Z)
      BY <1>4 DEF CoefTogether, OfDirection, CoefArgs, GivenOf, VertFricInputs
    <2> HIDE DEF A, bottom
    <2>3. /\ L(At({"dz_harm"}, Here)) /\ L(At({"z_i"}, Here))
          /\ L(At(GivenOf(cfg, {"Kv_shear"}), CellsBeside(on_u)))
          /\ L(At(GivenOf(cfg, {"Kv_shear_Bu"}), CornersBeside(on_u)))
          /\ On(cfg, "bottomdraglaw") => L(At({"z_i"} \cup bottom, Here))
      BY <1>1, <1>3, <2>1, <2>2
    <2>4. /\ L(When(On(cfg, "Kvml") /\ ~do_shelf, At({"dz_harm"}, Here)))
          /\ L(When(On(cfg, "bottomdraglaw"), At({"z_i"} \cup bottom, Here)))
          /\ L(When(On(cfg, "Kv_extra_bbl"), At({"z_i"}, Here)))
      BY <1>1, <2>3
    <2> QED BY <1>1, <2>3, <2>4 DEF interior_coupling, bottom
  <1>7. do_shelf => L(shelf_coupling(on_u))
    <2>1. do_shelf => OfDirection(on_u, {"Kv_tbl_shelf_u", "tbl_thick_shelf_u"}, {"Kv_tbl_shelf_v", "tbl_thick_shelf_v"}) \subseteq A
      BY DEF CoefTogether, OfDirection, CoefArgs, GivenOf, VertFricInputs
    <2> HIDE DEF A
    <2> QED BY <1>1, <2>1 DEF shelf_coupling
  <1>8. L(surface_coupling(cfg, on_u))
    <2>1. SurfaceLayer(cfg) => {"Ustar_2d"} \cup GivenOf(cfg, {"SpV_avg"}) \subseteq A
      BY DEF CoefTogether, Wanted, CoefArgs, GivenOf, VertFricInputs
    <2>2. {"corner"} \subseteq A
      BY DEF CoefArgs
    <2> HIDE DEF A
    <2>3. SurfaceLayer(cfg) => L(friction_velocity(cfg, on_u))
      <3>1. SurfaceLayer(cfg) => L(At({"Ustar_2d"} \cup GivenOf(cfg, {"SpV_avg"}), CellsBeside(on_u)))
        BY <1>1, <1>3, <2>1
      <3>2. L(At({"corner"}, CornersBeside(on_u)))
        BY <1>1, <1>3, <2>2
      <3> QED BY <1>1, <3>1, <3>2 DEF friction_velocity
    <2> QED BY <1>1, <1>5, <2>3 DEF surface_coupling
  <1>9. L(find_coupling_coef_point(cfg, on_u, do_shelf, hvel))
    <2>1. {hvel} \subseteq A \cup (B \cap Z)
      OBVIOUS
    <2> HIDE DEF A
    <2>2. L(At({hvel}, Here))
      BY <1>1, <2>1
    <2>3. L(IF do_shelf THEN shelf_coupling(on_u) ELSE surface_coupling(cfg, on_u))
      BY <1>7, <1>8
    <2> QED BY <1>1, <1>6, <2>2, <2>3 DEF find_coupling_coef_point
  <1>10. ASSUME On(cfg, "use_GL90_in_SSW"), "z_i_gl90" \in Z
         PROVE  K(find_coupling_coef_gl90_point(cfg, on_u))
    <2>1. {"corner"} \subseteq G /\ {"z_i_gl90"} \subseteq G \cup (B \cap CoefApart \cap Z)
          /\ {"dz_vel"} \subseteq G \cup (B \cap CoefApart \cap Z)
      BY <1>10, <1>4 DEF CoefCalm, CoefArgs, CoefApart, Coefs, CoefScratch
    <2>2. When(On(cfg, "read_kappa_gl90"), {"kappa_gl90_2d"}) \cup GivenOf(cfg, {"kdgl90_struct"}) \subseteq G
      BY DEF CoefTogether, Wanted, When, CoefCalm, CoefArgs, GivenOf, VertFricInputs
    <2> HIDE DEF A, G
    <2>3. /\ K(At({"corner"}, CornersBeside(on_u))) /\ K(At({"z_i_gl90"}, Here)) /\ K(At({"dz_vel"}, Here))
          /\ K(At(When(On(cfg, "read_kappa_gl90"), {"kappa_gl90_2d"}) \cup GivenOf(cfg, {"kdgl90_struct"}), CellsBeside(on_u)))
      BY <1>2, <1>3, <2>1, <2>2
    <2> QED BY <1>2, <2>3 DEF find_coupling_coef_gl90_point
  <1> QED BY <1>5, <1>9, <1>10 DEF L, K

-----------------------------------------------------------------------------
\* A loop that finds one of the coefficients, or what they are found from, under a condition.
LEMMA CoefSets ==
    ASSUME NEW T, NEW H, NEW cfg, NEW on_u \in BOOLEAN, NEW B, NEW box, Coefs(T, H, cfg, on_u, B, box),
           NEW Z, NEW condition, NEW a \in B, NEW R,
           condition => Local(T, Z, CoefArgs(cfg), B, AroundFace(on_u),
                              IF a \in CoefApart THEN CoefCalm(cfg) ELSE CoefArgs(cfg), R)
    PROVE  Gives(T, Z, Sets(condition, box, a, R), T, Z \cup When(condition, {a}))
  <1> DEFINE A == CoefArgs(cfg)
             O == AroundFace(on_u)
             Q == IF a \in CoefApart THEN CoefCalm(cfg) ELSE CoefArgs(cfg)
  <1>1. Q \subseteq T[a].of
    BY DEF Coefs
  <1>2. Beside(T, H, A, B, O, box)
    BY DEF Coefs
  <1> HIDE DEF Q, A, O
  <1>3. condition => Local(T, Z, A, B, O, T[a].of, R)
    BY <1>1 DEF Local, A, O, Q
  <1> QED BY <1>2, <1>3, LocalSets

\* The thicknesses at zonal faces.
LEMMA ThicknessesAt_uGive ==
    ASSUME NEW T, NEW H, NEW cfg, NEW B, Coefs(T, H, cfg, TRUE, B, bxU(cfg)),
           NEW Z, CoefArgs(cfg) \subseteq Z, CoefTogether(cfg)
    PROVE  Gives(T, Z, thicknesses_at_u(cfg), T,
                 Z \cup {"dz_harm", "z_i", "hvel", "dz_vel"} \cup When(On(cfg, "use_GL90_in_SSW"), {"z_i_gl90"}))
  <1> DEFINE A == CoefArgs(cfg)
             G == CoefCalm(cfg)
             O == AroundFace(TRUE)
             box == bxU(cfg)
             gl90 == On(cfg, "use_GL90_in_SSW")
             beside == At({"dz"}, Here \cup East)
             bbl == When(On(cfg, "bottomdraglaw"), At({"bbl_thick_u"}, Here))
             topography == When(~On(cfg, "harmonic_visc"), At({"cell"}, Here \cup East))
             layers == At({"u", "face_u"}, Here) \cup At({"h", "dz"}, Here \cup East)
             z_i == At({"dz_harm"}, Here) \cup bbl \cup topography \cup beside
             hvel == layers \cup At({"dz_harm", "z_i"}, Here) \cup topography
             W1 == Z \cup When(TRUE, {"dz_harm"})
             W2 == W1 \cup When(TRUE, {"z_i"})
             W3 == W2 \cup {"hvel", "dz_vel"}
             Y == W3 \cup When(gl90, {"z_i_gl90"})
             K(W, R) == Local(T, W, A, B, O, G, R)
  <1>1. /\ {"dz"} \subseteq G /\ {"h", "dz"} \subseteq G /\ {"cell"} \subseteq G /\ {"u", "face_u"} \subseteq G
        /\ On(cfg, "bottomdraglaw") => {"bbl_thick_u"} \subseteq G
    BY DEF CoefCalm, CoefArgs, GivenOf, VertFricInputs, CoefTogether
  <1>2. /\ "dz_harm" \in B \cap CoefApart /\ "z_i" \in B \cap CoefApart /\ "z_i_gl90" \in B \cap CoefApart
        /\ "hvel" \in B \cap CoefApart /\ "dz_vel" \in B \cap CoefApart
    BY DEF Coefs, CoefScratch, CoefApart
  <1>3. Here \cup East \subseteq O /\ Here \subseteq O
    BY AroundFaces DEF AroundFace
  <1>4. ASSUME NEW W, A \subseteq W
        PROVE  /\ \A X, P : X \subseteq G /\ P \subseteq O => K(W, At(X, P))
               /\ \A X : X \subseteq G \cup (B \cap CoefApart \cap W) => K(W, At(X, Here))
               /\ \A R, S : K(W, R) /\ K(W, S) => K(W, R \cup S)
               /\ \A condition, R : (condition => K(W, R)) => K(W, When(condition, R))
    BY <1>4, CoefReads
  <1>5. A \subseteq Z /\ A \subseteq W1 /\ A \subseteq W2 /\ A \subseteq W3
    OBVIOUS
  <1>6. /\ {"dz_harm"} \subseteq G \cup (B \cap CoefApart \cap W1)
        /\ {"dz_harm", "z_i"} \subseteq G \cup (B \cap CoefApart \cap W2)
        /\ {"dz_harm"} \subseteq G \cup (B \cap CoefApart \cap W3)
    BY <1>2 DEF When
  <1>y. Y = Z \cup {"dz_harm", "z_i", "hvel", "dz_vel"} \cup When(gl90, {"z_i_gl90"})
    BY DEF When
  <1> HIDE DEF A, G, O, W1, W2, W3, Y, K, box
  <1>7. K(Z, beside)
    BY <1>1, <1>3, <1>4, <1>5
  <1>8. K(W1, z_i)
    <2>1. /\ K(W1, At({"dz_harm"}, Here)) /\ K(W1, beside)
          /\ On(cfg, "bottomdraglaw") => K(W1, At({"bbl_thick_u"}, Here))
          /\ K(W1, At({"cell"}, Here \cup East))
      BY <1>1, <1>3, <1>4, <1>5, <1>6
    <2>2. K(W1, bbl) /\ K(W1, topography)
      BY <1>4, <1>5, <2>1
    <2> HIDE DEF bbl, topography, beside
    <2> QED BY <1>4, <1>5, <2>1, <2>2
  <1>9. K(W2, hvel)
    <2>1. /\ K(W2, At({"dz_harm", "z_i"}, Here)) /\ K(W2, At({"u", "face_u"}, Here))
          /\ K(W2, At({"h", "dz"}, Here \cup East))
          /\ K(W2, At({"cell"}, Here \cup East))
      BY <1>1, <1>3, <1>4, <1>5, <1>6
    <2>2. K(W2, topography) /\ K(W2, layers)
      BY <1>4, <1>5, <2>1
    <2> HIDE DEF topography, layers
    <2> QED BY <1>4, <1>5, <2>1, <2>2
  <1>10. K(W3, At({"dz_harm"}, Here))
    BY <1>4, <1>5, <1>6
  <1> HIDE DEF beside, z_i, hvel, gl90
  <1> DEFINE s1 == Sets(TRUE, box, "dz_harm", beside)
             s2 == Sets(TRUE, box, "z_i", z_i)
             s3 == <<Loop(box, {Set({"hvel", "dz_vel"}, hvel)})>>
             s4 == Sets(gl90, box, "z_i_gl90", At({"dz_harm"}, Here))
  <1>11. Coefs(T, H, cfg, TRUE, B, box)
    BY DEF box
  <1>12. Gives(T, Z, s1, T, W1)
    BY <1>2, <1>7, <1>11, CoefSets DEF K, A, G, O, W1
  <1>13. Gives(T, W1, s2, T, W2)
    BY <1>2, <1>8, <1>11, CoefSets DEF K, A, G, O, W2
  <1>14. Gives(T, W2, s3, T, W3)
    <2> DEFINE W == {"hvel", "dz_vel"}
    <2>1. W \subseteq B /\ \A a \in W : G \subseteq T[a].of
      BY <1>2 DEF Coefs, G
    <2>2. Beside(T, H, A, B, O, box)
      BY <1>11 DEF Coefs, A, O
    <2>4. W3 = W2 \cup W
      BY DEF W3
    <2> HIDE DEF W
    <2>3. Gives(T, W2, <<Loop(box, {Set(W, hvel)})>>, T, W2 \cup W)
      BY <1>9, <2>1, <2>2, LocalLoop DEF K
    <2> QED BY <2>3, <2>4 DEF W
  <1>15. Gives(T, W3, s4, T, Y)
    BY <1>2, <1>10, <1>11, CoefSets DEF K, A, G, O, Y
  <1>16. thicknesses_at_u(cfg) = s1 \o s2 \o s3 \o s4
    BY Zenon DEF thicknesses_at_u, z_i, hvel, beside, box, gl90
  <1> HIDE DEF s1, s2, s3, s4
  <1>17. Gives(T, Z, s1 \o s2, T, W2)
    BY <1>12, <1>13, ThenGives
  <1>18. Gives(T, Z, s1 \o s2 \o s3, T, W3)
    BY <1>14, <1>17, ThenGives
  <1>19. Gives(T, Z, s1 \o s2 \o s3 \o s4, T, Y)
    BY <1>15, <1>18, ThenGives
  <1> QED BY <1>16, <1>19, <1>y DEF gl90

\* The coefficients under a shelf, at zonal faces.
LEMMA UnderShelf_uGives ==
    ASSUME NEW T, NEW H, NEW cfg, NEW B, Coefs(T, H, cfg, TRUE, B, bxU(cfg)),
           NEW Z, CoefArgs(cfg) \subseteq Z, CoefTogether(cfg), {"dz_harm", "z_i", "hvel", "dz_vel"} \subseteq Z,
           "a1_shelf_u" \in B
    PROVE  Gives(T, Z, coupling_under_shelf_u(cfg), T,
                 Z \cup When(Wanted(cfg, "frac_shelf_u"), {"hvel_shelf", "dz_vel_shelf", "a_shelf", "a1_shelf_u"}))
  <1> DEFINE A == CoefArgs(cfg)
             G == CoefCalm(cfg)
             O == AroundFace(TRUE)
             box == bxU(cfg)
             shelf == Wanted(cfg, "frac_shelf_u")
             upwind == When(~On(cfg, "harmonic_visc"),
                            At({"u", "face_u", "dz_harm", "tbl_thick_shelf_u"}, Here) \cup At({"h", "dz", "cell"}, Here \cup East))
             a_shelf == find_coupling_coef_point(cfg, TRUE, TRUE, "dz_vel_shelf")
             W1 == Z \cup When(shelf, {"hvel_shelf"})
             W2 == W1 \cup When(shelf, {"dz_vel_shelf"})
             W3 == W2 \cup When(shelf, {"a_shelf"})
             Y == W3 \cup When(shelf, {"a1_shelf_u"})
             K(W, R) == Local(T, W, A, B, O, G, R)
  <1>0. shelf => Wanted(cfg, "frac_shelf_u")
    BY DEF CoefTogether, BothDirections, Wanted
  <1>2. /\ "dz_harm" \in B \cap CoefApart /\ "hvel_shelf" \in B \cap CoefApart /\ "dz_vel_shelf" \in B \cap CoefApart
        /\ "hvel" \in B \cap CoefApart /\ "dz_vel" \in B \cap CoefApart
        /\ "a_shelf" \in B \ CoefApart /\ "a1_shelf_u" \in B \ CoefApart
    BY DEF Coefs, CoefScratch, CoefApart
  <1>1. /\ {"h", "dz", "cell"} \subseteq G
        /\ shelf => {"frac_shelf_u"} \subseteq A
        /\ shelf => {"u", "face_u", "dz_harm", "tbl_thick_shelf_u"} \subseteq G \cup (B \cap CoefApart \cap Z)
    BY <1>0, <1>2 DEF CoefCalm, CoefArgs, GivenOf, VertFricInputs, CoefTogether, Wanted
  <1>3. Here \cup East \subseteq O
    BY AroundFaces DEF AroundFace
  <1>5. A \subseteq Z /\ A \subseteq W1 /\ A \subseteq W2 /\ A \subseteq W3 /\ Z \subseteq W1 /\ Z \subseteq W2
    OBVIOUS
  <1>6. /\ {"hvel"} \subseteq G \cup (B \cap CoefApart \cap Z)
        /\ {"dz_vel"} \subseteq G \cup (B \cap CoefApart \cap W1)
        /\ shelf => "dz_vel_shelf" \in B \cap W2
        /\ shelf => {"frac_shelf_u", "a_shelf"} \subseteq A \cup (B \cap W3)
    BY <1>1, <1>2 DEF When
  <1>y. Y = Z \cup When(shelf, {"hvel_shelf", "dz_vel_shelf", "a_shelf", "a1_shelf_u"})
    BY DEF When
  <1>z. {"dz_harm", "z_i", "dz_vel"} \subseteq W2
    OBVIOUS
  <1> HIDE DEF A, G, O, W1, W2, W3, Y, K, box
  <1>4. ASSUME NEW W, A \subseteq W
        PROVE  /\ \A X, P : X \subseteq G /\ P \subseteq O => K(W, At(X, P))
               /\ \A X : X \subseteq G \cup (B \cap CoefApart \cap W) => K(W, At(X, Here))
               /\ \A R, S : K(W, R) /\ K(W, S) => K(W, R \cup S)
               /\ \A condition, R : (condition => K(W, R)) => K(W, When(condition, R))
    BY <1>4, CoefReads DEF K, A, G, O, box
  <1>7. shelf => K(Z, upwind)
    <2> SUFFICES ASSUME shelf PROVE K(Z, upwind)
      OBVIOUS
    <2>1. /\ K(Z, At({"u", "face_u", "dz_harm", "tbl_thick_shelf_u"}, Here))
          /\ K(Z, At({"h", "dz", "cell"}, Here \cup East))
      BY <1>1, <1>3, <1>4, <1>5
    <2> QED BY <1>4, <1>5, <2>1
  <1>8. shelf => K(W1, upwind)
    BY <1>5, <1>7, LocalMore DEF K
  <1> HIDE DEF upwind
  <1>9. shelf => K(Z, At({"hvel"}, Here) \cup upwind)
    BY <1>4, <1>5, <1>6, <1>7
  <1>10. shelf => K(W1, At({"dz_vel"}, Here) \cup upwind)
    BY <1>4, <1>5, <1>6, <1>8
  <1>11. Coefs(T, H, cfg, TRUE, B, box)
    BY DEF box
  <1>12. shelf => Local(T, W2, A, B, O, A, a_shelf)
    BY <1>0, <1>5, <1>6, <1>11, <1>z, CouplingReads DEF A, O
  <1>13. shelf => Local(T, W3, A, B, O, A, At({"frac_shelf_u", "a_shelf"}, Here))
    BY <1>5, <1>6, <1>11, CoefReads DEF A, O
  <1> HIDE DEF a_shelf, shelf
  <1> DEFINE s1 == Sets(shelf, box, "hvel_shelf", At({"hvel"}, Here) \cup upwind)
             s2 == Sets(shelf, box, "dz_vel_shelf", At({"dz_vel"}, Here) \cup upwind)
             s3 == Sets(shelf, box, "a_shelf", a_shelf)
             s4 == Sets(shelf, box, "a1_shelf_u", At({"frac_shelf_u", "a_shelf"}, Here))
  <1>14. Gives(T, Z, s1, T, W1)
    BY <1>2, <1>9, <1>11, CoefSets DEF K, A, G, O, W1
  <1>15. Gives(T, W1, s2, T, W2)
    BY <1>2, <1>10, <1>11, CoefSets DEF K, A, G, O, W2
  <1>16. Gives(T, W2, s3, T, W3)
    BY <1>2, <1>11, <1>12, CoefSets DEF A, O, W3
  <1>17. Gives(T, W3, s4, T, Y)
    BY <1>2, <1>11, <1>13, CoefSets DEF A, O, Y
  <1>18. coupling_under_shelf_u(cfg) = s1 \o s2 \o s3 \o s4
    BY Zenon DEF coupling_under_shelf_u, upwind, a_shelf, box, shelf
  <1> HIDE DEF s1, s2, s3, s4
  <1>19. Gives(T, Z, s1 \o s2, T, W2)
    BY <1>14, <1>15, ThenGives
  <1>20. Gives(T, Z, s1 \o s2 \o s3, T, W3)
    BY <1>16, <1>19, ThenGives
  <1>21. Gives(T, Z, s1 \o s2 \o s3 \o s4, T, Y)
    BY <1>17, <1>20, ThenGives
  <1> QED BY <1>18, <1>21, <1>y DEF shelf

\* The thicknesses at meridional faces.
LEMMA ThicknessesAt_vGive ==
    ASSUME NEW T, NEW H, NEW cfg, NEW B, Coefs(T, H, cfg, FALSE, B, bxV(cfg)),
           NEW Z, CoefArgs(cfg) \subseteq Z, CoefTogether(cfg)
    PROVE  Gives(T, Z, thicknesses_at_v(cfg), T,
                 Z \cup {"dz_harm", "z_i", "hvel", "dz_vel"} \cup When(On(cfg, "use_GL90_in_SSW"), {"z_i_gl90"}))
  <1> DEFINE A == CoefArgs(cfg)
             G == CoefCalm(cfg)
             O == AroundFace(FALSE)
             box == bxV(cfg)
             gl90 == On(cfg, "use_GL90_in_SSW")
             beside == At({"dz"}, Here \cup North)
             bbl == When(On(cfg, "bottomdraglaw"), At({"bbl_thick_v"}, Here))
             topography == When(~On(cfg, "harmonic_visc"), At({"cell"}, Here \cup North))
             layers == At({"v", "face_v"}, Here) \cup At({"h", "dz"}, Here \cup North)
             z_i == At({"dz_harm"}, Here) \cup bbl \cup topography \cup beside
             hvel == layers \cup At({"dz_harm", "z_i"}, Here) \cup topography
             W1 == Z \cup When(TRUE, {"dz_harm"})
             W2 == W1 \cup When(TRUE, {"z_i"})
             W3 == W2 \cup {"hvel", "dz_vel"}
             Y == W3 \cup When(gl90, {"z_i_gl90"})
             K(W, R) == Local(T, W, A, B, O, G, R)
  <1>1. /\ {"dz"} \subseteq G /\ {"h", "dz"} \subseteq G /\ {"cell"} \subseteq G /\ {"v", "face_v"} \subseteq G
        /\ On(cfg, "bottomdraglaw") => {"bbl_thick_v"} \subseteq G
    BY DEF CoefCalm, CoefArgs, GivenOf, VertFricInputs, CoefTogether
  <1>2. /\ "dz_harm" \in B \cap CoefApart /\ "z_i" \in B \cap CoefApart /\ "z_i_gl90" \in B \cap CoefApart
        /\ "hvel" \in B \cap CoefApart /\ "dz_vel" \in B \cap CoefApart
    BY DEF Coefs, CoefScratch, CoefApart
  <1>3. Here \cup North \subseteq O /\ Here \subseteq O
    BY AroundFaces DEF AroundFace
  <1>4. ASSUME NEW W, A \subseteq W
        PROVE  /\ \A X, P : X \subseteq G /\ P \subseteq O => K(W, At(X, P))
               /\ \A X : X \subseteq G \cup (B \cap CoefApart \cap W) => K(W, At(X, Here))
               /\ \A R, S : K(W, R) /\ K(W, S) => K(W, R \cup S)
               /\ \A condition, R : (condition => K(W, R)) => K(W, When(condition, R))
    BY <1>4, CoefReads
  <1>5. A \subseteq Z /\ A \subseteq W1 /\ A \subseteq W2 /\ A \subseteq W3
    OBVIOUS
  <1>6. /\ {"dz_harm"} \subseteq G \cup (B \cap CoefApart \cap W1)
        /\ {"dz_harm", "z_i"} \subseteq G \cup (B \cap CoefApart \cap W2)
        /\ {"dz_harm"} \subseteq G \cup (B \cap CoefApart \cap W3)
    BY <1>2 DEF When
  <1>y. Y = Z \cup {"dz_harm", "z_i", "hvel", "dz_vel"} \cup When(gl90, {"z_i_gl90"})
    BY DEF When
  <1> HIDE DEF A, G, O, W1, W2, W3, Y, K, box
  <1>7. K(Z, beside)
    BY <1>1, <1>3, <1>4, <1>5
  <1>8. K(W1, z_i)
    <2>1. /\ K(W1, At({"dz_harm"}, Here)) /\ K(W1, beside)
          /\ On(cfg, "bottomdraglaw") => K(W1, At({"bbl_thick_v"}, Here))
          /\ K(W1, At({"cell"}, Here \cup North))
      BY <1>1, <1>3, <1>4, <1>5, <1>6
    <2>2. K(W1, bbl) /\ K(W1, topography)
      BY <1>4, <1>5, <2>1
    <2> HIDE DEF bbl, topography, beside
    <2> QED BY <1>4, <1>5, <2>1, <2>2
  <1>9. K(W2, hvel)
    <2>1. /\ K(W2, At({"dz_harm", "z_i"}, Here)) /\ K(W2, At({"v", "face_v"}, Here))
          /\ K(W2, At({"h", "dz"}, Here \cup North))
          /\ K(W2, At({"cell"}, Here \cup North))
      BY <1>1, <1>3, <1>4, <1>5, <1>6
    <2>2. K(W2, topography) /\ K(W2, layers)
      BY <1>4, <1>5, <2>1
    <2> HIDE DEF topography, layers
    <2> QED BY <1>4, <1>5, <2>1, <2>2
  <1>10. K(W3, At({"dz_harm"}, Here))
    BY <1>4, <1>5, <1>6
  <1> HIDE DEF beside, z_i, hvel, gl90
  <1> DEFINE s1 == Sets(TRUE, box, "dz_harm", beside)
             s2 == Sets(TRUE, box, "z_i", z_i)
             s3 == <<Loop(box, {Set({"hvel", "dz_vel"}, hvel)})>>
             s4 == Sets(gl90, box, "z_i_gl90", At({"dz_harm"}, Here))
  <1>11. Coefs(T, H, cfg, FALSE, B, box)
    BY DEF box
  <1>12. Gives(T, Z, s1, T, W1)
    BY <1>2, <1>7, <1>11, CoefSets DEF K, A, G, O, W1
  <1>13. Gives(T, W1, s2, T, W2)
    BY <1>2, <1>8, <1>11, CoefSets DEF K, A, G, O, W2
  <1>14. Gives(T, W2, s3, T, W3)
    <2> DEFINE W == {"hvel", "dz_vel"}
    <2>1. W \subseteq B /\ \A a \in W : G \subseteq T[a].of
      BY <1>2 DEF Coefs, G
    <2>2. Beside(T, H, A, B, O, box)
      BY <1>11 DEF Coefs, A, O
    <2>4. W3 = W2 \cup W
      BY DEF W3
    <2> HIDE DEF W
    <2>3. Gives(T, W2, <<Loop(box, {Set(W, hvel)})>>, T, W2 \cup W)
      BY <1>9, <2>1, <2>2, LocalLoop DEF K
    <2> QED BY <2>3, <2>4 DEF W
  <1>15. Gives(T, W3, s4, T, Y)
    BY <1>2, <1>10, <1>11, CoefSets DEF K, A, G, O, Y
  <1>16. thicknesses_at_v(cfg) = s1 \o s2 \o s3 \o s4
    BY Zenon DEF thicknesses_at_v, z_i, hvel, beside, box, gl90
  <1> HIDE DEF s1, s2, s3, s4
  <1>17. Gives(T, Z, s1 \o s2, T, W2)
    BY <1>12, <1>13, ThenGives
  <1>18. Gives(T, Z, s1 \o s2 \o s3, T, W3)
    BY <1>14, <1>17, ThenGives
  <1>19. Gives(T, Z, s1 \o s2 \o s3 \o s4, T, Y)
    BY <1>15, <1>18, ThenGives
  <1> QED BY <1>16, <1>19, <1>y DEF gl90

\* The coefficients under a shelf, at meridional faces.
LEMMA UnderShelf_vGives ==
    ASSUME NEW T, NEW H, NEW cfg, NEW B, Coefs(T, H, cfg, FALSE, B, bxV(cfg)),
           NEW Z, CoefArgs(cfg) \subseteq Z, CoefTogether(cfg), {"dz_harm", "z_i", "hvel", "dz_vel"} \subseteq Z,
           "a1_shelf_v" \in B
    PROVE  Gives(T, Z, coupling_under_shelf_v(cfg), T,
                 Z \cup When(Wanted(cfg, "frac_shelf_v"), {"hvel_shelf", "dz_vel_shelf", "a_shelf", "a1_shelf_v"}))
  <1> DEFINE A == CoefArgs(cfg)
             G == CoefCalm(cfg)
             O == AroundFace(FALSE)
             box == bxV(cfg)
             shelf == Wanted(cfg, "frac_shelf_v")
             upwind == When(~On(cfg, "harmonic_visc"),
                            At({"v", "face_v", "dz_harm", "tbl_thick_shelf_v"}, Here) \cup At({"h", "dz", "cell"}, Here \cup North))
             a_shelf == find_coupling_coef_point(cfg, FALSE, TRUE, "dz_vel_shelf")
             W1 == Z \cup When(shelf, {"hvel_shelf"})
             W2 == W1 \cup When(shelf, {"dz_vel_shelf"})
             W3 == W2 \cup When(shelf, {"a_shelf"})
             Y == W3 \cup When(shelf, {"a1_shelf_v"})
             K(W, R) == Local(T, W, A, B, O, G, R)
  <1>0. shelf => Wanted(cfg, "frac_shelf_u")
    BY DEF CoefTogether, BothDirections, Wanted
  <1>2. /\ "dz_harm" \in B \cap CoefApart /\ "hvel_shelf" \in B \cap CoefApart /\ "dz_vel_shelf" \in B \cap CoefApart
        /\ "hvel" \in B \cap CoefApart /\ "dz_vel" \in B \cap CoefApart
        /\ "a_shelf" \in B \ CoefApart /\ "a1_shelf_v" \in B \ CoefApart
    BY DEF Coefs, CoefScratch, CoefApart
  <1>1. /\ {"h", "dz", "cell"} \subseteq G
        /\ shelf => {"frac_shelf_v"} \subseteq A
        /\ shelf => {"v", "face_v", "dz_harm", "tbl_thick_shelf_v"} \subseteq G \cup (B \cap CoefApart \cap Z)
    BY <1>0, <1>2 DEF CoefCalm, CoefArgs, GivenOf, VertFricInputs, CoefTogether, Wanted
  <1>3. Here \cup North \subseteq O
    BY AroundFaces DEF AroundFace
  <1>5. A \subseteq Z /\ A \subseteq W1 /\ A \subseteq W2 /\ A \subseteq W3 /\ Z \subseteq W1 /\ Z \subseteq W2
    OBVIOUS
  <1>6. /\ {"hvel"} \subseteq G \cup (B \cap CoefApart \cap Z)
        /\ {"dz_vel"} \subseteq G \cup (B \cap CoefApart \cap W1)
        /\ shelf => "dz_vel_shelf" \in B \cap W2
        /\ shelf => {"frac_shelf_v", "a_shelf"} \subseteq A \cup (B \cap W3)
    BY <1>1, <1>2 DEF When
  <1>y. Y = Z \cup When(shelf, {"hvel_shelf", "dz_vel_shelf", "a_shelf", "a1_shelf_v"})
    BY DEF When
  <1>z. {"dz_harm", "z_i", "dz_vel"} \subseteq W2
    OBVIOUS
  <1> HIDE DEF A, G, O, W1, W2, W3, Y, K, box
  <1>4. ASSUME NEW W, A \subseteq W
        PROVE  /\ \A X, P : X \subseteq G /\ P \subseteq O => K(W, At(X, P))
               /\ \A X : X \subseteq G \cup (B \cap CoefApart \cap W) => K(W, At(X, Here))
               /\ \A R, S : K(W, R) /\ K(W, S) => K(W, R \cup S)
               /\ \A condition, R : (condition => K(W, R)) => K(W, When(condition, R))
    BY <1>4, CoefReads DEF K, A, G, O, box
  <1>7. shelf => K(Z, upwind)
    <2> SUFFICES ASSUME shelf PROVE K(Z, upwind)
      OBVIOUS
    <2>1. /\ K(Z, At({"v", "face_v", "dz_harm", "tbl_thick_shelf_v"}, Here))
          /\ K(Z, At({"h", "dz", "cell"}, Here \cup North))
      BY <1>1, <1>3, <1>4, <1>5
    <2> QED BY <1>4, <1>5, <2>1
  <1>8. shelf => K(W1, upwind)
    BY <1>5, <1>7, LocalMore DEF K
  <1> HIDE DEF upwind
  <1>9. shelf => K(Z, At({"hvel"}, Here) \cup upwind)
    BY <1>4, <1>5, <1>6, <1>7
  <1>10. shelf => K(W1, At({"dz_vel"}, Here) \cup upwind)
    BY <1>4, <1>5, <1>6, <1>8
  <1>11. Coefs(T, H, cfg, FALSE, B, box)
    BY DEF box
  <1>12. shelf => Local(T, W2, A, B, O, A, a_shelf)
    BY <1>0, <1>5, <1>6, <1>11, <1>z, CouplingReads DEF A, O
  <1>13. shelf => Local(T, W3, A, B, O, A, At({"frac_shelf_v", "a_shelf"}, Here))
    BY <1>5, <1>6, <1>11, CoefReads DEF A, O
  <1> HIDE DEF a_shelf, shelf
  <1> DEFINE s1 == Sets(shelf, box, "hvel_shelf", At({"hvel"}, Here) \cup upwind)
             s2 == Sets(shelf, box, "dz_vel_shelf", At({"dz_vel"}, Here) \cup upwind)
             s3 == Sets(shelf, box, "a_shelf", a_shelf)
             s4 == Sets(shelf, box, "a1_shelf_v", At({"frac_shelf_v", "a_shelf"}, Here))
  <1>14. Gives(T, Z, s1, T, W1)
    BY <1>2, <1>9, <1>11, CoefSets DEF K, A, G, O, W1
  <1>15. Gives(T, W1, s2, T, W2)
    BY <1>2, <1>10, <1>11, CoefSets DEF K, A, G, O, W2
  <1>16. Gives(T, W2, s3, T, W3)
    BY <1>2, <1>11, <1>12, CoefSets DEF A, O, W3
  <1>17. Gives(T, W3, s4, T, Y)
    BY <1>2, <1>11, <1>13, CoefSets DEF A, O, Y
  <1>18. coupling_under_shelf_v(cfg) = s1 \o s2 \o s3 \o s4
    BY Zenon DEF coupling_under_shelf_v, upwind, a_shelf, box, shelf
  <1> HIDE DEF s1, s2, s3, s4
  <1>19. Gives(T, Z, s1 \o s2, T, W2)
    BY <1>14, <1>15, ThenGives
  <1>20. Gives(T, Z, s1 \o s2 \o s3, T, W3)
    BY <1>16, <1>19, ThenGives
  <1>21. Gives(T, Z, s1 \o s2 \o s3 \o s4, T, Y)
    BY <1>17, <1>20, ThenGives
  <1> QED BY <1>18, <1>21, <1>y DEF shelf

-----------------------------------------------------------------------------
\* What the call finds at zonal faces
CoefFound_u(cfg) ==
    {"a_u", "h_u"} \cup When(On(cfg, "use_GL90_in_SSW"), {"a_u_gl90"})
    \cup When(Wanted(cfg, "hML_u"), {"hML_u"}) \cup When(Wanted(cfg, "Kv_u"), {"Kv_u"})
    \cup When(Wanted(cfg, "Kv_gl90_u"), {"Kv_gl90_u"}) \cup When(Wanted(cfg, "frac_shelf_u"), {"a1_shelf_u"})

\* All the coefficients at zonal faces.
LEMMA Coef_uGives ==
    ASSUME NEW T, NEW H, NEW cfg, NEW B, Coefs(T, H, cfg, TRUE, B, bxU(cfg)),
           NEW Z, CoefArgs(cfg) \subseteq Z, Z \cap CoefScratch = {}, CoefTogether(cfg),
           {"a_u", "h_u", "a_u_gl90", "hML_u", "Kv_u", "Kv_gl90_u", "a1_shelf_u"} \subseteq B
    PROVE  Gives(T, Z, coef_u(cfg), T, Z \cup CoefFound_u(cfg))
  <1> DEFINE A == CoefArgs(cfg)
             G == CoefCalm(cfg)
             O == AroundFace(TRUE)
             box == bxU(cfg)
             shelf == Wanted(cfg, "frac_shelf_u")
             gl90 == On(cfg, "use_GL90_in_SSW")
             mixed == Wanted(cfg, "hML_u")
             kv == Wanted(cfg, "Kv_u")
             kv90 == Wanted(cfg, "Kv_gl90_u")
             coupled == At({"a_cpl"} \cup When(gl90, {"a_cpl_gl90"}) \cup When(shelf, {"a_shelf", "frac_shelf_u"}), Here)
             a_cpl == find_coupling_coef_point(cfg, TRUE, FALSE, "dz_vel")
             hML == MixedLayerDepth(cfg, TRUE)
             a_cpl_gl90 == find_coupling_coef_gl90_point(cfg, TRUE)
             h == At({"hvel"} \cup When(shelf, {"hvel_shelf", "frac_shelf_u"}), Here)
             layers == {"dz_harm", "z_i", "hvel", "dz_vel"}
             under == {"hvel_shelf", "dz_vel_shelf", "a_shelf", "a1_shelf_u"}
             W2 == Z \cup layers \cup When(gl90, {"z_i_gl90"})
             W3 == W2 \cup When(TRUE, {"a_cpl"})
             W4 == W3 \cup When(mixed, {"hML_u"})
             W5 == W4 \cup When(gl90, {"a_cpl_gl90"})
             W6 == W5 \cup When(shelf, under)
             W7 == W6 \cup When(TRUE, {"a_u"})
             W8 == W7 \cup When(gl90, {"a_u_gl90"})
             W9 == W8 \cup When(TRUE, {"h_u"})
             W10 == W9 \cup When(kv, {"Kv_u"})
             W11 == W10 \cup When(kv90, {"Kv_gl90_u"})
             Y == Z \cup CoefFound_u(cfg)
  <1>0. kv90 => gl90
    BY DEF CoefTogether, Wanted
  <1>1. /\ "hvel" \in B \cap CoefApart /\ "dz_vel" \in B \cap CoefApart /\ "hvel_shelf" \in B \cap CoefApart
        /\ "a_cpl" \in B \ CoefApart /\ "a_shelf" \in B \ CoefApart /\ "a_cpl_gl90" \in B \cap CoefApart
    BY DEF Coefs, CoefScratch, CoefApart
  <1>2. /\ "a_u" \in B \ CoefApart /\ "hML_u" \in B \ CoefApart /\ "Kv_u" \in B \ CoefApart
        /\ "h_u" \in B \cap CoefApart /\ "a_u_gl90" \in B \cap CoefApart /\ "Kv_gl90_u" \in B \cap CoefApart
        /\ "a1_shelf_u" \in B
    BY DEF CoefApart
  <1>3. shelf => /\ {"frac_shelf_u"} \subseteq A /\ {"frac_shelf_u"} \subseteq G
    BY DEF CoefCalm, CoefArgs, GivenOf, VertFricInputs, Wanted
  <1>4. /\ A \subseteq Z /\ A \subseteq W2 /\ A \subseteq W3 /\ A \subseteq W4 /\ A \subseteq W5 /\ A \subseteq W6
        /\ A \subseteq W7 /\ A \subseteq W8 /\ A \subseteq W9 /\ A \subseteq W10
    OBVIOUS
  <1>5. {"dz_harm", "z_i", "dz_vel"} \subseteq W2 /\ {"dz_harm", "z_i", "dz_vel"} \subseteq W3 /\ {"dz_harm", "z_i", "dz_vel"} \subseteq W4
        /\ {"dz_harm", "z_i", "hvel", "dz_vel"} \subseteq W5
    OBVIOUS
  <1>6. /\ gl90 => "z_i_gl90" \in W4
        /\ "dz_vel" \in B \cap W2 /\ "dz_vel" \in B \cap W3 /\ "dz_vel" \in B \cap W4
    BY <1>1 DEF When
  <1>7. {"a_cpl"} \cup When(gl90, {"a_cpl_gl90"}) \cup When(shelf, {"a_shelf", "frac_shelf_u"}) \subseteq A \cup (B \cap W6)
    BY <1>1, <1>3 DEF When
  <1>8. {"hvel"} \cup When(shelf, {"hvel_shelf", "frac_shelf_u"}) \subseteq G \cup (B \cap CoefApart \cap W8)
    BY <1>1, <1>3 DEF When
  <1>9. /\ gl90 => {"a_cpl_gl90"} \subseteq G \cup (B \cap CoefApart \cap W7)
        /\ {"a_u", "h_u"} \subseteq A \cup (B \cap W9)
        /\ kv90 => {"a_u_gl90", "h_u"} \subseteq G \cup (B \cap CoefApart \cap W10)
    BY <1>0, <1>1, <1>2 DEF When
  <1>y. Y \subseteq W11
    BY DEF When, CoefFound_u
  <1>x. Coefs(T, H, cfg, TRUE, B, box)
    OBVIOUS
  <1> HIDE DEF A, G, O, W2, W3, W4, W5, W6, W7, W8, W9, W10, W11, Y, box, shelf, layers, under, kv, kv90, mixed
  <1>10. Local(T, W2, A, B, O, A, a_cpl)
    BY <1>4, <1>5, <1>6, <1>x, CouplingReads DEF A, O
  <1>11. Local(T, W3, A, B, O, A, hML)
    BY <1>4, <1>5, <1>6, <1>x, CouplingReads DEF A, O
  <1>12. gl90 => Local(T, W4, A, B, O, G, a_cpl_gl90)
    BY <1>4, <1>5, <1>6, <1>x, CouplingReads DEF A, O, G
  <1>13. Local(T, W6, A, B, O, A, coupled)
    BY <1>4, <1>7, <1>x, CoefReads DEF A, O
  <1>14. gl90 => Local(T, W7, A, B, O, G, At({"a_cpl_gl90"}, Here))
    BY <1>4, <1>9, <1>x, CoefReads DEF A, O, G
  <1>15. Local(T, W8, A, B, O, G, h)
    BY <1>4, <1>8, <1>x, CoefReads DEF A, O, G
  <1>16. Local(T, W9, A, B, O, A, At({"a_u", "h_u"}, Here))
    BY <1>4, <1>9, <1>x, CoefReads DEF A, O
  <1>17. kv90 => Local(T, W10, A, B, O, G, At({"a_u_gl90", "h_u"}, Here))
    BY <1>4, <1>9, <1>x, CoefReads DEF A, O, G
  <1> HIDE DEF gl90, coupled, a_cpl, hML, a_cpl_gl90, h
  <1> DEFINE s1 == <<Scratch(box, CoefScratch)>>
             s2 == thicknesses_at_u(cfg)
             s3 == Sets(TRUE, box, "a_cpl", a_cpl)
             s4 == Sets(mixed, box, "hML_u", hML)
             s5 == Sets(gl90, box, "a_cpl_gl90", a_cpl_gl90)
             s6 == coupling_under_shelf_u(cfg)
             s7 == Sets(TRUE, box, "a_u", coupled)
             s8 == Sets(gl90, box, "a_u_gl90", At({"a_cpl_gl90"}, Here))
             s9 == Sets(TRUE, box, "h_u", h)
             s10 == Sets(kv, box, "Kv_u", At({"a_u", "h_u"}, Here))
             s11 == Sets(kv90, box, "Kv_gl90_u", At({"a_u_gl90", "h_u"}, Here))
  <1>21. Gives(T, Z, s1, T, Z)
    BY ScratchGives
  <1>22. Gives(T, Z, s2, T, W2)
    BY <1>4, ThicknessesAt_uGive DEF A, W2, layers, gl90
  <1>23. Gives(T, W2, s3, T, W3)
    BY <1>1, <1>10, <1>x, CoefSets DEF A, O, W3
  <1>24. Gives(T, W3, s4, T, W4)
    BY <1>2, <1>11, <1>x, CoefSets DEF A, O, W4
  <1>25. Gives(T, W4, s5, T, W5)
    BY <1>1, <1>12, <1>x, CoefSets DEF A, O, G, W5
  <1>26. Gives(T, W5, s6, T, W6)
    BY <1>2, <1>4, <1>5, UnderShelf_uGives DEF A, W6, shelf, under
  <1>27. Gives(T, W6, s7, T, W7)
    BY <1>2, <1>13, <1>x, CoefSets DEF A, O, W7
  <1>28. Gives(T, W7, s8, T, W8)
    BY <1>2, <1>14, <1>x, CoefSets DEF A, O, G, W8
  <1>29. Gives(T, W8, s9, T, W9)
    BY <1>2, <1>15, <1>x, CoefSets DEF A, O, G, W9
  <1>30. Gives(T, W9, s10, T, W10)
    BY <1>2, <1>16, <1>x, CoefSets DEF A, O, W10
  <1>31. Gives(T, W10, s11, T, W11)
    BY <1>2, <1>17, <1>x, CoefSets DEF A, O, G, W11
  <1>32. coef_u(cfg) = s1 \o s2 \o s3 \o s4 \o s5 \o s6 \o s7 \o s8 \o s9 \o s10 \o s11
    BY Zenon DEF coef_u, coupled, a_cpl, hML, a_cpl_gl90, h, shelf, gl90, kv, kv90, mixed, box
  <1> HIDE DEF s1, s2, s3, s4, s5, s6, s7, s8, s9, s10, s11
  <1>33. Gives(T, Z, s1 \o s2 \o s3, T, W3)
    BY <1>21, <1>22, <1>23, ThenGives
  <1>34. Gives(T, Z, s1 \o s2 \o s3 \o s4 \o s5, T, W5)
    BY <1>33, <1>24, <1>25, ThenGives
  <1>35. Gives(T, Z, s1 \o s2 \o s3 \o s4 \o s5 \o s6 \o s7, T, W7)
    BY <1>34, <1>26, <1>27, ThenGives
  <1>36. Gives(T, Z, s1 \o s2 \o s3 \o s4 \o s5 \o s6 \o s7 \o s8 \o s9, T, W9)
    BY <1>35, <1>28, <1>29, ThenGives
  <1>37. Gives(T, Z, s1 \o s2 \o s3 \o s4 \o s5 \o s6 \o s7 \o s8 \o s9 \o s10 \o s11, T, W11)
    BY <1>36, <1>30, <1>31, ThenGives
  <1>38. Follows(T, W11, T, Y)
    BY <1>y DEF Follows
  <1>39. Gives(T, Z, coef_u(cfg), T, Y)
    BY <1>32, <1>37, <1>38, GivesLess
  <1> QED BY <1>39 DEF Y

\* What the call finds at meridional faces
CoefFound_v(cfg) ==
    {"a_v", "h_v"} \cup When(On(cfg, "use_GL90_in_SSW"), {"a_v_gl90"})
    \cup When(Wanted(cfg, "hML_v"), {"hML_v"}) \cup When(Wanted(cfg, "Kv_v"), {"Kv_v"})
    \cup When(Wanted(cfg, "Kv_gl90_v"), {"Kv_gl90_v"}) \cup When(Wanted(cfg, "frac_shelf_v"), {"a1_shelf_v"})

\* All the coefficients at meridional faces.
LEMMA Coef_vGives ==
    ASSUME NEW T, NEW H, NEW cfg, NEW B, Coefs(T, H, cfg, FALSE, B, bxV(cfg)),
           NEW Z, CoefArgs(cfg) \subseteq Z, Z \cap CoefScratch = {}, CoefTogether(cfg),
           {"a_v", "h_v", "a_v_gl90", "hML_v", "Kv_v", "Kv_gl90_v", "a1_shelf_v"} \subseteq B
    PROVE  Gives(T, Z, coef_v(cfg), T, Z \cup CoefFound_v(cfg))
  <1> DEFINE A == CoefArgs(cfg)
             G == CoefCalm(cfg)
             O == AroundFace(FALSE)
             box == bxV(cfg)
             shelf == Wanted(cfg, "frac_shelf_v")
             gl90 == On(cfg, "use_GL90_in_SSW")
             mixed == Wanted(cfg, "hML_v")
             kv == Wanted(cfg, "Kv_v")
             kv90 == Wanted(cfg, "Kv_gl90_v")
             coupled == At({"a_cpl"} \cup When(gl90, {"a_cpl_gl90"}) \cup When(shelf, {"a_shelf", "frac_shelf_v"}), Here)
             a_cpl == find_coupling_coef_point(cfg, FALSE, FALSE, "dz_vel")
             hML == MixedLayerDepth(cfg, FALSE)
             a_cpl_gl90 == find_coupling_coef_gl90_point(cfg, FALSE)
             h == At({"hvel"} \cup When(shelf, {"hvel_shelf", "frac_shelf_v"}), Here)
             layers == {"dz_harm", "z_i", "hvel", "dz_vel"}
             under == {"hvel_shelf", "dz_vel_shelf", "a_shelf", "a1_shelf_v"}
             W2 == Z \cup layers \cup When(gl90, {"z_i_gl90"})
             W3 == W2 \cup When(TRUE, {"a_cpl"})
             W4 == W3 \cup When(mixed, {"hML_v"})
             W5 == W4 \cup When(gl90, {"a_cpl_gl90"})
             W6 == W5 \cup When(shelf, under)
             W7 == W6 \cup When(TRUE, {"a_v"})
             W8 == W7 \cup When(gl90, {"a_v_gl90"})
             W9 == W8 \cup When(TRUE, {"h_v"})
             W10 == W9 \cup When(kv, {"Kv_v"})
             W11 == W10 \cup When(kv90, {"Kv_gl90_v"})
             Y == Z \cup CoefFound_v(cfg)
  <1>0. kv90 => gl90
    BY DEF CoefTogether, Wanted
  <1>1. /\ "hvel" \in B \cap CoefApart /\ "dz_vel" \in B \cap CoefApart /\ "hvel_shelf" \in B \cap CoefApart
        /\ "a_cpl" \in B \ CoefApart /\ "a_shelf" \in B \ CoefApart /\ "a_cpl_gl90" \in B \cap CoefApart
    BY DEF Coefs, CoefScratch, CoefApart
  <1>2. /\ "a_v" \in B \ CoefApart /\ "hML_v" \in B \ CoefApart /\ "Kv_v" \in B \ CoefApart
        /\ "h_v" \in B \cap CoefApart /\ "a_v_gl90" \in B \cap CoefApart /\ "Kv_gl90_v" \in B \cap CoefApart
        /\ "a1_shelf_v" \in B
    BY DEF CoefApart
  <1>3. shelf => /\ {"frac_shelf_v"} \subseteq A /\ {"frac_shelf_v"} \subseteq G
    BY DEF CoefCalm, CoefArgs, GivenOf, VertFricInputs, Wanted
  <1>4. /\ A \subseteq Z /\ A \subseteq W2 /\ A \subseteq W3 /\ A \subseteq W4 /\ A \subseteq W5 /\ A \subseteq W6
        /\ A \subseteq W7 /\ A \subseteq W8 /\ A \subseteq W9 /\ A \subseteq W10
    OBVIOUS
  <1>5. {"dz_harm", "z_i", "dz_vel"} \subseteq W2 /\ {"dz_harm", "z_i", "dz_vel"} \subseteq W3 /\ {"dz_harm", "z_i", "dz_vel"} \subseteq W4
        /\ {"dz_harm", "z_i", "hvel", "dz_vel"} \subseteq W5
    OBVIOUS
  <1>6. /\ gl90 => "z_i_gl90" \in W4
        /\ "dz_vel" \in B \cap W2 /\ "dz_vel" \in B \cap W3 /\ "dz_vel" \in B \cap W4
    BY <1>1 DEF When
  <1>7. {"a_cpl"} \cup When(gl90, {"a_cpl_gl90"}) \cup When(shelf, {"a_shelf", "frac_shelf_v"}) \subseteq A \cup (B \cap W6)
    BY <1>1, <1>3 DEF When
  <1>8. {"hvel"} \cup When(shelf, {"hvel_shelf", "frac_shelf_v"}) \subseteq G \cup (B \cap CoefApart \cap W8)
    BY <1>1, <1>3 DEF When
  <1>9. /\ gl90 => {"a_cpl_gl90"} \subseteq G \cup (B \cap CoefApart \cap W7)
        /\ {"a_v", "h_v"} \subseteq A \cup (B \cap W9)
        /\ kv90 => {"a_v_gl90", "h_v"} \subseteq G \cup (B \cap CoefApart \cap W10)
    BY <1>0, <1>1, <1>2 DEF When
  <1>y. Y \subseteq W11
    BY DEF When, CoefFound_v
  <1>x. Coefs(T, H, cfg, FALSE, B, box)
    OBVIOUS
  <1> HIDE DEF A, G, O, W2, W3, W4, W5, W6, W7, W8, W9, W10, W11, Y, box, shelf, layers, under, kv, kv90, mixed
  <1>10. Local(T, W2, A, B, O, A, a_cpl)
    BY <1>4, <1>5, <1>6, <1>x, CouplingReads DEF A, O
  <1>11. Local(T, W3, A, B, O, A, hML)
    BY <1>4, <1>5, <1>6, <1>x, CouplingReads DEF A, O
  <1>12. gl90 => Local(T, W4, A, B, O, G, a_cpl_gl90)
    BY <1>4, <1>5, <1>6, <1>x, CouplingReads DEF A, O, G
  <1>13. Local(T, W6, A, B, O, A, coupled)
    BY <1>4, <1>7, <1>x, CoefReads DEF A, O
  <1>14. gl90 => Local(T, W7, A, B, O, G, At({"a_cpl_gl90"}, Here))
    BY <1>4, <1>9, <1>x, CoefReads DEF A, O, G
  <1>15. Local(T, W8, A, B, O, G, h)
    BY <1>4, <1>8, <1>x, CoefReads DEF A, O, G
  <1>16. Local(T, W9, A, B, O, A, At({"a_v", "h_v"}, Here))
    BY <1>4, <1>9, <1>x, CoefReads DEF A, O
  <1>17. kv90 => Local(T, W10, A, B, O, G, At({"a_v_gl90", "h_v"}, Here))
    BY <1>4, <1>9, <1>x, CoefReads DEF A, O, G
  <1> HIDE DEF gl90, coupled, a_cpl, hML, a_cpl_gl90, h
  <1> DEFINE s1 == <<Scratch(box, CoefScratch)>>
             s2 == thicknesses_at_v(cfg)
             s3 == Sets(TRUE, box, "a_cpl", a_cpl)
             s4 == Sets(mixed, box, "hML_v", hML)
             s5 == Sets(gl90, box, "a_cpl_gl90", a_cpl_gl90)
             s6 == coupling_under_shelf_v(cfg)
             s7 == Sets(TRUE, box, "a_v", coupled)
             s8 == Sets(gl90, box, "a_v_gl90", At({"a_cpl_gl90"}, Here))
             s9 == Sets(TRUE, box, "h_v", h)
             s10 == Sets(kv, box, "Kv_v", At({"a_v", "h_v"}, Here))
             s11 == Sets(kv90, box, "Kv_gl90_v", At({"a_v_gl90", "h_v"}, Here))
  <1>21. Gives(T, Z, s1, T, Z)
    BY ScratchGives
  <1>22. Gives(T, Z, s2, T, W2)
    BY <1>4, ThicknessesAt_vGive DEF A, W2, layers, gl90
  <1>23. Gives(T, W2, s3, T, W3)
    BY <1>1, <1>10, <1>x, CoefSets DEF A, O, W3
  <1>24. Gives(T, W3, s4, T, W4)
    BY <1>2, <1>11, <1>x, CoefSets DEF A, O, W4
  <1>25. Gives(T, W4, s5, T, W5)
    BY <1>1, <1>12, <1>x, CoefSets DEF A, O, G, W5
  <1>26. Gives(T, W5, s6, T, W6)
    BY <1>2, <1>4, <1>5, UnderShelf_vGives DEF A, W6, shelf, under
  <1>27. Gives(T, W6, s7, T, W7)
    BY <1>2, <1>13, <1>x, CoefSets DEF A, O, W7
  <1>28. Gives(T, W7, s8, T, W8)
    BY <1>2, <1>14, <1>x, CoefSets DEF A, O, G, W8
  <1>29. Gives(T, W8, s9, T, W9)
    BY <1>2, <1>15, <1>x, CoefSets DEF A, O, G, W9
  <1>30. Gives(T, W9, s10, T, W10)
    BY <1>2, <1>16, <1>x, CoefSets DEF A, O, W10
  <1>31. Gives(T, W10, s11, T, W11)
    BY <1>2, <1>17, <1>x, CoefSets DEF A, O, G, W11
  <1>32. coef_v(cfg) = s1 \o s2 \o s3 \o s4 \o s5 \o s6 \o s7 \o s8 \o s9 \o s10 \o s11
    BY Zenon DEF coef_v, coupled, a_cpl, hML, a_cpl_gl90, h, shelf, gl90, kv, kv90, mixed, box
  <1> HIDE DEF s1, s2, s3, s4, s5, s6, s7, s8, s9, s10, s11
  <1>33. Gives(T, Z, s1 \o s2 \o s3, T, W3)
    BY <1>21, <1>22, <1>23, ThenGives
  <1>34. Gives(T, Z, s1 \o s2 \o s3 \o s4 \o s5, T, W5)
    BY <1>33, <1>24, <1>25, ThenGives
  <1>35. Gives(T, Z, s1 \o s2 \o s3 \o s4 \o s5 \o s6 \o s7, T, W7)
    BY <1>34, <1>26, <1>27, ThenGives
  <1>36. Gives(T, Z, s1 \o s2 \o s3 \o s4 \o s5 \o s6 \o s7 \o s8 \o s9, T, W9)
    BY <1>35, <1>28, <1>29, ThenGives
  <1>37. Gives(T, Z, s1 \o s2 \o s3 \o s4 \o s5 \o s6 \o s7 \o s8 \o s9 \o s10 \o s11, T, W11)
    BY <1>36, <1>30, <1>31, ThenGives
  <1>38. Follows(T, W11, T, Y)
    BY <1>y DEF Follows
  <1>39. Gives(T, Z, coef_v(cfg), T, Y)
    BY <1>32, <1>37, <1>38, GivesLess
  <1> QED BY <1>39 DEF Y

-----------------------------------------------------------------------------
\* The results at the faces of each direction
CoefAt_u == {"a_u", "h_u", "a_u_gl90", "hML_u", "Kv_u", "Kv_gl90_u", "a1_shelf_u"}
CoefAt_v == {"a_v", "h_v", "a_v_gl90", "hML_v", "Kv_v", "Kv_gl90_v", "a1_shelf_v"}

\* What each array comes from
CoefFrom(cfg) ==
    [a \in CoefArgs(cfg) \cup CoefAt_u \cup CoefAt_v \cup CoefScratch |->
        IF a \in CoefArgs(cfg) THEN {a} ELSE IF a \in CoefApart THEN CoefCalm(cfg) ELSE CoefArgs(cfg)]

\* Claims of that kind are as the lemmas on the coefficients want them.
LEMMA CoefTables ==
    ASSUME NEW cfg, NEW T, NEW H, NEW A, A = CoefArgs(cfg), NEW B, NEW V, NEW k, NEW F, F = CoefFrom(cfg),
           IsLocal(T, H, A, B, V, k, F), B \cup V = CoefAt_u \cup CoefAt_v \cup CoefScratch
    PROVE  /\ CoefScratch \subseteq B => Coefs(T, H, cfg, TRUE, B, Box(k, 0, 0, 0))
           /\ CoefScratch \subseteq V => Coefs(T, H, cfg, FALSE, V, Box(0, 0, k, 0))
  <1>1. A \cap (B \cup V) = {}
    BY DEF IsLocal
  <1>2. CoefCalm(cfg) \subseteq A
    BY DEF CoefCalm
  <1>3. \A a \in A : F[a] = {a}
    BY DEF CoefFrom
  <1>4. \A a \in B \cup V : F[a] = IF a \in CoefApart THEN CoefCalm(cfg) ELSE A
    BY <1>1 DEF CoefFrom
  <1>5. /\ Beside(T, H, A, B, AroundFaceU, Box(k, 0, 0, 0))
        /\ Beside(T, H, A, V, AroundFaceV, Box(0, 0, k, 0))
        /\ \A a \in A \cup B \cup V : T[a].of = F[a]
    BY LocalTableHolds
  <1>6. \A X \in {B, V} : /\ \A a \in A \cup X : T[a].of \subseteq A
                          /\ \A a \in CoefCalm(cfg) \cup (X \cap CoefApart) : T[a].of \subseteq CoefCalm(cfg)
                          /\ \A a \in X \ CoefApart : A \subseteq T[a].of
                          /\ \A a \in X \cap CoefApart : CoefCalm(cfg) \subseteq T[a].of
    BY <1>2, <1>3, <1>4, <1>5
  <1>7. CoefScratch \subseteq B => Coefs(T, H, cfg, TRUE, B, Box(k, 0, 0, 0))
    BY <1>5, <1>6 DEF Coefs, AroundFace
  <1>8. CoefScratch \subseteq V => Coefs(T, H, cfg, FALSE, V, Box(0, 0, k, 0))
    BY <1>5, <1>6 DEF Coefs, AroundFace
  <1> QED BY <1>7, <1>8

\* The coupling coefficients are promised: the scratch arrays are those of the zonal faces
\* first, and then those of the meridional ones.
LEMMA CoefPromise ==
    ASSUME NEW c, CallOK(c), WideEnough(c), Consistent(c), c.kernel = "vertvisc_coef_tr"
    PROVE  Promise(c)
  <1> DEFINE cfg == c.cfg
             H == c.cfg.halo
             A == CoefArgs(cfg)
             B == CoefAt_u
             V == CoefAt_v
             BS == B \cup CoefScratch
             VS == V \cup CoefScratch
             F == CoefFrom(cfg)
             Y1 == A \cup CoefFound_u(cfg)
             Y == Y1 \cup CoefFound_v(cfg)
  <1>1. /\ Reach(c) = 1 /\ cfg.symmetric \in BOOLEAN /\ H \in Nat /\ 1 <= H
        /\ cfg.given \subseteq VertFricInputs \cup VelocityReports \cup TendencyOutputs \cup StressOutputs
                              \cup WorkOutputs \cup ShelfCoupling \cup GL90Coupling \cup CoefOutputs
        /\ CoefTogether(cfg)
    <2>1. Reach(c) = 1
      BY DEF Reach, ContinuityKernels
    <2>2. c.kernel \in FrictionKernels /\ c.kernel \notin ContinuityKernels
      BY DEF FrictionKernels, ContinuityKernels
    <2>3. CoefTogether(cfg)
      BY DEF Consistent
    <2>4. cfg.symmetric \in BOOLEAN /\ H \in Nat /\ 1 <= H
      BY <2>1 DEF CallOK, WideEnough
    <2>5. cfg.given \subseteq VertFricInputs \cup VelocityReports \cup TendencyOutputs \cup StressOutputs
                              \cup WorkOutputs \cup ShelfCoupling \cup GL90Coupling \cup CoefOutputs
      BY <2>2 DEF CallOK
    <2> QED BY <2>1, <2>3, <2>4, <2>5
  <1>2. PICK k \in {0, 1} : bxU(cfg) = Box(k, 0, 0, 0) /\ bxV(cfg) = Box(0, 0, k, 0)
    BY <1>1, FaceBoxes
  <1>3. /\ A \cap (BS \cup V) = {} /\ BS \cap V = {} /\ A \cap (B \cup VS) = {} /\ B \cap VS = {}
        /\ A \cap CoefScratch = {}
    BY DEF CoefArgs, GivenOf, VertFricInputs, CoefAt_u, CoefAt_v, CoefScratch
  <1> DEFINE T == LocalTable(A, BS, V, H, Box(k, 0, 0, 0), Box(0, 0, k, 0), F)
             S == LocalTable(A, B, VS, H, Box(k, 0, 0, 0), Box(0, 0, k, 0), F)
  <1>4. IsLocal(T, H, A, BS, V, k, F) /\ IsLocal(S, H, A, B, VS, k, F)
    <2> HIDE DEF A, B, V, BS, VS, F, H
    <2> QED BY <1>1, <1>3 DEF IsLocal
  <1>5. BS \cup V = CoefAt_u \cup CoefAt_v \cup CoefScratch /\ B \cup VS = CoefAt_u \cup CoefAt_v \cup CoefScratch
    OBVIOUS
  <1>6. Coefs(T, H, cfg, TRUE, BS, bxU(cfg)) /\ Coefs(S, H, cfg, FALSE, VS, bxV(cfg))
    <2>1. A = CoefArgs(cfg) /\ F = CoefFrom(cfg) /\ CoefScratch \subseteq BS /\ CoefScratch \subseteq VS
      OBVIOUS
    <2> HIDE DEF A, B, V, BS, VS, F, T, S, H
    <2> QED BY <1>2, <1>4, <1>5, <2>1, CoefTables
  <1>7. Gives(T, A, coef_u(cfg), T, Y1)
    <2>1. A \subseteq A /\ CoefAt_u \subseteq BS /\ A \cap CoefScratch = {}
      BY <1>3
    <2> HIDE DEF BS, VS, T, S, H
    <2> QED BY <1>1, <1>6, <2>1, Coef_uGives DEF CoefAt_u
  <1>8. CoefFound_u(cfg) \subseteq B /\ CoefFound_v(cfg) \subseteq V
    BY DEF CoefFound_u, CoefFound_v, When, CoefAt_u, CoefAt_v
  <1>9. Gives(S, Y1, coef_v(cfg), S, Y)
    <2>1. A \subseteq Y1 /\ CoefAt_v \subseteq VS /\ Y1 \cap CoefScratch = {}
      BY <1>3, <1>8 DEF CoefAt_u, CoefScratch
    <2> HIDE DEF BS, VS, T, S, H, Y1
    <2> QED BY <1>1, <1>6, <2>1, Coef_vGives DEF CoefAt_v
  <1>10. Follows(T, Y1, S, Y1)
    <2> SUFFICES ASSUME NEW a \in Y1 PROVE S[a] = T[a]
      BY DEF Follows
    <2>1. a \in A \cup B
      BY <1>8
    <2>2. a \in BS => a \in B \/ a \in CoefScratch
      OBVIOUS
    <2> HIDE DEF A, B, V, F, H, Y1
    <2>3. CASE a \in A
      BY <2>3 DEF LocalTable
    <2>4. CASE a \in B /\ a \notin A
      BY <2>4 DEF LocalTable
    <2> QED BY <2>1, <2>3, <2>4
  <1>11. Gives(T, A, KernelOf(c), S, Y)
    <2>1. KernelOf(c) = coef_u(cfg) \o coef_v(cfg)
      BY DEF KernelOf, vertvisc_coef_tr
    <2> HIDE DEF T, S, A, Y1, Y
    <2>2. Gives(T, A, coef_u(cfg), S, Y1)
      BY <1>7, <1>10, GivesLess
    <2> QED BY <1>9, <2>1, <2>2, ThenGives
  <1>12. Begins(c, T, A)
    <2>1. \A a \in A : F[a] = {a}
      BY DEF CoefFrom
    <2>2. A \subseteq Passed(c)
      <3>1. Passed(c) = vertvisc_coef_tr_passed(cfg)
        BY DEF Passed
      <3> QED BY <3>1 DEF vertvisc_coef_tr_passed, CoefArgs, GivenOf
    <2>3. H = c.cfg.halo /\ A \subseteq A \cup BS \cup V
      OBVIOUS
    <2> HIDE DEF A, B, V, BS, VS, F, T, H
    <2>4. Handed(c, A \cup BS \cup V, F, A)
      BY <2>1, <2>2, <2>3 DEF Handed
    <2> QED BY <1>4, <2>3, <2>4, LocalBegins
  <1>13. /\ Results(c) = {"a_u", "h_u", "a_v", "h_v"} \cup GivenOf(cfg, GL90Coupling \cup CoefOutputs)
                          \cup When(Wanted(cfg, "frac_shelf_u"), ShelfCoupling)
         /\ Outputs(c) = Results(c)
         /\ KeptApart(c) = ({"a_u_gl90", "Kv_gl90_u"} \X {"Kv_bbl_u", "Kv_shear", "Ustar_2d"})
                           \cup ({"a_v_gl90", "Kv_gl90_v"} \X {"Kv_bbl_v", "Kv_shear", "Ustar_2d"})
    BY DEF Results, Updated, Outputs, KeptApart
  <1>14. Results(c) \subseteq B \cup V
    BY <1>13 DEF GivenOf, GL90Coupling, CoefOutputs, ShelfCoupling, When, CoefAt_u, CoefAt_v
  <1>15. Outputs(c) \subseteq Y
    <2>1. Wanted(cfg, "frac_shelf_u") => Wanted(cfg, "frac_shelf_v")
      BY <1>1 DEF CoefTogether, BothDirections
    <2>2. GivenOf(cfg, GL90Coupling) \subseteq Y
      BY <1>1 DEF CoefTogether, CoefFound_u, CoefFound_v, GivenOf, GL90Coupling, When
    <2>3. GivenOf(cfg, CoefOutputs) \subseteq Y
      BY DEF CoefFound_u, CoefFound_v, GivenOf, CoefOutputs, When, Wanted
    <2>4. When(Wanted(cfg, "frac_shelf_u"), ShelfCoupling) \subseteq Y
      BY <2>1 DEF CoefFound_u, CoefFound_v, ShelfCoupling, When
    <2>5. {"a_u", "h_u", "a_v", "h_v"} \subseteq Y
      BY DEF CoefFound_u, CoefFound_v
    <2> HIDE DEF Y
    <2> QED BY <1>13, <2>2, <2>3, <2>4, <2>5 DEF GivenOf
  <1>16. AtFaces(c, B, VS, k)
    <2>1. c.kernel \notin ContinuityKernels \cup {"hor_visc_gme_bt", "smooth_gme_q_pass"}
      BY DEF ContinuityKernels
    <2>2. B \subseteq ZonalFields \ AtCorners /\ V \subseteq MeridionalFields \ AtCorners
      BY DEF ZonalFields, MeridionalFields, AtCorners, QDiagnostics, LimitsAtQ, CoefAt_u, CoefAt_v
    <2>3. Outputs(c) \subseteq B \cup VS /\ Outputs(c) \cap VS \subseteq V
      BY <1>3, <1>13, <1>14
    <2> HIDE DEF B, V, VS
    <2> QED BY <1>2, <2>1, <2>2, <2>3, FacesRequired DEF AtFaces
  <1>17. Fresh(c, F, Y)
    <2>1. \A a \in B \cup V : F[a] \subseteq A
      BY <1>3 DEF CoefFrom, CoefCalm
    <2>2. \A a \in {"a_u_gl90", "Kv_gl90_u", "a_v_gl90", "Kv_gl90_v"} : F[a] = CoefCalm(cfg)
      <3>1. {"a_u_gl90", "Kv_gl90_u", "a_v_gl90", "Kv_gl90_v"} \subseteq (B \cup V) \cap CoefApart
        BY DEF CoefApart, CoefAt_u, CoefAt_v
      <3> QED BY <1>3, <3>1 DEF CoefFrom
    <2>3. \A p \in KeptApart(c) : /\ p[1] \in {"a_u_gl90", "Kv_gl90_u", "a_v_gl90", "Kv_gl90_v"}
                                  /\ p[2] \in {"Kv_bbl_u", "Kv_bbl_v", "Kv_shear", "Ustar_2d"}
      BY <1>13
    <2>4. \A a \in {"Kv_bbl_u", "Kv_bbl_v", "Kv_shear", "Ustar_2d"} : a \notin CoefCalm(cfg)
      BY DEF CoefCalm
    <2>6. A \cap (B \cup V) = {}
      BY <1>3
    <2> HIDE DEF A, B, V, BS, VS, F, Y
    <2>5. \A a \in Outputs(c) : F[a] \cap Results(c) = {}
      <3>1. Outputs(c) = Results(c)
        BY <1>13
      <3> QED BY <1>14, <2>1, <2>6, <3>1
    <2> QED BY <1>15, <2>2, <2>3, <2>4, <2>5 DEF Fresh
  <1>18. Ends(c, S, Y)
    <2> HIDE DEF A, B, V, BS, VS, F, Y, S, H
    <2> QED BY <1>1, <1>4, <1>16, <1>17, LocalEnds
  <1> HIDE DEF A, B, V, BS, VS, F, Y, S, H, T
  <1> QED BY <1>11, <1>12, <1>18 DEF Promise

-----------------------------------------------------------------------------
\* The implicit step

\* Claims of the same kind from more arrays
Looser(T, U, Z) == \A a \in Z : Weaker(T[a], U[a])

\* A loop that sets one array may leave looser claims behind.
LEMMA LoosenSets ==
    ASSUME NEW T, NEW U, NEW H, NEW A, NEW B, NEW O, NEW box, Beside(T, H, A, B, O, box), Beside(U, H, A, B, O, box),
           NEW Z, Looser(T, U, Z), NEW a \in B, NEW R, Local(T, Z, A, B, O, U[a].of, R)
    PROVE  Gives(T, Z, <<Loop(box, {Set({a}, R)})>>, U, Z \cup {a})
  <1> DEFINE step == Loop(box, {Set({a}, R)})
             claim == U[a]
  <1>1. /\ step.op = "loop" /\ step.box = box
        /\ \A x \in step.sets : x.writes = {a} /\ x.reads = R
        /\ Writes(step) = {a}
    BY DEF Loop, Set, Writes
  <1>2. claim.from = Box(1, 1, 1, 1) /\ claim.box = box /\ box \in Margins /\ Within(box, box)
    BY ReadHere DEF Beside
  <1>3. claim.from \in Margins
    <2>1. Box(1, 1, 1, 1) \in Margins
      BY BoxIs
    <2> QED BY <1>2, <2>1
  <1>4. Local(T, Z, A, B, O, claim.of, R)
    OBVIOUS
  <1>c. U[a] = claim
    OBVIOUS
  <1> HIDE DEF claim, step
  <1>5. Covered(T, Z, box, R) /\ Carried(T, R, claim)
    BY <1>2, <1>4, LocalCarries
  <1>6. \A b \in Z : b # a => Weaker(T[b], U[b])
    BY DEF Looser
  <1>7. StepGives(T, Z, step, U, Z \cup {a})
    BY <1>1, <1>2, <1>3, <1>5, <1>6, <1>c DEF StepGives, Weaker
  <1> QED BY <1>7, OneStepGives DEF step

\* What the solve down and up a column works on: the coefficients c1, the velocity, and
\* the acceleration str by the surface stress
Solves(T, Z, B, vel, str, stress, c1, wanted, D) ==
    /\ {vel, stress} \subseteq B \cap Z /\ {c1, str} \subseteq B /\ (wanted => str \in Z)
    /\ \A a \in {c1, str, stress} : T[a].of = D
    /\ D \subseteq T[vel].of

\* The solve: column is what the coefficients come from.
LEMMA TridiagGives ==
    ASSUME NEW T, NEW H, NEW A, NEW B, NEW O, NEW box, Beside(T, H, A, B, O, box), <<0, 0>> \in O,
           NEW cfg, NEW Z, NEW vel, NEW str, NEW stress, NEW c1, NEW D,
           Solves(T, Z, B, vel, str, stress, c1, Wanted(cfg, str), D),
           NEW column, Local(T, Z, A, B, O, D, column)
    PROVE  Gives(T, Z, vertvisc_tridiag(cfg, box, vel, column, str, stress, c1), T, Z \cup {c1})
  <1> DEFINE wanted == Wanted(cfg, str)
             Y == Z \cup {c1}
             V == T[vel].of
             down == {Set({c1}, column), Set({vel}, column \cup At({vel, stress}, Here))}
                     \cup When(wanted, {Set({str}, column \cup At({str, stress}, Here))})
             up == {Set({vel}, At({vel, c1}, Here))} \cup When(wanted, {Set({str}, At({str, c1}, Here))})
  <1>1. /\ vel \in B \cap Z /\ stress \in B \cap Z /\ c1 \in B /\ str \in B /\ (wanted => str \in Z)
        /\ T[c1].of = D /\ T[str].of = D /\ T[stress].of = D /\ D \subseteq V
    BY DEF Solves
  <1>2. Table(T) /\ box \in Margins
    BY DEF Beside
  <1> HIDE DEF wanted, V
  <1>3. Local(T, Z, A, B, O, V, column \cup At({vel, stress}, Here))
    <2>1. Local(T, Z, A, B, O, V, column)
      BY <1>1 DEF Local
    <2>2. Local(T, Z, A, B, O, V, At({vel, stress}, Here))
      BY <1>1, LocalHere DEF V
    <2> QED BY <2>1, <2>2, LocalBoth
  <1>4. wanted => Local(T, Z, A, B, O, D, column \cup At({str, stress}, Here))
    <2>1. wanted => Local(T, Z, A, B, O, D, At({str, stress}, Here))
      BY <1>1, LocalHere
    <2> QED BY <2>1, LocalBoth
  <1>5. Local(T, Y, A, B, O, V, At({vel, c1}, Here))
    <2>1. {vel, c1} \subseteq (A \cup B) \cap Y /\ \A a \in {vel, c1} : T[a].of \subseteq V
      BY <1>1 DEF V
    <2> HIDE DEF Y
    <2> QED BY <2>1, LocalHere
  <1>6. wanted => Local(T, Y, A, B, O, D, At({str, c1}, Here))
    <2>1. wanted => {str, c1} \subseteq (A \cup B) \cap Y /\ \A a \in {str, c1} : T[a].of \subseteq D
      BY <1>1
    <2> HIDE DEF Y
    <2> QED BY <2>1, LocalHere
  <1>7. /\ Computes(T, Z, box, {c1}, column)
        /\ Computes(T, Z, box, {vel}, column \cup At({vel, stress}, Here))
        /\ wanted => Computes(T, Z, box, {str}, column \cup At({str, stress}, Here))
    BY <1>1, <1>3, <1>4, LocalComputes DEF V
  <1>8. /\ Computes(T, Y, box, {vel}, At({vel, c1}, Here))
        /\ wanted => Computes(T, Y, box, {str}, At({str, c1}, Here))
    <2> HIDE DEF Y
    <2> QED BY <1>1, <1>5, <1>6, LocalComputes DEF V
  <1>9. Gives(T, Z, <<Loop(box, down)>>, T, Y)
    <2>1. \A x \in down : Computes(T, Z, box, x.writes, x.reads)
      BY <1>7 DEF When, Set
    <2>2. Set({c1}, column) \in down /\ c1 \in Set({c1}, column).writes
      BY DEF Set
    <2>3. \A a \in Y : a \in Z \/ \E x \in down : a \in x.writes
      BY <2>2
    <2> HIDE DEF down, Y
    <2> QED BY <1>2, <2>1, <2>3, LoopGives
  <1>10. Gives(T, Y, <<Loop(box, up)>>, T, Y)
    <2>1. \A x \in up : Computes(T, Y, box, x.writes, x.reads)
      BY <1>8 DEF When, Set
    <2> HIDE DEF up, Y
    <2> QED BY <1>2, <2>1, LoopGives
  <1> DEFINE s1 == Loop(box, down)
             s2 == Loop(box, up)
  <1>11. vertvisc_tridiag(cfg, box, vel, column, str, stress, c1) = <<s1, s2>>
    BY DEF vertvisc_tridiag, wanted
  <1>12. Gives(T, Z, <<s1>>, T, Y) /\ Gives(T, Y, <<s2>>, T, Y)
    BY <1>9, <1>10
  <1> HIDE DEF s1, s2, Y
  <1>13. Gives(T, Z, <<s1, s2>>, T, Y)
    BY <1>12, TwoStepsGive
  <1> QED BY <1>11, <1>13 DEF Y

-----------------------------------------------------------------------------
\* The arguments of the step, and all that its velocities may come from
VertSources ==
    {"h", "cell", "face_u", "face_v", "a_u", "h_u", "a_v", "h_v", "Ray_u", "Ray_v", "Us_x", "Us_y", "taux", "tauy",
     "a1_shelf_u", "a1_shelf_v", "a_u_gl90", "a_v_gl90"}
VertArgs(cfg) ==
    {"h", "cell", "face_u", "face_v", "a_u", "h_u", "a_v", "h_v"} \cup GivenOf(cfg, VertSources)
VertAny == VertSources \cup {"u", "v", "u_old", "v_old"}

\* What is found at the faces of each direction, and that which the wind and the drag decide
VertAt_u ==
    {"u", "u_old", "vel_report_u", "dowrite_u", "surface_stress_u", "c1U", "du_dt_visc", "du_dt_visc_gl90", "du_dt_str",
     "KE_u", "taux_shelf", "taux_bot"}
VertAt_v ==
    {"v", "v_old", "vel_report_v", "dowrite_v", "surface_stress_v", "c1V", "dv_dt_visc", "dv_dt_visc_gl90", "dv_dt_str",
     "KE_v", "tauy_shelf", "tauy_bot"}
VertDriven == {"surface_stress_u", "c1U", "du_dt_str", "surface_stress_v", "c1V", "dv_dt_str"}

VertArrays(cfg) == VertArgs(cfg) \cup VertAt_u \cup VertAt_v

\* What the GL90 viscosity works on, and the wind and the drag
Calm_u == {"u", "face_u", "Us_x", "h_u", "a_u_gl90"}
Calm_v == {"v", "face_v", "Us_y", "h_v", "a_v_gl90"}
Driven_u == {"h_u", "a_u", "face_u", "h", "Ray_u", "taux"}
Driven_v == {"h_v", "a_v", "face_v", "h", "Ray_v", "tauy"}

\* What each array comes from, where the arrays of calm come from no wind and no drag yet
VertFrom(cfg, calm) ==
    [a \in VertArgs(cfg) \cup VertAt_u \cup VertAt_v |->
        IF a \in VertArgs(cfg) THEN {a}
        ELSE IF a \in calm THEN (IF a \in VertAt_u THEN Calm_u ELSE Calm_v)
        ELSE IF a \in VertDriven THEN (IF a \in VertAt_u THEN Driven_u ELSE Driven_v)
        ELSE VertAny]

\* Claims of that kind
VertTable(T, H, k, cfg, calm) ==
    /\ IsLocal(T, H, VertArgs(cfg), VertAt_u, VertAt_v, k, VertFrom(cfg, calm))
    /\ bxU(cfg) = Box(k, 0, 0, 0) /\ bxV(cfg) = Box(0, 0, k, 0)

\* Claims of that kind with a given set of calm arrays
VertClaims(cfg, H, k, calm) ==
    LocalTable(VertArgs(cfg), VertAt_u, VertAt_v, H, Box(k, 0, 0, 0), Box(0, 0, k, 0), VertFrom(cfg, calm))

\* There are such claims whatever is calm.
LEMMA VertTableOf ==
    ASSUME NEW T, NEW H, NEW k, NEW cfg, NEW calm, VertTable(T, H, k, cfg, calm), NEW C
    PROVE  VertTable(VertClaims(cfg, H, k, C), H, k, cfg, C)
  BY DEF VertTable, IsLocal, VertClaims

\* What they hold.
LEMMA VertHolds ==
    ASSUME NEW T, NEW H, NEW k, NEW cfg, NEW calm, VertTable(T, H, k, cfg, calm)
    PROVE  /\ Beside(T, H, VertArgs(cfg), VertAt_u, AroundFaceU, bxU(cfg))
           /\ Beside(T, H, VertArgs(cfg), VertAt_v, AroundFaceV, bxV(cfg))
           /\ \A a \in VertArgs(cfg) : T[a].of = {a}
           /\ \A a \in VertAt_u : T[a].of = IF a \in calm THEN Calm_u ELSE IF a \in VertDriven THEN Driven_u ELSE VertAny
           /\ \A a \in VertAt_v : T[a].of = IF a \in calm THEN Calm_v ELSE IF a \in VertDriven THEN Driven_v ELSE VertAny
  <1> DEFINE A == VertArgs(cfg)
             F == VertFrom(cfg, calm)
  <1>1. IsLocal(T, H, A, VertAt_u, VertAt_v, k, F) /\ bxU(cfg) = Box(k, 0, 0, 0) /\ bxV(cfg) = Box(0, 0, k, 0)
    BY DEF VertTable
  <1>2. A \cap (VertAt_u \cup VertAt_v) = {} /\ VertAt_u \cap VertAt_v = {}
    BY <1>1 DEF IsLocal
  <1>3. /\ \A a \in A : F[a] = {a}
        /\ \A a \in VertAt_u : F[a] = IF a \in calm THEN Calm_u ELSE IF a \in VertDriven THEN Driven_u ELSE VertAny
        /\ \A a \in VertAt_v : F[a] = IF a \in calm THEN Calm_v ELSE IF a \in VertDriven THEN Driven_v ELSE VertAny
    <2> HIDE DEF A
    <2> QED BY <1>2 DEF VertFrom, A
  <1> HIDE DEF A, F
  <1>4. /\ Beside(T, H, A, VertAt_u, AroundFaceU, Box(k, 0, 0, 0))
        /\ Beside(T, H, A, VertAt_v, AroundFaceV, Box(0, 0, k, 0))
        /\ \A a \in A \cup VertAt_u \cup VertAt_v : a \in DOMAIN T /\ T[a].of = F[a]
    BY <1>1, LocalTableHolds
  <1> QED BY <1>1, <1>3, <1>4 DEF A

\* Two of them agree on all that is calm in both or in neither; and one in which less is
\* calm claims less of the velocities and of the accelerations.
LEMMA VertAgree ==
    ASSUME NEW T, NEW U, NEW H, NEW k, NEW cfg, NEW calm, NEW C, VertTable(T, H, k, cfg, calm), VertTable(U, H, k, cfg, C),
           NEW Z, Z \subseteq VertArrays(cfg)
    PROVE  /\ (\A a \in Z : a \in calm <=> a \in C) => Follows(T, Z, U, Z)
           /\ (\A a \in Z : (a \in C => a \in calm) /\ (a \in calm \ C => a \notin VertDriven)) => Looser(T, U, Z)
  <1> DEFINE A == VertArgs(cfg)
             F == VertFrom(cfg, calm)
             G == VertFrom(cfg, C)
  <1>1. IsLocal(T, H, A, VertAt_u, VertAt_v, k, F) /\ IsLocal(U, H, A, VertAt_u, VertAt_v, k, G)
    BY DEF VertTable
  <1>2. \A a \in Z : /\ (a \in calm <=> a \in C) => F[a] = G[a]
                     /\ (a \in C => a \in calm) /\ (a \in calm \ C => a \notin VertDriven) => F[a] \subseteq G[a]
    <2>1. Calm_u \subseteq VertAny /\ Calm_v \subseteq VertAny
      BY DEF Calm_u, Calm_v, VertAny, VertSources
    <2> QED BY <2>1 DEF VertFrom, VertArrays
  <1> HIDE DEF A, F, G
  <1>3. /\ T = LocalTable(A, VertAt_u, VertAt_v, H, Box(k, 0, 0, 0), Box(0, 0, k, 0), F)
        /\ U = LocalTable(A, VertAt_u, VertAt_v, H, Box(k, 0, 0, 0), Box(0, 0, k, 0), G)
    BY <1>1 DEF IsLocal
  <1>4. \A a \in Z : F[a] = G[a] => U[a] = T[a]
    BY <1>3 DEF LocalTable, A, VertArrays
  <1>5. /\ \A a \in A \cup VertAt_u \cup VertAt_v : a \in DOMAIN T /\ T[a].of = F[a]
        /\ \A a \in A \cup VertAt_u \cup VertAt_v : a \in DOMAIN U /\ U[a].of = G[a]
        /\ Beside(T, H, A, VertAt_u, AroundFaceU, Box(k, 0, 0, 0)) /\ Beside(T, H, A, VertAt_v, AroundFaceV, Box(0, 0, k, 0))
        /\ Beside(U, H, A, VertAt_u, AroundFaceU, Box(k, 0, 0, 0)) /\ Beside(U, H, A, VertAt_v, AroundFaceV, Box(0, 0, k, 0))
    BY <1>1, LocalTableHolds
  <1>6. \A a \in Z : U[a].box = T[a].box /\ U[a].from = T[a].from
    BY <1>5 DEF Beside, A, VertArrays
  <1>7. \A a \in Z : T[a].box \in Margins /\ T[a].from \in Margins
    BY <1>5 DEF Beside, Table, A, VertArrays
  <1>8. ASSUME NEW a \in Z, F[a] \subseteq G[a] PROVE Weaker(T[a], U[a])
    <2>1. Within(T[a].box, T[a].box) /\ Within(T[a].from, T[a].from)
      BY <1>7, ReadHere
    <2>2. T[a].of \subseteq U[a].of
      BY <1>5, <1>8 DEF A, VertArrays
    <2> QED BY <1>6, <1>7, <2>1, <2>2 DEF Weaker
  <1> QED BY <1>2, <1>4, <1>8 DEF Follows, Looser

-----------------------------------------------------------------------------
\* The Stokes drift is taken from the zonal velocity, and added again.
LEMMA Stokes_uGive ==
    ASSUME NEW T, NEW H, NEW k, NEW cfg, NEW calm, VertTable(T, H, k, cfg, calm),
           NEW Z, VertArgs(cfg) \cup {"u"} \subseteq Z, NEW on, on => Wanted(cfg, "Us_x")
    PROVE  Gives(T, Z, Changes(on, bxU(cfg), "u", At({"face_u", "Us_x"}, Here)), T, Z)
  <1> DEFINE A == VertArgs(cfg)
             B == VertAt_u
             O == AroundFaceU
             Q == T["u"].of
             X == {"face_u", "Us_x"}
  <1>1. Beside(T, H, A, B, O, bxU(cfg)) /\ "u" \in B /\ "u" \in Z /\ <<0, 0>> \in O
    BY VertHolds, AroundFaces DEF VertAt_u
  <1>2. on => X \subseteq (A \cup B) \cap Z /\ \A a \in X : T[a].of \subseteq Q
    <2>1. on => X \subseteq A
      BY DEF VertArgs, GivenOf, VertSources, Wanted
    <2>2. X \subseteq Q
      <3>1. Q = Calm_u \/ Q = VertAny
        BY VertHolds DEF VertAt_u, VertDriven
      <3> QED BY <3>1 DEF Calm_u, VertAny, VertSources
    <2>3. \A a \in A : T[a].of = {a}
      BY VertHolds
    <2> HIDE DEF A, Q, X
    <2> QED BY <2>1, <2>2, <2>3 DEF A
  <1> HIDE DEF A, B, O, Q, X
  <1>3. on => Local(T, Z, A, B, O, Q, At(X, Here))
    BY <1>1, <1>2, LocalHere
  <1>4. Gives(T, Z, Changes(on, bxU(cfg), "u", At(X, Here)), T, Z)
    BY <1>1, <1>3, LocalChanges DEF Q
  <1> QED BY <1>4 DEF X

\* The wind: with it the zonal velocity comes from all that drives it.
LEMMA Wind_uGives ==
    ASSUME NEW T, NEW U, NEW H, NEW k, NEW cfg, NEW calm, VertTable(T, H, k, cfg, calm),
           NEW C, C = calm \ {"u"}, VertTable(U, H, k, cfg, C), {"surface_stress_u", "du_dt_str"} \cap calm = {},
           NEW Z, VertArgs(cfg) \cup {"u"} \subseteq Z, Z \subseteq VertArrays(cfg),
           FrictionTogether(cfg), Wanted(cfg, "du_dt_str") => "du_dt_str" \in Z
    PROVE  Gives(T, Z, wind_u(cfg), U, Z \cup {"surface_stress_u"})
  <1> DEFINE A == VertArgs(cfg)
             B == VertAt_u
             O == AroundFaceU
             box == bxU(cfg)
             Y == Z \cup {"surface_stress_u"}
             D == Driven_u
             near == {"taux", "face_u"}
             force == At(near, Here) \cup At({"h"}, Here \cup East)
             str == Wanted(cfg, "du_dt_str")
  <1>1. Beside(T, H, A, B, O, box) /\ Beside(U, H, A, B, O, box) /\ <<0, 0>> \in O /\ Here \cup East \subseteq O
    BY VertHolds, AroundFaces
  <1>2. {"u", "surface_stress_u", "du_dt_str"} \subseteq B
    BY DEF VertAt_u
  <1>3. U["u"].of = VertAny /\ U["surface_stress_u"].of = D /\ U["du_dt_str"].of = D
    BY <1>2, VertHolds DEF VertDriven
  <1>4. near \subseteq A /\ {"h"} \subseteq A
    BY DEF FrictionTogether, VertArgs, GivenOf, VertSources
  <1>5. /\ \A a \in near : T[a].of \subseteq D /\ U[a].of \subseteq D
        /\ \A a \in {"h"} : U[a].of \subseteq D
    <2>1. \A a \in A : T[a].of = {a} /\ U[a].of = {a}
      BY VertHolds
    <2>2. near \subseteq D /\ "h" \in D
      BY DEF Driven_u
    <2> HIDE DEF A, D
    <2> QED BY <1>4, <2>1, <2>2
  <1>6. D \subseteq VertAny
    BY DEF Driven_u, VertAny, VertSources
  <1>7. A \subseteq Z /\ A \subseteq Y /\ "u" \in Y /\ (str => "du_dt_str" \in Y)
    OBVIOUS
  <1>l. Looser(T, U, Z)
    <2>1. \A a \in Z : (a \in C => a \in calm) /\ (a \in calm \ C => a \notin VertDriven)
      BY DEF VertDriven
    <2> QED BY <2>1, VertAgree
  <1> HIDE DEF A, B, O, box, Y, D, near, str
  <1>8. Local(T, Z, A, B, O, U["surface_stress_u"].of, At(near, Here))
    BY <1>1, <1>3, <1>4, <1>5, <1>7, LocalHere
  <1>9. Local(T, Z, A, B, O, U["surface_stress_u"].of, {})
    BY DEF Local
  <1>10. Local(U, Y, A, B, O, D, force)
    <2>1. Local(U, Y, A, B, O, D, At(near, Here))
      BY <1>1, <1>4, <1>5, <1>7, LocalHere
    <2>2. Local(U, Y, A, B, O, D, At({"h"}, Here \cup East))
      <3>1. {"h"} \subseteq A \cap Y
        BY <1>4, <1>7
      <3> QED BY <1>1, <1>5, <3>1, LocalAround
    <2> QED BY <2>1, <2>2, LocalBoth
  <1>11. Local(U, Y, A, B, O, VertAny, force)
    BY <1>6, <1>10 DEF Local
  <1> HIDE DEF force
  <1>12. CASE On(cfg, "direct_stress")
    <2> DEFINE s1 == Sets(TRUE, box, "surface_stress_u", {})
               s2 == Changes(TRUE, box, "u", force)
               s3 == Changes(str, box, "du_dt_str", force)
    <2>1. Gives(T, Z, s1, U, Y)
      BY <1>1, <1>2, <1>9, <1>l, LoosenSets DEF Sets, Y
    <2>2. Gives(U, Y, s2, U, Y)
      BY <1>1, <1>2, <1>3, <1>7, <1>11, LocalChanges
    <2>3. Gives(U, Y, s3, U, Y)
      BY <1>1, <1>2, <1>3, <1>7, <1>10, LocalChanges
    <2>4. wind_u(cfg) = s1 \o s2 \o s3
      BY <1>12 DEF wind_u, box, str, force, near
    <2> HIDE DEF s1, s2, s3
    <2>5. Gives(T, Z, s1 \o s2 \o s3, U, Y)
      BY <2>1, <2>2, <2>3, ThenGives
    <2> QED BY <2>4, <2>5 DEF Y
  <1>13. CASE ~On(cfg, "direct_stress")
    <2>1. Gives(T, Z, Sets(TRUE, box, "surface_stress_u", At(near, Here)), U, Y)
      BY <1>1, <1>2, <1>8, <1>l, LoosenSets DEF Sets, Y
    <2> QED BY <1>13, <2>1 DEF wind_u, box, near, Y
  <1> QED BY <1>12, <1>13

\* The GL90 viscosity of its own.
LEMMA GL90_uGives ==
    ASSUME NEW T, NEW H, NEW k, NEW cfg, NEW calm, VertTable(T, H, k, cfg, calm),
           {"c1U", "du_dt_visc", "du_dt_visc_gl90", "KE_u"} \subseteq calm,
           NEW Z, VertArgs(cfg) \subseteq Z, FrictionTogether(cfg),
           \A a \in {"du_dt_visc", "du_dt_visc_gl90"} : Wanted(cfg, a) => a \in Z
    PROVE  Gives(T, Z, gl90_u(cfg), T,
                 Z \cup When(cfg.on \cap {"do_du_dt_visc_gl90", "do_GLwork"} # {} /\ Wanted(cfg, "du_dt_visc_gl90"), {"c1U"})
                   \cup When(/\ cfg.on \cap {"do_du_dt_visc_gl90", "do_GLwork"} # {} /\ Wanted(cfg, "du_dt_visc_gl90")
                             /\ On(cfg, "do_GLwork"), {"KE_u"}))
  <1> DEFINE A == VertArgs(cfg)
             B == VertAt_u
             O == AroundFaceU
             box == bxU(cfg)
             G == Calm_u
             solve == cfg.on \cap {"do_du_dt_visc_gl90", "do_GLwork"} # {} /\ Wanted(cfg, "du_dt_visc_gl90")
             work == solve /\ On(cfg, "do_GLwork")
             column == At({"h_u", "a_u_gl90", "face_u"}, Here)
             Z1 == Z \cup When(solve, {"c1U"})
             Y == Z1 \cup When(work, {"KE_u"})
  <1>1. Beside(T, H, A, B, O, box) /\ <<0, 0>> \in O
    BY VertHolds, AroundFaces
  <1>2. "c1U" \in B /\ "du_dt_visc" \in B /\ "du_dt_visc_gl90" \in B /\ "KE_u" \in B
    BY DEF VertAt_u
  <1>3. T["c1U"].of = G /\ T["du_dt_visc"].of = G /\ T["du_dt_visc_gl90"].of = G /\ T["KE_u"].of = G
    BY <1>2, VertHolds
  <1>4. /\ solve => {"h_u", "a_u_gl90", "face_u"} \subseteq A
        /\ {"h_u", "face_u"} \subseteq A
        /\ {"h_u", "a_u_gl90", "face_u"} \subseteq G
    BY DEF FrictionTogether, VertArgs, GivenOf, VertSources, Calm_u
  <1>5. \A a \in A : T[a].of = {a}
    BY VertHolds
  <1>6. /\ solve => "du_dt_visc" \in Z /\ "du_dt_visc_gl90" \in Z
        /\ Z \subseteq Z1 /\ A \subseteq Z /\ A \subseteq Z1 /\ (solve => "c1U" \in Z1)
    <2>1. solve => Wanted(cfg, "du_dt_visc")
      BY DEF FrictionTogether, Wanted
    <2>2. solve => "c1U" \in Z1
      BY DEF When
    <2> QED BY <2>1, <2>2
  <1>w. work => solve
    OBVIOUS
  <1> HIDE DEF A, B, O, box, G, solve, work, Z1
  <1>7. solve => Local(T, Z, A, B, O, G, column) /\ Local(T, Z1, A, B, O, G, column)
    <2>1. solve => /\ {"h_u", "a_u_gl90", "face_u"} \subseteq (A \cup B) \cap Z /\ {"h_u", "a_u_gl90", "face_u"} \subseteq (A \cup B) \cap Z1
                   /\ \A a \in {"h_u", "a_u_gl90", "face_u"} : T[a].of \subseteq G
      BY <1>4, <1>5, <1>6
    <2> QED BY <1>1, <2>1, LocalHere
  <1>8. solve => Local(T, Z1, A, B, O, G, At({"c1U"}, Here))
    <2>1. solve => {"c1U"} \subseteq (A \cup B) \cap Z1 /\ \A a \in {"c1U"} : T[a].of \subseteq G
      BY <1>2, <1>3, <1>6
    <2> QED BY <1>1, <2>1, LocalHere
  <1>9. solve => Local(T, Z1, A, B, O, G, At({"du_dt_visc"}, Here))
    <2>1. solve => {"du_dt_visc"} \subseteq (A \cup B) \cap Z1 /\ \A a \in {"du_dt_visc"} : T[a].of \subseteq G
      BY <1>2, <1>3, <1>6
    <2> QED BY <1>1, <2>1, LocalHere
  <1>10. work => Local(T, Z1, A, B, O, G, At({"du_dt_visc", "du_dt_visc_gl90", "h_u", "face_u"}, Here))
    <2>1. work => /\ {"du_dt_visc", "du_dt_visc_gl90", "h_u", "face_u"} \subseteq (A \cup B) \cap Z1
                  /\ \A a \in {"du_dt_visc", "du_dt_visc_gl90", "h_u", "face_u"} : T[a].of \subseteq G
      BY <1>2, <1>3, <1>4, <1>5, <1>6, <1>w
    <2> QED BY <1>1, <2>1, LocalHere
  <1> HIDE DEF column
  <1> DEFINE s1 == Sets(solve, box, "c1U", column)
             s2 == Changes(solve, box, "du_dt_visc_gl90", column)
             s3 == Changes(solve, box, "du_dt_visc_gl90", At({"c1U"}, Here))
             s4 == Changes(solve, box, "du_dt_visc_gl90", At({"du_dt_visc"}, Here))
             s5 == Sets(work, box, "KE_u", At({"du_dt_visc", "du_dt_visc_gl90", "h_u", "face_u"}, Here))
  <1>11. Gives(T, Z, s1, T, Z1)
    BY <1>1, <1>2, <1>3, <1>7, LocalSets DEF Z1
  <1>12. Gives(T, Z1, s2, T, Z1)
    BY <1>1, <1>2, <1>3, <1>6, <1>7, LocalChanges
  <1>13. Gives(T, Z1, s3, T, Z1)
    BY <1>1, <1>2, <1>3, <1>6, <1>8, LocalChanges
  <1>14. Gives(T, Z1, s4, T, Z1)
    BY <1>1, <1>2, <1>3, <1>6, <1>9, LocalChanges
  <1>15. Gives(T, Z1, s5, T, Y)
    BY <1>1, <1>2, <1>3, <1>10, LocalSets
  <1>16. gl90_u(cfg) = s1 \o s2 \o s3 \o s4 \o s5
    BY Zenon DEF gl90_u, solve, column, box, work
  <1> HIDE DEF s1, s2, s3, s4, s5, Y
  <1>17. Gives(T, Z, s1 \o s2 \o s3, T, Z1)
    BY <1>11, <1>12, <1>13, ThenGives
  <1>18. Gives(T, Z, s1 \o s2 \o s3 \o s4 \o s5, T, Y)
    BY <1>14, <1>15, <1>17, ThenGives
  <1> QED BY <1>16, <1>18 DEF Y, Z1, solve, work

\* The Stokes drift is taken from the meridional velocity, and added again.
LEMMA Stokes_vGive ==
    ASSUME NEW T, NEW H, NEW k, NEW cfg, NEW calm, VertTable(T, H, k, cfg, calm),
           NEW Z, VertArgs(cfg) \cup {"v"} \subseteq Z, NEW on, on => Wanted(cfg, "Us_y")
    PROVE  Gives(T, Z, Changes(on, bxV(cfg), "v", At({"face_v", "Us_y"}, Here)), T, Z)
  <1> DEFINE A == VertArgs(cfg)
             B == VertAt_v
             O == AroundFaceV
             Q == T["v"].of
             X == {"face_v", "Us_y"}
  <1>1. Beside(T, H, A, B, O, bxV(cfg)) /\ "v" \in B /\ "v" \in Z /\ <<0, 0>> \in O
    BY VertHolds, AroundFaces DEF VertAt_v
  <1>2. on => X \subseteq (A \cup B) \cap Z /\ \A a \in X : T[a].of \subseteq Q
    <2>1. on => X \subseteq A
      BY DEF VertArgs, GivenOf, VertSources, Wanted
    <2>2. X \subseteq Q
      <3>1. Q = Calm_v \/ Q = VertAny
        BY VertHolds DEF VertAt_v, VertDriven
      <3> QED BY <3>1 DEF Calm_v, VertAny, VertSources
    <2>3. \A a \in A : T[a].of = {a}
      BY VertHolds
    <2> HIDE DEF A, Q, X
    <2> QED BY <2>1, <2>2, <2>3 DEF A
  <1> HIDE DEF A, B, O, Q, X
  <1>3. on => Local(T, Z, A, B, O, Q, At(X, Here))
    BY <1>1, <1>2, LocalHere
  <1>4. Gives(T, Z, Changes(on, bxV(cfg), "v", At(X, Here)), T, Z)
    BY <1>1, <1>3, LocalChanges DEF Q
  <1> QED BY <1>4 DEF X

\* The wind: with it the meridional velocity comes from all that drives it.
LEMMA Wind_vGives ==
    ASSUME NEW T, NEW U, NEW H, NEW k, NEW cfg, NEW calm, VertTable(T, H, k, cfg, calm),
           NEW C, C = calm \ {"v"}, VertTable(U, H, k, cfg, C), {"surface_stress_v", "dv_dt_str"} \cap calm = {},
           NEW Z, VertArgs(cfg) \cup {"v"} \subseteq Z, Z \subseteq VertArrays(cfg),
           FrictionTogether(cfg), Wanted(cfg, "dv_dt_str") => "dv_dt_str" \in Z
    PROVE  Gives(T, Z, wind_v(cfg), U, Z \cup {"surface_stress_v"})
  <1> DEFINE A == VertArgs(cfg)
             B == VertAt_v
             O == AroundFaceV
             box == bxV(cfg)
             Y == Z \cup {"surface_stress_v"}
             D == Driven_v
             near == {"tauy", "face_v"}
             force == At(near, Here) \cup At({"h"}, Here \cup North)
             str == Wanted(cfg, "dv_dt_str")
  <1>1. Beside(T, H, A, B, O, box) /\ Beside(U, H, A, B, O, box) /\ <<0, 0>> \in O /\ Here \cup North \subseteq O
    BY VertHolds, AroundFaces
  <1>2. {"v", "surface_stress_v", "dv_dt_str"} \subseteq B
    BY DEF VertAt_v
  <1>3. U["v"].of = VertAny /\ U["surface_stress_v"].of = D /\ U["dv_dt_str"].of = D
    BY <1>2, VertHolds DEF VertDriven
  <1>4. near \subseteq A /\ {"h"} \subseteq A
    BY DEF FrictionTogether, VertArgs, GivenOf, VertSources
  <1>5. /\ \A a \in near : T[a].of \subseteq D /\ U[a].of \subseteq D
        /\ \A a \in {"h"} : U[a].of \subseteq D
    <2>1. \A a \in A : T[a].of = {a} /\ U[a].of = {a}
      BY VertHolds
    <2>2. near \subseteq D /\ "h" \in D
      BY DEF Driven_v
    <2> HIDE DEF A, D
    <2> QED BY <1>4, <2>1, <2>2
  <1>6. D \subseteq VertAny
    BY DEF Driven_v, VertAny, VertSources
  <1>7. A \subseteq Z /\ A \subseteq Y /\ "v" \in Y /\ (str => "dv_dt_str" \in Y)
    OBVIOUS
  <1>l. Looser(T, U, Z)
    <2>1. \A a \in Z : (a \in C => a \in calm) /\ (a \in calm \ C => a \notin VertDriven)
      BY DEF VertDriven
    <2> QED BY <2>1, VertAgree
  <1> HIDE DEF A, B, O, box, Y, D, near, str
  <1>8. Local(T, Z, A, B, O, U["surface_stress_v"].of, At(near, Here))
    BY <1>1, <1>3, <1>4, <1>5, <1>7, LocalHere
  <1>9. Local(T, Z, A, B, O, U["surface_stress_v"].of, {})
    BY DEF Local
  <1>10. Local(U, Y, A, B, O, D, force)
    <2>1. Local(U, Y, A, B, O, D, At(near, Here))
      BY <1>1, <1>4, <1>5, <1>7, LocalHere
    <2>2. Local(U, Y, A, B, O, D, At({"h"}, Here \cup North))
      <3>1. {"h"} \subseteq A \cap Y
        BY <1>4, <1>7
      <3> QED BY <1>1, <1>5, <3>1, LocalAround
    <2> QED BY <2>1, <2>2, LocalBoth
  <1>11. Local(U, Y, A, B, O, VertAny, force)
    BY <1>6, <1>10 DEF Local
  <1> HIDE DEF force
  <1>12. CASE On(cfg, "direct_stress")
    <2> DEFINE s1 == Sets(TRUE, box, "surface_stress_v", {})
               s2 == Changes(TRUE, box, "v", force)
               s3 == Changes(str, box, "dv_dt_str", force)
    <2>1. Gives(T, Z, s1, U, Y)
      BY <1>1, <1>2, <1>9, <1>l, LoosenSets DEF Sets, Y
    <2>2. Gives(U, Y, s2, U, Y)
      BY <1>1, <1>2, <1>3, <1>7, <1>11, LocalChanges
    <2>3. Gives(U, Y, s3, U, Y)
      BY <1>1, <1>2, <1>3, <1>7, <1>10, LocalChanges
    <2>4. wind_v(cfg) = s1 \o s2 \o s3
      BY <1>12 DEF wind_v, box, str, force, near
    <2> HIDE DEF s1, s2, s3
    <2>5. Gives(T, Z, s1 \o s2 \o s3, U, Y)
      BY <2>1, <2>2, <2>3, ThenGives
    <2> QED BY <2>4, <2>5 DEF Y
  <1>13. CASE ~On(cfg, "direct_stress")
    <2>1. Gives(T, Z, Sets(TRUE, box, "surface_stress_v", At(near, Here)), U, Y)
      BY <1>1, <1>2, <1>8, <1>l, LoosenSets DEF Sets, Y
    <2> QED BY <1>13, <2>1 DEF wind_v, box, near, Y
  <1> QED BY <1>12, <1>13

\* The GL90 viscosity of its own.
LEMMA GL90_vGives ==
    ASSUME NEW T, NEW H, NEW k, NEW cfg, NEW calm, VertTable(T, H, k, cfg, calm),
           {"c1V", "dv_dt_visc", "dv_dt_visc_gl90", "KE_v"} \subseteq calm,
           NEW Z, VertArgs(cfg) \subseteq Z, FrictionTogether(cfg),
           \A a \in {"dv_dt_visc", "dv_dt_visc_gl90"} : Wanted(cfg, a) => a \in Z
    PROVE  Gives(T, Z, gl90_v(cfg), T,
                 Z \cup When(cfg.on \cap {"do_dv_dt_visc_gl90", "do_GLwork"} # {} /\ Wanted(cfg, "dv_dt_visc_gl90"), {"c1V"})
                   \cup When(/\ cfg.on \cap {"do_dv_dt_visc_gl90", "do_GLwork"} # {} /\ Wanted(cfg, "dv_dt_visc_gl90")
                             /\ On(cfg, "do_GLwork"), {"KE_v"}))
  <1> DEFINE A == VertArgs(cfg)
             B == VertAt_v
             O == AroundFaceV
             box == bxV(cfg)
             G == Calm_v
             solve == cfg.on \cap {"do_dv_dt_visc_gl90", "do_GLwork"} # {} /\ Wanted(cfg, "dv_dt_visc_gl90")
             work == solve /\ On(cfg, "do_GLwork")
             column == At({"h_v", "a_v_gl90", "face_v"}, Here)
             Z1 == Z \cup When(solve, {"c1V"})
             Y == Z1 \cup When(work, {"KE_v"})
  <1>1. Beside(T, H, A, B, O, box) /\ <<0, 0>> \in O
    BY VertHolds, AroundFaces
  <1>2. "c1V" \in B /\ "dv_dt_visc" \in B /\ "dv_dt_visc_gl90" \in B /\ "KE_v" \in B
    BY DEF VertAt_v
  <1>3. T["c1V"].of = G /\ T["dv_dt_visc"].of = G /\ T["dv_dt_visc_gl90"].of = G /\ T["KE_v"].of = G
    BY <1>2, VertHolds
  <1>4. /\ solve => {"h_v", "a_v_gl90", "face_v"} \subseteq A
        /\ {"h_v", "face_v"} \subseteq A
        /\ {"h_v", "a_v_gl90", "face_v"} \subseteq G
    BY DEF FrictionTogether, VertArgs, GivenOf, VertSources, Calm_v
  <1>5. \A a \in A : T[a].of = {a}
    BY VertHolds
  <1>6. /\ solve => "dv_dt_visc" \in Z /\ "dv_dt_visc_gl90" \in Z
        /\ Z \subseteq Z1 /\ A \subseteq Z /\ A \subseteq Z1 /\ (solve => "c1V" \in Z1)
    <2>1. solve => Wanted(cfg, "dv_dt_visc")
      BY DEF FrictionTogether, Wanted
    <2>2. solve => "c1V" \in Z1
      BY DEF When
    <2> QED BY <2>1, <2>2
  <1>w. work => solve
    OBVIOUS
  <1> HIDE DEF A, B, O, box, G, solve, work, Z1
  <1>7. solve => Local(T, Z, A, B, O, G, column) /\ Local(T, Z1, A, B, O, G, column)
    <2>1. solve => /\ {"h_v", "a_v_gl90", "face_v"} \subseteq (A \cup B) \cap Z /\ {"h_v", "a_v_gl90", "face_v"} \subseteq (A \cup B) \cap Z1
                   /\ \A a \in {"h_v", "a_v_gl90", "face_v"} : T[a].of \subseteq G
      BY <1>4, <1>5, <1>6
    <2> QED BY <1>1, <2>1, LocalHere
  <1>8. solve => Local(T, Z1, A, B, O, G, At({"c1V"}, Here))
    <2>1. solve => {"c1V"} \subseteq (A \cup B) \cap Z1 /\ \A a \in {"c1V"} : T[a].of \subseteq G
      BY <1>2, <1>3, <1>6
    <2> QED BY <1>1, <2>1, LocalHere
  <1>9. solve => Local(T, Z1, A, B, O, G, At({"dv_dt_visc"}, Here))
    <2>1. solve => {"dv_dt_visc"} \subseteq (A \cup B) \cap Z1 /\ \A a \in {"dv_dt_visc"} : T[a].of \subseteq G
      BY <1>2, <1>3, <1>6
    <2> QED BY <1>1, <2>1, LocalHere
  <1>10. work => Local(T, Z1, A, B, O, G, At({"dv_dt_visc", "dv_dt_visc_gl90", "h_v", "face_v"}, Here))
    <2>1. work => /\ {"dv_dt_visc", "dv_dt_visc_gl90", "h_v", "face_v"} \subseteq (A \cup B) \cap Z1
                  /\ \A a \in {"dv_dt_visc", "dv_dt_visc_gl90", "h_v", "face_v"} : T[a].of \subseteq G
      BY <1>2, <1>3, <1>4, <1>5, <1>6, <1>w
    <2> QED BY <1>1, <2>1, LocalHere
  <1> HIDE DEF column
  <1> DEFINE s1 == Sets(solve, box, "c1V", column)
             s2 == Changes(solve, box, "dv_dt_visc_gl90", column)
             s3 == Changes(solve, box, "dv_dt_visc_gl90", At({"c1V"}, Here))
             s4 == Changes(solve, box, "dv_dt_visc_gl90", At({"dv_dt_visc"}, Here))
             s5 == Sets(work, box, "KE_v", At({"dv_dt_visc", "dv_dt_visc_gl90", "h_v", "face_v"}, Here))
  <1>11. Gives(T, Z, s1, T, Z1)
    BY <1>1, <1>2, <1>3, <1>7, LocalSets DEF Z1
  <1>12. Gives(T, Z1, s2, T, Z1)
    BY <1>1, <1>2, <1>3, <1>6, <1>7, LocalChanges
  <1>13. Gives(T, Z1, s3, T, Z1)
    BY <1>1, <1>2, <1>3, <1>6, <1>8, LocalChanges
  <1>14. Gives(T, Z1, s4, T, Z1)
    BY <1>1, <1>2, <1>3, <1>6, <1>9, LocalChanges
  <1>15. Gives(T, Z1, s5, T, Y)
    BY <1>1, <1>2, <1>3, <1>10, LocalSets
  <1>16. gl90_v(cfg) = s1 \o s2 \o s3 \o s4 \o s5
    BY Zenon DEF gl90_v, solve, column, box, work
  <1> HIDE DEF s1, s2, s3, s4, s5, Y
  <1>17. Gives(T, Z, s1 \o s2 \o s3, T, Z1)
    BY <1>11, <1>12, <1>13, ThenGives
  <1>18. Gives(T, Z, s1 \o s2 \o s3 \o s4 \o s5, T, Y)
    BY <1>14, <1>15, <1>17, ThenGives
  <1> QED BY <1>16, <1>18 DEF Y, Z1, solve, work

-----------------------------------------------------------------------------
\* What the step finds at zonal faces
VertFound_u(cfg) ==
    GivenOf(cfg, {"du_dt_visc", "du_dt_visc_gl90", "du_dt_str", "taux_shelf", "taux_bot"})
    \cup When(On(cfg, "do_GLwork"), {"KE_u"})

\* Up to the solve: the velocity is kept for the tendencies before the wind and the drag
\* change it.
LEMMA Started_uGive ==
    ASSUME NEW T, NEW U, NEW H, NEW k, NEW cfg, NEW calm, VertTable(T, H, k, cfg, calm),
           calm \cap VertAt_u = {"u", "du_dt_visc", "du_dt_visc_gl90", "KE_u"},
           NEW C, C = calm \ {"u"}, VertTable(U, H, k, cfg, C),
           NEW Z, VertArgs(cfg) \cup {"u"} \subseteq Z, Z \subseteq VertArrays(cfg), FrictionTogether(cfg)
    PROVE  Gives(T, Z, Changes(DoStokesMixing(cfg), bxU(cfg), "u", At({"face_u", "Us_x"}, Here))
                       \o Changes(On(cfg, "fpmix"), bxU(cfg), "u", At({"face_u", "Us_x"}, Here))
                       \o Sets(Wanted(cfg, "du_dt_visc"), bxU(cfg), "du_dt_visc", At({"u"}, Here))
                       \o Sets(Wanted(cfg, "du_dt_visc_gl90"), bxU(cfg), "du_dt_visc_gl90", At({"u"}, Here))
                       \o Sets(Wanted(cfg, "du_dt_str"), bxU(cfg), "du_dt_str", {})
                       \o wind_u(cfg)
                       \o vertvisc_tridiag(cfg, bxU(cfg), "u",
                                           At({"h_u", "a_u", "face_u"} \cup GivenOf(cfg, {"Ray_u"}), Here),
                                           "du_dt_str", "surface_stress_u", "c1U"),
                 U, Z \cup GivenOf(cfg, {"du_dt_visc", "du_dt_visc_gl90", "du_dt_str"}) \cup {"surface_stress_u", "c1U"})
  <1> DEFINE A == VertArgs(cfg)
             B == VertAt_u
             O == AroundFaceU
             box == bxU(cfg)
             dv == Wanted(cfg, "du_dt_visc")
             dg == Wanted(cfg, "du_dt_visc_gl90")
             str == Wanted(cfg, "du_dt_str")
             D == Driven_u
             drag == {"h_u", "a_u", "face_u"} \cup GivenOf(cfg, {"Ray_u"})
             X1 == Z \cup When(dv, {"du_dt_visc"})
             X2 == X1 \cup When(dg, {"du_dt_visc_gl90"})
             X3 == X2 \cup When(str, {"du_dt_str"})
             X4 == X3 \cup {"surface_stress_u"}
             Y == X4 \cup {"c1U"}
  <1>1. Beside(T, H, A, B, O, box) /\ Beside(U, H, A, B, O, box) /\ <<0, 0>> \in O
    BY VertHolds, AroundFaces
  <1>2. {"u", "du_dt_visc", "du_dt_visc_gl90", "du_dt_str", "surface_stress_u", "c1U"} \subseteq B
    BY DEF VertAt_u
  <1>3. T["du_dt_visc"].of = T["u"].of /\ T["du_dt_visc_gl90"].of = T["u"].of
    BY <1>2, VertHolds
  <1>4. /\ U["u"].of = VertAny /\ U["du_dt_str"].of = D /\ U["surface_stress_u"].of = D /\ U["c1U"].of = D
        /\ D \subseteq VertAny
    <2>1. "u" \notin VertDriven /\ {"du_dt_str", "surface_stress_u", "c1U"} \subseteq VertDriven
      BY DEF VertDriven
    <2>2. {"u", "du_dt_str", "surface_stress_u", "c1U"} \cap C = {}
      BY <1>2
    <2>3. D \subseteq VertAny
      BY DEF Driven_u, VertAny, VertSources
    <2> QED BY <1>2, <2>1, <2>2, <2>3, VertHolds
  <1>5. drag \subseteq A /\ \A a \in drag : U[a].of \subseteq D
    <2>1. drag \subseteq A /\ drag \subseteq D
      BY DEF VertArgs, GivenOf, VertSources, Driven_u
    <2>2. \A a \in A : U[a].of = {a}
      BY VertHolds
    <2> HIDE DEF A, D, drag
    <2> QED BY <2>1, <2>2
  <1>6. (DoStokesMixing(cfg) => Wanted(cfg, "Us_x")) /\ (On(cfg, "fpmix") => Wanted(cfg, "Us_x"))
    BY DEF DoStokesMixing, FrictionTogether, BothDirections
  <1>7. X3 \subseteq VertArrays(cfg) /\ A \cup {"u"} \subseteq X3 /\ (str => "du_dt_str" \in X3) /\ {"surface_stress_u", "du_dt_str"} \cap calm = {}
    BY DEF When, VertArrays, VertAt_u
  <1>8. A \subseteq X4 /\ {"u", "surface_stress_u"} \subseteq X4 /\ (str => "du_dt_str" \in X4)
    BY <1>7
  <1>9. Y = Z \cup GivenOf(cfg, {"du_dt_visc", "du_dt_visc_gl90", "du_dt_str"}) \cup {"surface_stress_u", "c1U"}
    BY DEF When, GivenOf, Wanted
  <1>10. "u" \in (A \cup B) \cap Z /\ "u" \in (A \cup B) \cap X1
    BY <1>2
  <1> HIDE DEF A, B, O, box, dv, dg, str, D, drag, X1, X2, X3, X4, Y
  <1>11. Local(T, Z, A, B, O, T["u"].of, At({"u"}, Here)) /\ Local(T, X1, A, B, O, T["u"].of, At({"u"}, Here))
    BY <1>1, <1>10, LocalHere
  <1>12. Local(U, X4, A, B, O, D, At(drag, Here))
    BY <1>1, <1>5, <1>8, LocalHere
  <1>13. Solves(U, X4, B, "u", "du_dt_str", "surface_stress_u", "c1U", str, D)
    BY <1>2, <1>4, <1>8 DEF Solves
  <1> DEFINE s1 == Changes(DoStokesMixing(cfg), box, "u", At({"face_u", "Us_x"}, Here))
             s2 == Changes(On(cfg, "fpmix"), box, "u", At({"face_u", "Us_x"}, Here))
             s3 == Sets(dv, box, "du_dt_visc", At({"u"}, Here))
             s4 == Sets(dg, box, "du_dt_visc_gl90", At({"u"}, Here))
             s5 == Sets(str, box, "du_dt_str", {})
             s6 == wind_u(cfg)
             s7 == vertvisc_tridiag(cfg, box, "u", At(drag, Here), "du_dt_str", "surface_stress_u", "c1U")
  <1>21. Gives(T, Z, s1, T, Z) /\ Gives(T, Z, s2, T, Z)
    BY <1>6, Stokes_uGive DEF box
  <1>22. Gives(T, Z, s3, T, X1)
    BY <1>1, <1>2, <1>3, <1>11, LocalSets DEF X1
  <1>23. Gives(T, X1, s4, T, X2)
    BY <1>1, <1>2, <1>3, <1>11, LocalSets DEF X2
  <1>24. Gives(T, X2, s5, T, X3)
    <2>1. Local(T, X2, A, B, O, T["du_dt_str"].of, {})
      BY DEF Local
    <2> QED BY <1>1, <1>2, <2>1, LocalSets DEF X3
  <1>25. Gives(T, X3, s6, U, X4)
    BY <1>7, Wind_uGives DEF X4, A, str
  <1>26. Gives(U, X4, s7, U, Y)
    BY <1>1, <1>12, <1>13, TridiagGives DEF Y, str
  <1> HIDE DEF s1, s2, s3, s4, s5, s6, s7
  <1>31. Gives(T, Z, s1 \o s2 \o s3, T, X1)
    BY <1>21, <1>22, ThenGives
  <1>32. Gives(T, Z, s1 \o s2 \o s3 \o s4 \o s5, T, X3)
    BY <1>31, <1>23, <1>24, ThenGives
  <1>33. Gives(T, Z, s1 \o s2 \o s3 \o s4 \o s5 \o s6 \o s7, U, Y)
    BY <1>32, <1>25, <1>26, ThenGives
  <1> QED BY Zenon, <1>9, <1>33 DEF s1, s2, s3, s4, s5, s6, s7, box, dv, dg, str, drag

\* What the step finds at meridional faces
VertFound_v(cfg) ==
    GivenOf(cfg, {"dv_dt_visc", "dv_dt_visc_gl90", "dv_dt_str", "tauy_shelf", "tauy_bot"})
    \cup When(On(cfg, "do_GLwork"), {"KE_v"})

\* Up to the solve: the velocity is kept for the tendencies before the wind and the drag
\* change it.
LEMMA Started_vGive ==
    ASSUME NEW T, NEW U, NEW H, NEW k, NEW cfg, NEW calm, VertTable(T, H, k, cfg, calm),
           calm \cap VertAt_v = {"v", "dv_dt_visc", "dv_dt_visc_gl90", "KE_v"},
           NEW C, C = calm \ {"v"}, VertTable(U, H, k, cfg, C),
           NEW Z, VertArgs(cfg) \cup {"v"} \subseteq Z, Z \subseteq VertArrays(cfg), FrictionTogether(cfg)
    PROVE  Gives(T, Z, Changes(DoStokesMixing(cfg), bxV(cfg), "v", At({"face_v", "Us_y"}, Here))
                       \o Changes(On(cfg, "fpmix"), bxV(cfg), "v", At({"face_v", "Us_y"}, Here))
                       \o Sets(Wanted(cfg, "dv_dt_visc"), bxV(cfg), "dv_dt_visc", At({"v"}, Here))
                       \o Sets(Wanted(cfg, "dv_dt_visc_gl90"), bxV(cfg), "dv_dt_visc_gl90", At({"v"}, Here))
                       \o Sets(Wanted(cfg, "dv_dt_str"), bxV(cfg), "dv_dt_str", {})
                       \o wind_v(cfg)
                       \o vertvisc_tridiag(cfg, bxV(cfg), "v",
                                           At({"h_v", "a_v", "face_v"} \cup GivenOf(cfg, {"Ray_v"}), Here),
                                           "dv_dt_str", "surface_stress_v", "c1V"),
                 U, Z \cup GivenOf(cfg, {"dv_dt_visc", "dv_dt_visc_gl90", "dv_dt_str"}) \cup {"surface_stress_v", "c1V"})
  <1> DEFINE A == VertArgs(cfg)
             B == VertAt_v
             O == AroundFaceV
             box == bxV(cfg)
             dv == Wanted(cfg, "dv_dt_visc")
             dg == Wanted(cfg, "dv_dt_visc_gl90")
             str == Wanted(cfg, "dv_dt_str")
             D == Driven_v
             drag == {"h_v", "a_v", "face_v"} \cup GivenOf(cfg, {"Ray_v"})
             X1 == Z \cup When(dv, {"dv_dt_visc"})
             X2 == X1 \cup When(dg, {"dv_dt_visc_gl90"})
             X3 == X2 \cup When(str, {"dv_dt_str"})
             X4 == X3 \cup {"surface_stress_v"}
             Y == X4 \cup {"c1V"}
  <1>1. Beside(T, H, A, B, O, box) /\ Beside(U, H, A, B, O, box) /\ <<0, 0>> \in O
    BY VertHolds, AroundFaces
  <1>2. {"v", "dv_dt_visc", "dv_dt_visc_gl90", "dv_dt_str", "surface_stress_v", "c1V"} \subseteq B
    BY DEF VertAt_v
  <1>3. T["dv_dt_visc"].of = T["v"].of /\ T["dv_dt_visc_gl90"].of = T["v"].of
    BY <1>2, VertHolds
  <1>4. /\ U["v"].of = VertAny /\ U["dv_dt_str"].of = D /\ U["surface_stress_v"].of = D /\ U["c1V"].of = D
        /\ D \subseteq VertAny
    <2>1. "v" \notin VertDriven /\ {"dv_dt_str", "surface_stress_v", "c1V"} \subseteq VertDriven
      BY DEF VertDriven
    <2>2. {"v", "dv_dt_str", "surface_stress_v", "c1V"} \cap C = {}
      BY <1>2
    <2>3. D \subseteq VertAny
      BY DEF Driven_v, VertAny, VertSources
    <2> QED BY <1>2, <2>1, <2>2, <2>3, VertHolds
  <1>5. drag \subseteq A /\ \A a \in drag : U[a].of \subseteq D
    <2>1. drag \subseteq A /\ drag \subseteq D
      BY DEF VertArgs, GivenOf, VertSources, Driven_v
    <2>2. \A a \in A : U[a].of = {a}
      BY VertHolds
    <2> HIDE DEF A, D, drag
    <2> QED BY <2>1, <2>2
  <1>6. (DoStokesMixing(cfg) => Wanted(cfg, "Us_y")) /\ (On(cfg, "fpmix") => Wanted(cfg, "Us_y"))
    BY DEF DoStokesMixing, FrictionTogether, BothDirections
  <1>7. X3 \subseteq VertArrays(cfg) /\ A \cup {"v"} \subseteq X3 /\ (str => "dv_dt_str" \in X3) /\ {"surface_stress_v", "dv_dt_str"} \cap calm = {}
    BY DEF When, VertArrays, VertAt_v
  <1>8. A \subseteq X4 /\ {"v", "surface_stress_v"} \subseteq X4 /\ (str => "dv_dt_str" \in X4)
    BY <1>7
  <1>9. Y = Z \cup GivenOf(cfg, {"dv_dt_visc", "dv_dt_visc_gl90", "dv_dt_str"}) \cup {"surface_stress_v", "c1V"}
    BY DEF When, GivenOf, Wanted
  <1>10. "v" \in (A \cup B) \cap Z /\ "v" \in (A \cup B) \cap X1
    BY <1>2
  <1> HIDE DEF A, B, O, box, dv, dg, str, D, drag, X1, X2, X3, X4, Y
  <1>11. Local(T, Z, A, B, O, T["v"].of, At({"v"}, Here)) /\ Local(T, X1, A, B, O, T["v"].of, At({"v"}, Here))
    BY <1>1, <1>10, LocalHere
  <1>12. Local(U, X4, A, B, O, D, At(drag, Here))
    BY <1>1, <1>5, <1>8, LocalHere
  <1>13. Solves(U, X4, B, "v", "dv_dt_str", "surface_stress_v", "c1V", str, D)
    BY <1>2, <1>4, <1>8 DEF Solves
  <1> DEFINE s1 == Changes(DoStokesMixing(cfg), box, "v", At({"face_v", "Us_y"}, Here))
             s2 == Changes(On(cfg, "fpmix"), box, "v", At({"face_v", "Us_y"}, Here))
             s3 == Sets(dv, box, "dv_dt_visc", At({"v"}, Here))
             s4 == Sets(dg, box, "dv_dt_visc_gl90", At({"v"}, Here))
             s5 == Sets(str, box, "dv_dt_str", {})
             s6 == wind_v(cfg)
             s7 == vertvisc_tridiag(cfg, box, "v", At(drag, Here), "dv_dt_str", "surface_stress_v", "c1V")
  <1>21. Gives(T, Z, s1, T, Z) /\ Gives(T, Z, s2, T, Z)
    BY <1>6, Stokes_vGive DEF box
  <1>22. Gives(T, Z, s3, T, X1)
    BY <1>1, <1>2, <1>3, <1>11, LocalSets DEF X1
  <1>23. Gives(T, X1, s4, T, X2)
    BY <1>1, <1>2, <1>3, <1>11, LocalSets DEF X2
  <1>24. Gives(T, X2, s5, T, X3)
    <2>1. Local(T, X2, A, B, O, T["dv_dt_str"].of, {})
      BY DEF Local
    <2> QED BY <1>1, <1>2, <2>1, LocalSets DEF X3
  <1>25. Gives(T, X3, s6, U, X4)
    BY <1>7, Wind_vGives DEF X4, A, str
  <1>26. Gives(U, X4, s7, U, Y)
    BY <1>1, <1>12, <1>13, TridiagGives DEF Y, str
  <1> HIDE DEF s1, s2, s3, s4, s5, s6, s7
  <1>31. Gives(T, Z, s1 \o s2 \o s3, T, X1)
    BY <1>21, <1>22, ThenGives
  <1>32. Gives(T, Z, s1 \o s2 \o s3 \o s4 \o s5, T, X3)
    BY <1>31, <1>23, <1>24, ThenGives
  <1>33. Gives(T, Z, s1 \o s2 \o s3 \o s4 \o s5 \o s6 \o s7, U, Y)
    BY <1>32, <1>25, <1>26, ThenGives
  <1> QED BY Zenon, <1>9, <1>33 DEF s1, s2, s3, s4, s5, s6, s7, box, dv, dg, str, drag

-----------------------------------------------------------------------------
\* From the solve on: the GL90 viscosity starts from the velocity that was kept, with the
\* coefficients of the column found anew; only then is the tendency worked out.
LEMMA Solving_uGives ==
    ASSUME NEW V, NEW W, NEW H, NEW k, NEW cfg, NEW C, VertTable(V, H, k, cfg, C),
           C \cap VertAt_u = {"c1U", "du_dt_visc", "du_dt_visc_gl90", "KE_u"},
           NEW E, E = C \ {"du_dt_visc"}, VertTable(W, H, k, cfg, E),
           NEW Z, VertArgs(cfg) \cup {"u"} \subseteq Z, Z \subseteq VertArrays(cfg), FrictionTogether(cfg),
           \A a \in {"du_dt_visc", "du_dt_visc_gl90"} : (Wanted(cfg, a) <=> a \in Z),
           NEW S, NEW X, NEW first, Gives(S, X, first, V, Z)
    PROVE  Gives(S, X, first
                       \o gl90_u(cfg)
                       \o Changes(Wanted(cfg, "du_dt_visc"), bxU(cfg), "du_dt_visc", At({"u"}, Here))
                       \o Sets(Wanted(cfg, "taux_shelf"), bxU(cfg), "taux_shelf", At({"a1_shelf_u", "u"}, Here))
                       \o Sets(Wanted(cfg, "taux_bot"), bxU(cfg), "taux_bot", At({"u", "a_u"}, Here))
                       \o Changes(Wanted(cfg, "taux_bot") /\ Wanted(cfg, "Ray_u"), bxU(cfg), "taux_bot", At({"u", "Ray_u"}, Here))
                       \o Changes(DoStokesMixing(cfg), bxU(cfg), "u", At({"face_u", "Us_x"}, Here))
                       \o Changes(On(cfg, "fpmix"), bxU(cfg), "u", At({"face_u", "Us_x"}, Here)),
                 W, Z \cup GivenOf(cfg, {"taux_shelf", "taux_bot"}) \cup When(On(cfg, "do_GLwork"), {"KE_u"}))
  <1> DEFINE A == VertArgs(cfg)
             B == VertAt_u
             O == AroundFaceU
             box == bxU(cfg)
             dv == Wanted(cfg, "du_dt_visc")
             solve == cfg.on \cap {"do_du_dt_visc_gl90", "do_GLwork"} # {} /\ Wanted(cfg, "du_dt_visc_gl90")
             work == solve /\ On(cfg, "do_GLwork")
             shelf == Wanted(cfg, "taux_shelf")
             bottom == Wanted(cfg, "taux_bot")
             drag == Wanted(cfg, "taux_bot") /\ Wanted(cfg, "Ray_u")
             X1 == Z \cup When(solve, {"c1U"}) \cup When(work, {"KE_u"})
             X2 == X1 \cup When(shelf, {"taux_shelf"})
             X3 == X2 \cup When(bottom, {"taux_bot"})
             Y == Z \cup GivenOf(cfg, {"taux_shelf", "taux_bot"}) \cup When(On(cfg, "do_GLwork"), {"KE_u"})
  <1>1. Beside(V, H, A, B, O, box) /\ Beside(W, H, A, B, O, box) /\ <<0, 0>> \in O
    BY VertHolds, AroundFaces
  <1>2. {"u", "du_dt_visc", "taux_shelf", "taux_bot"} \subseteq B
    BY DEF VertAt_u
  <1>3. /\ V["u"].of = VertAny /\ V["du_dt_visc"].of = Calm_u
        /\ W["u"].of = VertAny /\ W["du_dt_visc"].of = VertAny
        /\ W["taux_shelf"].of = VertAny /\ W["taux_bot"].of = VertAny /\ Calm_u \subseteq VertAny
    <2>1. {"u", "du_dt_visc", "taux_shelf", "taux_bot"} \cap VertDriven = {}
      BY DEF VertDriven
    <2>2. {"u", "du_dt_visc", "taux_shelf", "taux_bot"} \cap E = {} /\ "u" \notin C /\ "du_dt_visc" \in C
      BY <1>2
    <2>3. Calm_u \subseteq VertAny
      BY DEF Calm_u, VertAny, VertSources
    <2> HIDE DEF B
    <2>4. V["u"].of = VertAny /\ V["du_dt_visc"].of = Calm_u
      BY <1>2, <2>1, <2>2, VertHolds DEF B
    <2>5. \A a \in {"u", "du_dt_visc", "taux_shelf", "taux_bot"} : W[a].of = VertAny
      BY <1>2, <2>1, <2>2, VertHolds DEF B
    <2> QED BY <2>3, <2>4, <2>5
  <1>4. \A a \in A : W[a].of = {a} /\ a \in VertAny
    <2>1. A \subseteq VertAny
      BY DEF VertArgs, GivenOf, VertAny, VertSources
    <2> HIDE DEF A
    <2> QED BY <2>1, VertHolds DEF A
  <1>5. (DoStokesMixing(cfg) => Wanted(cfg, "Us_x")) /\ (On(cfg, "fpmix") => Wanted(cfg, "Us_x"))
    BY DEF DoStokesMixing, FrictionTogether, BothDirections
  <1>6. (shelf => "a1_shelf_u" \in A) /\ "a_u" \in A /\ (drag => "Ray_u" \in A)
    BY DEF FrictionTogether, VertArgs, GivenOf, VertSources, Wanted
  <1>7. /\ X1 \subseteq VertArrays(cfg)
        /\ A \cup {"u"} \subseteq X1 /\ A \cup {"u"} \subseteq X2 /\ A \cup {"u"} \subseteq X3
    BY DEF When, VertArrays, VertAt_u
  <1>8. /\ (dv <=> "du_dt_visc" \in X1)
        /\ \A a \in {"du_dt_visc", "du_dt_visc_gl90"} : Wanted(cfg, a) => a \in Z
        /\ (drag => "taux_bot" \in X3)
    BY DEF When
  <1>9. Y \subseteq X3
    <2>1. On(cfg, "do_GLwork") => work
      BY DEF FrictionTogether, On, Wanted
    <2>2. When(On(cfg, "do_GLwork"), {"KE_u"}) \subseteq X1
      BY <2>1 DEF When
    <2>3. GivenOf(cfg, {"taux_shelf", "taux_bot"}) \subseteq X3
      BY DEF GivenOf, Wanted, When
    <2> QED BY <2>2, <2>3
  <1>11. /\ Looser(V, W, X1)
         /\ ~dv => Follows(V, X1, W, X1)
    <2>1. \A a \in X1 : (a \in E => a \in C) /\ (a \in C \ E => a \notin VertDriven)
      BY DEF VertDriven
    <2>2. ~dv => \A a \in X1 : a \in C <=> a \in E
      BY <1>8
    <2> HIDE DEF X1
    <2> QED BY <1>7, <2>1, <2>2, VertAgree
  <1>c. {"c1U", "du_dt_visc", "du_dt_visc_gl90", "KE_u"} \subseteq C
    OBVIOUS
  <1> DEFINE s1 == gl90_u(cfg)
             s2 == Changes(dv, box, "du_dt_visc", At({"u"}, Here))
             s3 == Sets(shelf, box, "taux_shelf", At({"a1_shelf_u", "u"}, Here))
             s4 == Sets(bottom, box, "taux_bot", At({"u", "a_u"}, Here))
             s5 == Changes(drag, box, "taux_bot", At({"u", "Ray_u"}, Here))
             s6 == Changes(DoStokesMixing(cfg), box, "u", At({"face_u", "Us_x"}, Here))
             s7 == Changes(On(cfg, "fpmix"), box, "u", At({"face_u", "Us_x"}, Here))
  <1>21. Gives(V, Z, s1, V, X1)
    BY <1>8, <1>c, GL90_uGives
  <1> HIDE DEF A, B, O, box, dv, solve, work, shelf, bottom, drag, X1, X2, X3, Y
  <1>22. Gives(V, X1, s2, W, X1)
    <2>1. CASE dv
      <3>1. {"u", "du_dt_visc"} \subseteq (A \cup B) \cap X1 /\ \A a \in {"u", "du_dt_visc"} : V[a].of \subseteq VertAny
        BY <1>2, <1>3, <1>7, <1>8, <2>1
      <3> DEFINE R == At({"u"}, Here) \cup At({"du_dt_visc"}, Here)
      <3>2. Local(V, X1, A, B, O, VertAny, R)
        <4>1. Local(V, X1, A, B, O, VertAny, At({"u"}, Here)) /\ Local(V, X1, A, B, O, VertAny, At({"du_dt_visc"}, Here))
          BY <1>1, <3>1, LocalHere
        <4> QED BY <4>1, LocalBoth
      <3> HIDE DEF R
      <3>3. Gives(V, X1, <<Loop(box, {Set({"du_dt_visc"}, R)})>>, W, X1 \cup {"du_dt_visc"})
        BY <1>1, <1>2, <1>3, <1>11, <3>2, LoosenSets
      <3>4. X1 \cup {"du_dt_visc"} = X1
        BY <1>8, <2>1
      <3> QED BY <2>1, <3>3, <3>4 DEF Changes, Sets, R
    <2>2. CASE ~dv
      BY <1>11, <2>2, NoStepGives DEF Changes, Sets
    <2> QED BY <2>1, <2>2
  <1>23. Gives(W, X1, s3, W, X2)
    <2>1. shelf => /\ {"a1_shelf_u", "u"} \subseteq (A \cup B) \cap X1
                   /\ \A a \in {"a1_shelf_u", "u"} : W[a].of \subseteq VertAny
      BY <1>2, <1>3, <1>4, <1>6, <1>7
    <2>2. shelf => Local(W, X1, A, B, O, VertAny, At({"a1_shelf_u", "u"}, Here))
      BY <1>1, <2>1, LocalHere
    <2> QED BY <1>1, <1>2, <1>3, <2>2, LocalSets DEF X2
  <1>24. Gives(W, X2, s4, W, X3)
    <2>1. {"u", "a_u"} \subseteq (A \cup B) \cap X2 /\ \A a \in {"u", "a_u"} : W[a].of \subseteq VertAny
      BY <1>2, <1>3, <1>4, <1>6, <1>7
    <2>2. Local(W, X2, A, B, O, VertAny, At({"u", "a_u"}, Here))
      BY <1>1, <2>1, LocalHere
    <2> QED BY <1>1, <1>2, <1>3, <2>2, LocalSets DEF X3
  <1>25. Gives(W, X3, s5, W, X3)
    <2>1. drag => {"u", "Ray_u"} \subseteq (A \cup B) \cap X3 /\ \A a \in {"u", "Ray_u"} : W[a].of \subseteq VertAny
      BY <1>2, <1>3, <1>4, <1>6, <1>7
    <2>2. drag => Local(W, X3, A, B, O, VertAny, At({"u", "Ray_u"}, Here))
      BY <1>1, <2>1, LocalHere
    <2> QED BY <1>1, <1>2, <1>3, <1>8, <2>2, LocalChanges
  <1>26. Gives(W, X3, s6, W, X3) /\ Gives(W, X3, s7, W, X3)
    BY <1>5, <1>7, Stokes_uGive DEF box, A
  <1> HIDE DEF s1, s2, s3, s4, s5, s6, s7
  <1>31. Gives(S, X, first \o s1, V, X1)
    BY <1>21, ThenGives
  <1>32. Gives(S, X, first \o s1 \o s2 \o s3, W, X2)
    BY <1>31, <1>22, <1>23, ThenGives
  <1>33. Gives(S, X, first \o s1 \o s2 \o s3 \o s4 \o s5, W, X3)
    BY <1>32, <1>24, <1>25, ThenGives
  <1>34. Gives(S, X, first \o s1 \o s2 \o s3 \o s4 \o s5 \o s6 \o s7, W, X3)
    BY <1>33, <1>26, ThenGives
  <1>36. Follows(W, X3, W, Y)
    BY <1>9 DEF Follows
  <1>37. Gives(S, X, first \o s1 \o s2 \o s3 \o s4 \o s5 \o s6 \o s7, W, Y)
    BY <1>34, <1>36, GivesLess
  <1> QED BY Zenon, <1>37 DEF s1, s2, s3, s4, s5, s6, s7, box, dv, shelf, bottom, drag, Y

\* From the solve on: the GL90 viscosity starts from the velocity that was kept, with the
\* coefficients of the column found anew; only then is the tendency worked out.
LEMMA Solving_vGives ==
    ASSUME NEW V, NEW W, NEW H, NEW k, NEW cfg, NEW C, VertTable(V, H, k, cfg, C),
           C \cap VertAt_v = {"c1V", "dv_dt_visc", "dv_dt_visc_gl90", "KE_v"},
           NEW E, E = C \ {"dv_dt_visc"}, VertTable(W, H, k, cfg, E),
           NEW Z, VertArgs(cfg) \cup {"v"} \subseteq Z, Z \subseteq VertArrays(cfg), FrictionTogether(cfg),
           \A a \in {"dv_dt_visc", "dv_dt_visc_gl90"} : (Wanted(cfg, a) <=> a \in Z),
           NEW S, NEW X, NEW first, Gives(S, X, first, V, Z)
    PROVE  Gives(S, X, first
                       \o gl90_v(cfg)
                       \o Changes(Wanted(cfg, "dv_dt_visc"), bxV(cfg), "dv_dt_visc", At({"v"}, Here))
                       \o Sets(Wanted(cfg, "tauy_shelf"), bxV(cfg), "tauy_shelf", At({"a1_shelf_v", "v"}, Here))
                       \o Sets(Wanted(cfg, "tauy_bot"), bxV(cfg), "tauy_bot", At({"v", "a_v"}, Here))
                       \o Changes(Wanted(cfg, "tauy_bot") /\ Wanted(cfg, "Ray_v"), bxV(cfg), "tauy_bot", At({"v", "Ray_v"}, Here))
                       \o Changes(DoStokesMixing(cfg), bxV(cfg), "v", At({"face_v", "Us_y"}, Here))
                       \o Changes(On(cfg, "fpmix"), bxV(cfg), "v", At({"face_v", "Us_y"}, Here)),
                 W, Z \cup GivenOf(cfg, {"tauy_shelf", "tauy_bot"}) \cup When(On(cfg, "do_GLwork"), {"KE_v"}))
  <1> DEFINE A == VertArgs(cfg)
             B == VertAt_v
             O == AroundFaceV
             box == bxV(cfg)
             dv == Wanted(cfg, "dv_dt_visc")
             solve == cfg.on \cap {"do_dv_dt_visc_gl90", "do_GLwork"} # {} /\ Wanted(cfg, "dv_dt_visc_gl90")
             work == solve /\ On(cfg, "do_GLwork")
             shelf == Wanted(cfg, "tauy_shelf")
             bottom == Wanted(cfg, "tauy_bot")
             drag == Wanted(cfg, "tauy_bot") /\ Wanted(cfg, "Ray_v")
             X1 == Z \cup When(solve, {"c1V"}) \cup When(work, {"KE_v"})
             X2 == X1 \cup When(shelf, {"tauy_shelf"})
             X3 == X2 \cup When(bottom, {"tauy_bot"})
             Y == Z \cup GivenOf(cfg, {"tauy_shelf", "tauy_bot"}) \cup When(On(cfg, "do_GLwork"), {"KE_v"})
  <1>1. Beside(V, H, A, B, O, box) /\ Beside(W, H, A, B, O, box) /\ <<0, 0>> \in O
    BY VertHolds, AroundFaces
  <1>2. {"v", "dv_dt_visc", "tauy_shelf", "tauy_bot"} \subseteq B
    BY DEF VertAt_v
  <1>3. /\ V["v"].of = VertAny /\ V["dv_dt_visc"].of = Calm_v
        /\ W["v"].of = VertAny /\ W["dv_dt_visc"].of = VertAny
        /\ W["tauy_shelf"].of = VertAny /\ W["tauy_bot"].of = VertAny /\ Calm_v \subseteq VertAny
    <2>1. {"v", "dv_dt_visc", "tauy_shelf", "tauy_bot"} \cap VertDriven = {}
      BY DEF VertDriven
    <2>2. {"v", "dv_dt_visc", "tauy_shelf", "tauy_bot"} \cap E = {} /\ "v" \notin C /\ "dv_dt_visc" \in C
      BY <1>2
    <2>3. Calm_v \subseteq VertAny
      BY DEF Calm_v, VertAny, VertSources
    <2> HIDE DEF B
    <2>4. V["v"].of = VertAny /\ V["dv_dt_visc"].of = Calm_v
      BY <1>2, <2>1, <2>2, VertHolds DEF B
    <2>5. \A a \in {"v", "dv_dt_visc", "tauy_shelf", "tauy_bot"} : W[a].of = VertAny
      BY <1>2, <2>1, <2>2, VertHolds DEF B
    <2> QED BY <2>3, <2>4, <2>5
  <1>4. \A a \in A : W[a].of = {a} /\ a \in VertAny
    <2>1. A \subseteq VertAny
      BY DEF VertArgs, GivenOf, VertAny, VertSources
    <2> HIDE DEF A
    <2> QED BY <2>1, VertHolds DEF A
  <1>5. (DoStokesMixing(cfg) => Wanted(cfg, "Us_y")) /\ (On(cfg, "fpmix") => Wanted(cfg, "Us_y"))
    BY DEF DoStokesMixing, FrictionTogether, BothDirections
  <1>6. (shelf => "a1_shelf_v" \in A) /\ "a_v" \in A /\ (drag => "Ray_v" \in A)
    BY DEF FrictionTogether, VertArgs, GivenOf, VertSources, Wanted
  <1>7. /\ X1 \subseteq VertArrays(cfg)
        /\ A \cup {"v"} \subseteq X1 /\ A \cup {"v"} \subseteq X2 /\ A \cup {"v"} \subseteq X3
    BY DEF When, VertArrays, VertAt_v
  <1>8. /\ (dv <=> "dv_dt_visc" \in X1)
        /\ \A a \in {"dv_dt_visc", "dv_dt_visc_gl90"} : Wanted(cfg, a) => a \in Z
        /\ (drag => "tauy_bot" \in X3)
    BY DEF When
  <1>9. Y \subseteq X3
    <2>1. On(cfg, "do_GLwork") => work
      BY DEF FrictionTogether, On, Wanted
    <2>2. When(On(cfg, "do_GLwork"), {"KE_v"}) \subseteq X1
      BY <2>1 DEF When
    <2>3. GivenOf(cfg, {"tauy_shelf", "tauy_bot"}) \subseteq X3
      BY DEF GivenOf, Wanted, When
    <2> QED BY <2>2, <2>3
  <1>11. /\ Looser(V, W, X1)
         /\ ~dv => Follows(V, X1, W, X1)
    <2>1. \A a \in X1 : (a \in E => a \in C) /\ (a \in C \ E => a \notin VertDriven)
      BY DEF VertDriven
    <2>2. ~dv => \A a \in X1 : a \in C <=> a \in E
      BY <1>8
    <2> HIDE DEF X1
    <2> QED BY <1>7, <2>1, <2>2, VertAgree
  <1>c. {"c1V", "dv_dt_visc", "dv_dt_visc_gl90", "KE_v"} \subseteq C
    OBVIOUS
  <1> DEFINE s1 == gl90_v(cfg)
             s2 == Changes(dv, box, "dv_dt_visc", At({"v"}, Here))
             s3 == Sets(shelf, box, "tauy_shelf", At({"a1_shelf_v", "v"}, Here))
             s4 == Sets(bottom, box, "tauy_bot", At({"v", "a_v"}, Here))
             s5 == Changes(drag, box, "tauy_bot", At({"v", "Ray_v"}, Here))
             s6 == Changes(DoStokesMixing(cfg), box, "v", At({"face_v", "Us_y"}, Here))
             s7 == Changes(On(cfg, "fpmix"), box, "v", At({"face_v", "Us_y"}, Here))
  <1>21. Gives(V, Z, s1, V, X1)
    BY <1>8, <1>c, GL90_vGives
  <1> HIDE DEF A, B, O, box, dv, solve, work, shelf, bottom, drag, X1, X2, X3, Y
  <1>22. Gives(V, X1, s2, W, X1)
    <2>1. CASE dv
      <3>1. {"v", "dv_dt_visc"} \subseteq (A \cup B) \cap X1 /\ \A a \in {"v", "dv_dt_visc"} : V[a].of \subseteq VertAny
        BY <1>2, <1>3, <1>7, <1>8, <2>1
      <3> DEFINE R == At({"v"}, Here) \cup At({"dv_dt_visc"}, Here)
      <3>2. Local(V, X1, A, B, O, VertAny, R)
        <4>1. Local(V, X1, A, B, O, VertAny, At({"v"}, Here)) /\ Local(V, X1, A, B, O, VertAny, At({"dv_dt_visc"}, Here))
          BY <1>1, <3>1, LocalHere
        <4> QED BY <4>1, LocalBoth
      <3> HIDE DEF R
      <3>3. Gives(V, X1, <<Loop(box, {Set({"dv_dt_visc"}, R)})>>, W, X1 \cup {"dv_dt_visc"})
        BY <1>1, <1>2, <1>3, <1>11, <3>2, LoosenSets
      <3>4. X1 \cup {"dv_dt_visc"} = X1
        BY <1>8, <2>1
      <3> QED BY <2>1, <3>3, <3>4 DEF Changes, Sets, R
    <2>2. CASE ~dv
      BY <1>11, <2>2, NoStepGives DEF Changes, Sets
    <2> QED BY <2>1, <2>2
  <1>23. Gives(W, X1, s3, W, X2)
    <2>1. shelf => /\ {"a1_shelf_v", "v"} \subseteq (A \cup B) \cap X1
                   /\ \A a \in {"a1_shelf_v", "v"} : W[a].of \subseteq VertAny
      BY <1>2, <1>3, <1>4, <1>6, <1>7
    <2>2. shelf => Local(W, X1, A, B, O, VertAny, At({"a1_shelf_v", "v"}, Here))
      BY <1>1, <2>1, LocalHere
    <2> QED BY <1>1, <1>2, <1>3, <2>2, LocalSets DEF X2
  <1>24. Gives(W, X2, s4, W, X3)
    <2>1. {"v", "a_v"} \subseteq (A \cup B) \cap X2 /\ \A a \in {"v", "a_v"} : W[a].of \subseteq VertAny
      BY <1>2, <1>3, <1>4, <1>6, <1>7
    <2>2. Local(W, X2, A, B, O, VertAny, At({"v", "a_v"}, Here))
      BY <1>1, <2>1, LocalHere
    <2> QED BY <1>1, <1>2, <1>3, <2>2, LocalSets DEF X3
  <1>25. Gives(W, X3, s5, W, X3)
    <2>1. drag => {"v", "Ray_v"} \subseteq (A \cup B) \cap X3 /\ \A a \in {"v", "Ray_v"} : W[a].of \subseteq VertAny
      BY <1>2, <1>3, <1>4, <1>6, <1>7
    <2>2. drag => Local(W, X3, A, B, O, VertAny, At({"v", "Ray_v"}, Here))
      BY <1>1, <2>1, LocalHere
    <2> QED BY <1>1, <1>2, <1>3, <1>8, <2>2, LocalChanges
  <1>26. Gives(W, X3, s6, W, X3) /\ Gives(W, X3, s7, W, X3)
    BY <1>5, <1>7, Stokes_vGive DEF box, A
  <1> HIDE DEF s1, s2, s3, s4, s5, s6, s7
  <1>31. Gives(S, X, first \o s1, V, X1)
    BY <1>21, ThenGives
  <1>32. Gives(S, X, first \o s1 \o s2 \o s3, W, X2)
    BY <1>31, <1>22, <1>23, ThenGives
  <1>33. Gives(S, X, first \o s1 \o s2 \o s3 \o s4 \o s5, W, X3)
    BY <1>32, <1>24, <1>25, ThenGives
  <1>34. Gives(S, X, first \o s1 \o s2 \o s3 \o s4 \o s5 \o s6 \o s7, W, X3)
    BY <1>33, <1>26, ThenGives
  <1>36. Follows(W, X3, W, Y)
    BY <1>9 DEF Follows
  <1>37. Gives(S, X, first \o s1 \o s2 \o s3 \o s4 \o s5 \o s6 \o s7, W, Y)
    BY <1>34, <1>36, GivesLess
  <1> QED BY Zenon, <1>37 DEF s1, s2, s3, s4, s5, s6, s7, box, dv, shelf, bottom, drag, Y

-----------------------------------------------------------------------------
\* The step at zonal faces, from claims in which only what the velocity was before is calm.
LEMMA ZonalVertviscGives ==
    ASSUME NEW T, NEW W, NEW H, NEW k, NEW cfg, NEW calm, VertTable(T, H, k, cfg, calm),
           calm \cap VertAt_u = {"u", "du_dt_visc", "du_dt_visc_gl90", "KE_u"},
           NEW E, E = (calm \ {"u", "du_dt_visc"}) \cup {"c1U"}, VertTable(W, H, k, cfg, E),
           NEW Z, VertArgs(cfg) \cup {"u"} \subseteq Z, Z \subseteq VertArrays(cfg), Z \cap VertAt_u \subseteq {"u", "u_old"},
           FrictionTogether(cfg)
    PROVE  Gives(T, Z, zonal_vertvisc(cfg), W, Z \cup VertFound_u(cfg))
  <1> DEFINE A == VertArgs(cfg)
             box == bxU(cfg)
             C == calm \ {"u"}
             D == C \cup {"c1U"}
             U == VertClaims(cfg, H, k, C)
             V == VertClaims(cfg, H, k, D)
             X == Z \cup GivenOf(cfg, {"du_dt_visc", "du_dt_visc_gl90", "du_dt_str"})
             Y == Z \cup VertFound_u(cfg)
             s1 == Changes(DoStokesMixing(cfg), bxU(cfg), "u", At({"face_u", "Us_x"}, Here))
                       \o Changes(On(cfg, "fpmix"), bxU(cfg), "u", At({"face_u", "Us_x"}, Here))
                       \o Sets(Wanted(cfg, "du_dt_visc"), bxU(cfg), "du_dt_visc", At({"u"}, Here))
                       \o Sets(Wanted(cfg, "du_dt_visc_gl90"), bxU(cfg), "du_dt_visc_gl90", At({"u"}, Here))
                       \o Sets(Wanted(cfg, "du_dt_str"), bxU(cfg), "du_dt_str", {})
                       \o wind_u(cfg)
                       \o vertvisc_tridiag(cfg, bxU(cfg), "u",
                                           At({"h_u", "a_u", "face_u"} \cup GivenOf(cfg, {"Ray_u"}), Here),
                                           "du_dt_str", "surface_stress_u", "c1U")
  <1>1. VertTable(U, H, k, cfg, C) /\ VertTable(V, H, k, cfg, D)
    BY VertTableOf
  <1>2. "u" \in VertAt_u /\ {"c1U", "surface_stress_u"} \cap (A \cup {"u", "u_old"}) = {} /\ "c1U" \in VertAt_u
        /\ {"du_dt_visc", "du_dt_visc_gl90"} \subseteq VertAt_u \ {"u", "u_old"}
    BY DEF VertArgs, GivenOf, VertSources, VertAt_u
  <1>3. D \cap VertAt_u = {"c1U", "du_dt_visc", "du_dt_visc_gl90", "KE_u"} /\ E = D \ {"du_dt_visc"}
    BY <1>2
  <1>4. X \subseteq VertArrays(cfg) /\ A \cup {"u"} \subseteq X /\ "c1U" \notin X
        /\ \A a \in {"du_dt_visc", "du_dt_visc_gl90"} : Wanted(cfg, a) <=> a \in X
    <2>1. GivenOf(cfg, {"du_dt_visc", "du_dt_visc_gl90", "du_dt_str"}) \subseteq VertArrays(cfg)
      BY DEF GivenOf, VertArrays, VertAt_u
    <2>2. "c1U" \notin Z /\ "du_dt_visc" \notin Z /\ "du_dt_visc_gl90" \notin Z
      BY <1>2
    <2> QED BY <2>1, <2>2 DEF GivenOf, Wanted
  <1>5. Y = X \cup GivenOf(cfg, {"taux_shelf", "taux_bot"}) \cup When(On(cfg, "do_GLwork"), {"KE_u"})
    BY DEF VertFound_u, GivenOf
  <1> HIDE DEF U, V, D, Y
  <1>6. Gives(T, Z, s1, U, X \cup {"surface_stress_u", "c1U"})
    <2> HIDE DEF s1, C
    <2> QED BY <1>1, Started_uGive DEF s1, C
  <1>7. Follows(U, X, V, X)
    <2>1. \A a \in X : a \in C <=> a \in D
      BY <1>4 DEF D
    <2> HIDE DEF X, C
    <2> QED BY <1>1, <1>4, <2>1, VertAgree
  <1> HIDE DEF s1, X, A, C
  <1>8. Gives(T, Z, s1, V, X)
    <2>1. Follows(U, X \cup {"surface_stress_u", "c1U"}, V, X)
      BY <1>7 DEF Follows
    <2> QED BY <1>6, <2>1, GivesLess
  <1>9. Gives(T, Z, s1
                       \o gl90_u(cfg)
                       \o Changes(Wanted(cfg, "du_dt_visc"), bxU(cfg), "du_dt_visc", At({"u"}, Here))
                       \o Sets(Wanted(cfg, "taux_shelf"), bxU(cfg), "taux_shelf", At({"a1_shelf_u", "u"}, Here))
                       \o Sets(Wanted(cfg, "taux_bot"), bxU(cfg), "taux_bot", At({"u", "a_u"}, Here))
                       \o Changes(Wanted(cfg, "taux_bot") /\ Wanted(cfg, "Ray_u"), bxU(cfg), "taux_bot", At({"u", "Ray_u"}, Here))
                       \o Changes(DoStokesMixing(cfg), bxU(cfg), "u", At({"face_u", "Us_x"}, Here))
                       \o Changes(On(cfg, "fpmix"), bxU(cfg), "u", At({"face_u", "Us_x"}, Here)), W, Y)
    BY <1>1, <1>3, <1>4, <1>5, <1>8, Solving_uGives DEF A
  <1> QED BY Zenon, <1>9 DEF zonal_vertvisc, s1, Y

\* The step at meridional faces, from claims in which only what the velocity was before is calm.
LEMMA MeridionalVertviscGives ==
    ASSUME NEW T, NEW W, NEW H, NEW k, NEW cfg, NEW calm, VertTable(T, H, k, cfg, calm),
           calm \cap VertAt_v = {"v", "dv_dt_visc", "dv_dt_visc_gl90", "KE_v"},
           NEW E, E = (calm \ {"v", "dv_dt_visc"}) \cup {"c1V"}, VertTable(W, H, k, cfg, E),
           NEW Z, VertArgs(cfg) \cup {"v"} \subseteq Z, Z \subseteq VertArrays(cfg), Z \cap VertAt_v \subseteq {"v", "v_old"},
           FrictionTogether(cfg)
    PROVE  Gives(T, Z, meridional_vertvisc(cfg), W, Z \cup VertFound_v(cfg))
  <1> DEFINE A == VertArgs(cfg)
             box == bxV(cfg)
             C == calm \ {"v"}
             D == C \cup {"c1V"}
             U == VertClaims(cfg, H, k, C)
             V == VertClaims(cfg, H, k, D)
             X == Z \cup GivenOf(cfg, {"dv_dt_visc", "dv_dt_visc_gl90", "dv_dt_str"})
             Y == Z \cup VertFound_v(cfg)
             s1 == Changes(DoStokesMixing(cfg), bxV(cfg), "v", At({"face_v", "Us_y"}, Here))
                       \o Changes(On(cfg, "fpmix"), bxV(cfg), "v", At({"face_v", "Us_y"}, Here))
                       \o Sets(Wanted(cfg, "dv_dt_visc"), bxV(cfg), "dv_dt_visc", At({"v"}, Here))
                       \o Sets(Wanted(cfg, "dv_dt_visc_gl90"), bxV(cfg), "dv_dt_visc_gl90", At({"v"}, Here))
                       \o Sets(Wanted(cfg, "dv_dt_str"), bxV(cfg), "dv_dt_str", {})
                       \o wind_v(cfg)
                       \o vertvisc_tridiag(cfg, bxV(cfg), "v",
                                           At({"h_v", "a_v", "face_v"} \cup GivenOf(cfg, {"Ray_v"}), Here),
                                           "dv_dt_str", "surface_stress_v", "c1V")
  <1>1. VertTable(U, H, k, cfg, C) /\ VertTable(V, H, k, cfg, D)
    BY VertTableOf
  <1>2. "v" \in VertAt_v /\ {"c1V", "surface_stress_v"} \cap (A \cup {"v", "v_old"}) = {} /\ "c1V" \in VertAt_v
        /\ {"dv_dt_visc", "dv_dt_visc_gl90"} \subseteq VertAt_v \ {"v", "v_old"}
    BY DEF VertArgs, GivenOf, VertSources, VertAt_v
  <1>3. D \cap VertAt_v = {"c1V", "dv_dt_visc", "dv_dt_visc_gl90", "KE_v"} /\ E = D \ {"dv_dt_visc"}
    BY <1>2
  <1>4. X \subseteq VertArrays(cfg) /\ A \cup {"v"} \subseteq X /\ "c1V" \notin X
        /\ \A a \in {"dv_dt_visc", "dv_dt_visc_gl90"} : Wanted(cfg, a) <=> a \in X
    <2>1. GivenOf(cfg, {"dv_dt_visc", "dv_dt_visc_gl90", "dv_dt_str"}) \subseteq VertArrays(cfg)
      BY DEF GivenOf, VertArrays, VertAt_v
    <2>2. "c1V" \notin Z /\ "dv_dt_visc" \notin Z /\ "dv_dt_visc_gl90" \notin Z
      BY <1>2
    <2> QED BY <2>1, <2>2 DEF GivenOf, Wanted
  <1>5. Y = X \cup GivenOf(cfg, {"tauy_shelf", "tauy_bot"}) \cup When(On(cfg, "do_GLwork"), {"KE_v"})
    BY DEF VertFound_v, GivenOf
  <1> HIDE DEF U, V, D, Y
  <1>6. Gives(T, Z, s1, U, X \cup {"surface_stress_v", "c1V"})
    <2> HIDE DEF s1, C
    <2> QED BY <1>1, Started_vGive DEF s1, C
  <1>7. Follows(U, X, V, X)
    <2>1. \A a \in X : a \in C <=> a \in D
      BY <1>4 DEF D
    <2> HIDE DEF X, C
    <2> QED BY <1>1, <1>4, <2>1, VertAgree
  <1> HIDE DEF s1, X, A, C
  <1>8. Gives(T, Z, s1, V, X)
    <2>1. Follows(U, X \cup {"surface_stress_v", "c1V"}, V, X)
      BY <1>7 DEF Follows
    <2> QED BY <1>6, <2>1, GivesLess
  <1>9. Gives(T, Z, s1
                       \o gl90_v(cfg)
                       \o Changes(Wanted(cfg, "dv_dt_visc"), bxV(cfg), "dv_dt_visc", At({"v"}, Here))
                       \o Sets(Wanted(cfg, "tauy_shelf"), bxV(cfg), "tauy_shelf", At({"a1_shelf_v", "v"}, Here))
                       \o Sets(Wanted(cfg, "tauy_bot"), bxV(cfg), "tauy_bot", At({"v", "a_v"}, Here))
                       \o Changes(Wanted(cfg, "tauy_bot") /\ Wanted(cfg, "Ray_v"), bxV(cfg), "tauy_bot", At({"v", "Ray_v"}, Here))
                       \o Changes(DoStokesMixing(cfg), bxV(cfg), "v", At({"face_v", "Us_y"}, Here))
                       \o Changes(On(cfg, "fpmix"), bxV(cfg), "v", At({"face_v", "Us_y"}, Here)), W, Y)
    BY <1>1, <1>3, <1>4, <1>5, <1>8, Solving_vGives DEF A
  <1> QED BY Zenon, <1>9 DEF meridional_vertvisc, s1, Y

-----------------------------------------------------------------------------
\* What is calm before either direction, between them, and after both
CalmBefore ==
    {"u", "du_dt_visc", "du_dt_visc_gl90", "KE_u", "v", "dv_dt_visc", "dv_dt_visc_gl90", "KE_v"}
CalmBetween == (CalmBefore \ {"u", "du_dt_visc"}) \cup {"c1U"}
CalmAfter == (CalmBetween \ {"v", "dv_dt_visc"}) \cup {"c1V"}

\* The velocities after the implicit step are promised, and the tendencies, the stresses
\* and the work that go with them.
LEMMA VertviscPromise ==
    ASSUME NEW c, CallOK(c), WideEnough(c), Consistent(c), c.kernel = "vertvisc_tr"
    PROVE  Promise(c)
  <1> DEFINE cfg == c.cfg
             H == c.cfg.halo
             A == VertArgs(cfg)
             B == VertAt_u
             V == VertAt_v
             ru == On(cfg, "do_report_u")
             rv == On(cfg, "do_report_v")
             Z == A \cup {"u", "v"} \cup When(ru, {"u_old"}) \cup When(rv, {"v_old"})
             Z1 == Z \cup VertFound_u(cfg)
             Z2 == Z1 \cup VertFound_v(cfg)
             Y1 == Z2 \cup When(ru, {"dowrite_u", "vel_report_u"})
             Y == Y1 \cup When(rv, {"dowrite_v", "vel_report_v"})
  <1>1. Reach(c) = 1 /\ cfg.symmetric \in BOOLEAN /\ H \in Nat /\ 1 <= H /\ FrictionTogether(cfg)
    <2>1. Reach(c) = 1
      BY DEF Reach, ContinuityKernels
    <2>2. FrictionTogether(cfg)
      BY DEF Consistent
    <2> QED BY <2>1, <2>2 DEF CallOK, WideEnough
  <1>2. PICK k \in {0, 1} : bxU(cfg) = Box(k, 0, 0, 0) /\ bxV(cfg) = Box(0, 0, k, 0)
    BY <1>1, FaceBoxes
  <1>3. A \cap (B \cup V) = {} /\ B \cap V = {}
    BY DEF VertArgs, GivenOf, VertSources, VertAt_u, VertAt_v
  <1> DEFINE T == VertClaims(cfg, H, k, CalmBefore)
             S == VertClaims(cfg, H, k, CalmBetween)
             U == VertClaims(cfg, H, k, CalmAfter)
  <1>4. /\ VertTable(T, H, k, cfg, CalmBefore) /\ VertTable(S, H, k, cfg, CalmBetween)
        /\ VertTable(U, H, k, cfg, CalmAfter)
    <2> HIDE DEF A, H
    <2> QED BY <1>1, <1>2, <1>3 DEF VertTable, IsLocal, VertClaims, A
  <1>5. /\ "u" \in B /\ "v" \in V /\ "u_old" \in B /\ "v_old" \in V
        /\ CalmBefore \cap B = {"u", "du_dt_visc", "du_dt_visc_gl90", "KE_u"}
        /\ CalmBetween \cap V = {"v", "dv_dt_visc", "dv_dt_visc_gl90", "KE_v"}
        /\ VertFound_u(cfg) \subseteq B \ {"u", "u_old"} /\ VertFound_v(cfg) \subseteq V \ {"v", "v_old"}
    BY DEF CalmBefore, CalmBetween, VertAt_u, VertAt_v, VertFound_u, VertFound_v, GivenOf, When
  <1>6. /\ Z \subseteq A \cup {"u", "u_old", "v", "v_old"} /\ A \cup {"u", "v"} \subseteq Z
        /\ (ru => "u_old" \in Z) /\ (rv => "v_old" \in Z)
    BY DEF When
  <1> HIDE DEF A, B, V, T, S, U, Z
  <1>7. /\ A \cup {"u"} \subseteq Z /\ Z \subseteq VertArrays(cfg) /\ Z \cap B \subseteq {"u", "u_old"}
        /\ A \cup {"v"} \subseteq Z1 /\ Z1 \subseteq VertArrays(cfg) /\ Z1 \cap V \subseteq {"v", "v_old"}
    <2>1. VertArrays(cfg) = A \cup B \cup V
      BY DEF VertArrays, A, B, V
    <2> QED BY <1>3, <1>5, <1>6, <2>1
  <1> HIDE DEF Z1, cfg
  <1>8. Gives(T, Z, zonal_vertvisc(cfg), S, Z1)
    <2>1. CalmBefore \cap VertAt_u = {"u", "du_dt_visc", "du_dt_visc_gl90", "KE_u"} /\ Z \cap VertAt_u \subseteq {"u", "u_old"}
          /\ VertArgs(cfg) \cup {"u"} \subseteq Z
      BY <1>5, <1>7 DEF A, B
    <2> QED BY <1>1, <1>4, <1>7, <2>1, ZonalVertviscGives DEF CalmBetween, Z1
  <1>9. Gives(S, Z1, meridional_vertvisc(cfg), U, Z2)
    <2>1. CalmBetween \cap VertAt_v = {"v", "dv_dt_visc", "dv_dt_visc_gl90", "KE_v"} /\ Z1 \cap VertAt_v \subseteq {"v", "v_old"}
          /\ VertArgs(cfg) \cup {"v"} \subseteq Z1
      BY <1>5, <1>7 DEF A, V
    <2> QED BY <1>1, <1>4, <1>7, <2>1, MeridionalVertviscGives DEF CalmAfter
  <1>10. /\ Beside(U, H, A, B, AroundFaceU, bxU(cfg)) /\ Beside(U, H, A, V, AroundFaceV, bxV(cfg))
         /\ \A a \in {"u", "u_old", "vel_report_u", "dowrite_u"} : a \in B /\ U[a].of = VertAny
         /\ \A a \in {"v", "v_old", "vel_report_v", "dowrite_v"} : a \in V /\ U[a].of = VertAny
         /\ \A a \in {"cell", "face_u", "face_v", "h_u", "h_v"} : a \in A /\ U[a].of \subseteq VertAny
    <2>1. \A a \in {"u", "u_old", "vel_report_u", "dowrite_u"} : a \in B /\ a \notin CalmAfter \cup VertDriven
      BY DEF B, VertAt_u, CalmAfter, CalmBetween, CalmBefore, VertDriven
    <2>2. \A a \in {"v", "v_old", "vel_report_v", "dowrite_v"} : a \in V /\ a \notin CalmAfter \cup VertDriven
      BY DEF V, VertAt_v, CalmAfter, CalmBetween, CalmBefore, VertDriven
    <2>3. \A a \in {"cell", "face_u", "face_v", "h_u", "h_v"} : a \in A /\ {a} \subseteq VertAny
      BY DEF A, VertArgs, VertAny, VertSources
    <2>4. /\ Beside(U, H, A, B, AroundFaceU, bxU(cfg)) /\ Beside(U, H, A, V, AroundFaceV, bxV(cfg))
          /\ \A a \in A : U[a].of = {a}
          /\ \A a \in B : a \notin CalmAfter \cup VertDriven => U[a].of = VertAny
          /\ \A a \in V : a \notin CalmAfter \cup VertDriven => U[a].of = VertAny
      BY <1>4, VertHolds DEF A, B, V
    <2> QED BY <2>1, <2>2, <2>3, <2>4
  <1>11. Gives(U, Z2, limit_u(cfg), U, Y1)
    <2>1. A \subseteq Z2 /\ "u" \in Z2 /\ (ru => "u_old" \in Z2)
      BY <1>6 DEF Z1
    <2> HIDE DEF Z2
    <2>2. Limits(U, Z2, A, B, VertAny, "u", "u_old", "vel_report_u", "dowrite_u", "face_u", "h_u", ru)
      BY <1>10, <2>1 DEF Limits
    <2> QED BY <1>10, <2>2, LimitUGives
  <1>12. Gives(U, Y1, limit_v(cfg), U, Y)
    <2>1. A \subseteq Y1 /\ "v" \in Y1 /\ (rv => "v_old" \in Y1)
      BY <1>6 DEF Z1
    <2> HIDE DEF Y1
    <2>2. Limits(U, Y1, A, V, VertAny, "v", "v_old", "vel_report_v", "dowrite_v", "face_v", "h_v", rv)
      BY <1>10, <2>1 DEF Limits
    <2> QED BY <1>10, <2>2, LimitVGives
  <1>13. Gives(T, Z, <<Scratch(bxU(cfg), {"surface_stress_u", "c1U"}), Scratch(bxV(cfg), {"surface_stress_v", "c1V"})>>, T, Z)
    <2>1. {"surface_stress_u", "c1U", "surface_stress_v", "c1V"} \cap Z = {}
      <3>1. {"surface_stress_u", "c1U", "surface_stress_v", "c1V"} \cap (A \cup {"u", "u_old", "v", "v_old"}) = {}
        BY DEF A, VertArgs, GivenOf, VertSources
      <3> QED BY <1>6, <3>1
    <2>2. Gives(T, Z, <<Scratch(bxU(cfg), {"surface_stress_u", "c1U"})>>, T, Z)
      BY <2>1, ScratchGives
    <2>3. Gives(T, Z, <<Scratch(bxV(cfg), {"surface_stress_v", "c1V"})>>, T, Z)
      BY <2>1, ScratchGives
    <2> QED BY <2>2, <2>3, TwoStepsGive
  <1> HIDE DEF Z2, Y1, Y
  <1>14. Gives(T, Z, KernelOf(c), U, Y)
    <2> DEFINE s1 == <<Scratch(bxU(cfg), {"surface_stress_u", "c1U"}), Scratch(bxV(cfg), {"surface_stress_v", "c1V"})>>
               s2 == zonal_vertvisc(cfg)
               s3 == meridional_vertvisc(cfg)
               s4 == vertvisc_limit_vel(cfg)
    <2>1. KernelOf(c) = s1 \o s2 \o s3 \o s4
      BY DEF KernelOf, vertvisc_tr, cfg
    <2>2. Gives(T, Z, s1, T, Z)
      BY <1>13
    <2>3. Gives(U, Z2, s4, U, Y)
      BY <1>11, <1>12, ThenGives DEF vertvisc_limit_vel
    <2> HIDE DEF s1, s2, s3, s4
    <2>4. Gives(T, Z, s1 \o s2 \o s3, U, Z2)
      BY <1>8, <1>9, <2>2, ThenGives DEF s2, s3
    <2> QED BY <2>1, <2>3, <2>4, ThenGives
  <1>15. /\ Results(c) = Reports(c) \cup GivenOf(cfg, TendencyOutputs \cup StressOutputs) \cup When(On(cfg, "do_GLwork"), WorkOutputs)
         /\ Outputs(c) = Results(c) \cup {"u", "v"} \cup When(ru, {"u_old"}) \cup When(rv, {"v_old"})
         /\ Reports(c) = When(ru, {"vel_report_u", "dowrite_u"}) \cup When(rv, {"vel_report_v", "dowrite_v"})
    BY DEF Results, Updated, Outputs, Reports, cfg
  <1>16. Results(c) \subseteq (B \cup V) \ {"u", "v", "u_old", "v_old"}
    BY <1>15 DEF GivenOf, TendencyOutputs, StressOutputs, WorkOutputs, When, B, V, VertAt_u, VertAt_v
  <1>17. Outputs(c) \subseteq Y
    <2>1. Reports(c) \subseteq Y
      BY <1>15 DEF Y, Y1, When
    <2>2. {"u", "v"} \cup When(ru, {"u_old"}) \cup When(rv, {"v_old"}) \subseteq Y
      BY DEF Y, Y1, Z2, Z1, Z
    <2>3. VertFound_u(cfg) \cup VertFound_v(cfg) \subseteq Y
      BY DEF Y, Y1, Z2, Z1
    <2>4. GivenOf(cfg, TendencyOutputs \cup StressOutputs) \cup When(On(cfg, "do_GLwork"), WorkOutputs)
             \subseteq VertFound_u(cfg) \cup VertFound_v(cfg)
      BY DEF GivenOf, TendencyOutputs, StressOutputs, WorkOutputs, When, VertFound_u, VertFound_v
    <2> QED BY <1>15, <2>1, <2>2, <2>3, <2>4
  <1> DEFINE F == VertFrom(cfg, CalmBefore)
             G == VertFrom(cfg, CalmAfter)
  <1>18. IsLocal(T, H, A, B, V, k, F) /\ IsLocal(U, H, A, B, V, k, G)
    BY <1>4 DEF VertTable, A, B, V
  <1>19. Begins(c, T, Z)
    <2>1. Z \subseteq A \cup B \cup V
      BY <1>5, <1>6
    <2>2. \A a \in Z : a \in F[a]
      <3>1. \A a \in A : F[a] = {a}
        BY DEF VertFrom, A
      <3>2. /\ "u" \in CalmBefore /\ "v" \in CalmBefore /\ {"u_old", "v_old"} \cap (CalmBefore \cup VertDriven) = {}
            /\ "u" \in Calm_u /\ "v" \in Calm_v /\ {"u_old", "v_old"} \subseteq VertAny
        BY DEF CalmBefore, VertDriven, Calm_u, Calm_v, VertAny
      <3>3. F["u"] = Calm_u /\ F["v"] = Calm_v /\ F["u_old"] = VertAny /\ F["v_old"] = VertAny
        BY <1>3, <1>5, <3>2 DEF VertFrom, A, B, V
      <3> HIDE DEF F
      <3> QED BY <1>6, <3>1, <3>2, <3>3
    <2>3. Z \subseteq Passed(c)
      <3>1. Passed(c) = vertvisc_tr_passed(cfg)
        BY DEF Passed, cfg
      <3>2. A \subseteq Passed(c)
        BY <3>1 DEF vertvisc_tr_passed, A, VertArgs, GivenOf
      <3>3. {"u", "v"} \cup When(ru, {"u_old"}) \cup When(rv, {"v_old"}) \subseteq Passed(c)
        BY <1>1, <3>1 DEF vertvisc_tr_passed, FrictionTogether, ReportsTogether, When
      <3> QED BY <3>2, <3>3 DEF Z
    <2> HIDE DEF F
    <2>4. Handed(c, A \cup B \cup V, F, Z)
      BY <2>1, <2>2, <2>3 DEF Handed
    <2>5. H = c.cfg.halo
      BY DEF H
    <2> HIDE DEF H
    <2> QED BY <1>18, <2>4, <2>5, LocalBegins
  <1>20. AtFaces(c, B, V, k)
    <2>1. c.kernel \notin ContinuityKernels \cup {"hor_visc_gme_bt", "smooth_gme_q_pass"}
      BY DEF ContinuityKernels
    <2>2. B \subseteq (ZonalFields \cup {"surface_stress_u", "c1U"}) \ AtCorners
          /\ V \subseteq (MeridionalFields \cup {"surface_stress_v", "c1V"}) \ AtCorners
      BY DEF ZonalFields, MeridionalFields, AtCorners, QDiagnostics, LimitsAtQ, B, V, VertAt_u, VertAt_v
    <2>3. Outputs(c) \subseteq B \cup V
      BY <1>5, <1>15, <1>16 DEF When
    <2>4. Outputs(c) \cap {"surface_stress_u", "c1U", "surface_stress_v", "c1V"} = {}
      BY <1>15 DEF GivenOf, TendencyOutputs, StressOutputs, WorkOutputs, When
    <2>5. bxU(c.cfg) = Box(k, 0, 0, 0) /\ bxV(c.cfg) = Box(0, 0, k, 0)
      BY <1>2 DEF cfg
    <2> QED BY <2>1, <2>2, <2>3, <2>4, <2>5, FacesRequired DEF AtFaces
  <1>21. Fresh(c, G, Y)
    <2>1. /\ \A a \in B : G[a] = IF a \in CalmAfter THEN Calm_u ELSE IF a \in VertDriven THEN Driven_u ELSE VertAny
          /\ \A a \in V : G[a] = IF a \in CalmAfter THEN Calm_v ELSE IF a \in VertDriven THEN Driven_v ELSE VertAny
      BY <1>3 DEF VertFrom, A, B, V
    <2>2. Calm_u \cup Calm_v \cup Driven_u \cup Driven_v \subseteq VertAny
      BY DEF Calm_u, Calm_v, Driven_u, Driven_v, VertAny, VertSources
    <2>3. VertAny \cap Results(c) = {}
      <3>1. VertAny \cap ((B \cup V) \ {"u", "v", "u_old", "v_old"}) = {}
        BY DEF VertAny, VertSources, B, V, VertAt_u, VertAt_v
      <3> QED BY <1>16, <3>1
    <2>4. Outputs(c) \subseteq B \cup V
      BY <1>5, <1>15, <1>16 DEF When
    <2>5. /\ \A a \in {"du_dt_visc_gl90", "KE_u"} : a \in B /\ a \in CalmAfter
          /\ \A a \in {"dv_dt_visc_gl90", "KE_v"} : a \in V /\ a \in CalmAfter
          /\ "du_dt_str" \in B /\ "du_dt_str" \in VertDriven \ CalmAfter
          /\ "dv_dt_str" \in V /\ "dv_dt_str" \in VertDriven \ CalmAfter
      BY DEF B, V, VertAt_u, VertAt_v, CalmAfter, CalmBetween, CalmBefore, VertDriven
    <2>6. /\ \A a \in {"du_dt_visc_gl90", "KE_u"} : G[a] = Calm_u
          /\ \A a \in {"dv_dt_visc_gl90", "KE_v"} : G[a] = Calm_v
          /\ G["du_dt_str"] = Driven_u /\ G["dv_dt_str"] = Driven_v
      BY <2>1, <2>5
    <2>7. KeptApart(c) = ({"du_dt_visc_gl90", "KE_u"} \X {"taux", "a_u", "Ray_u"}) \cup {<<"du_dt_str", "u">>}
                         \cup ({"dv_dt_visc_gl90", "KE_v"} \X {"tauy", "a_v", "Ray_v"}) \cup {<<"dv_dt_str", "v">>}
      BY DEF KeptApart
    <2>8. \A p \in KeptApart(c) :
             \/ p[1] \in {"du_dt_visc_gl90", "KE_u"} /\ p[2] \in {"taux", "a_u", "Ray_u"}
             \/ p[1] \in {"dv_dt_visc_gl90", "KE_v"} /\ p[2] \in {"tauy", "a_v", "Ray_v"}
             \/ p[1] = "du_dt_str" /\ p[2] = "u"
             \/ p[1] = "dv_dt_str" /\ p[2] = "v"
      BY <2>7
    <2>9. /\ {"taux", "a_u", "Ray_u"} \cap Calm_u = {} /\ {"tauy", "a_v", "Ray_v"} \cap Calm_v = {}
          /\ "u" \notin Driven_u /\ "v" \notin Driven_v
      BY DEF Calm_u, Calm_v, Driven_u, Driven_v
    <2> HIDE DEF G
    <2>10. \A a \in Outputs(c) : G[a] \cap Results(c) = {}
      BY <2>1, <2>2, <2>3, <2>4
    <2>11. \A p \in KeptApart(c) : p[2] \notin G[p[1]]
      BY <2>6, <2>8, <2>9
    <2> QED BY <1>17, <2>10, <2>11 DEF Fresh
  <1>22. Ends(c, U, Y)
    <2> HIDE DEF G, H
    <2> QED BY <1>1, <1>18, <1>20, <1>21, LocalEnds
  <1> QED BY <1>14, <1>19, <1>22 DEF Promise

-----------------------------------------------------------------------------
\* Kernels that read at many distances.  How far a body reaches is a spread: a number of
\* cells on each side.

\* Margins and a spread together
Plus(b, s) == [w |-> b.w + s.w, e |-> b.e + s.e, s |-> b.s + s.s, n |-> b.n + s.n]

\* The offsets of a spread
Around(s) == {o \in Offsets : 0 - s.w <= o[1] /\ o[1] <= s.e /\ 0 - s.s <= o[2] /\ o[2] <= s.n}
Spans(O, s) == s \in Margins /\ O \subseteq Around(s)

\* Of an array with the claim t all that is read within a spread around a box is set, and
\* comes from no further away than f
Near(t, box, s, f) == Within(Plus(box, s), t.box) /\ Within(Plus(t.from, s), f)

\* The same of each of some arrays
Good(T, Z, box, X, s, f) ==
    /\ Table(T) /\ box \in Margins /\ f \in Margins
    /\ \A a \in X : a \in Z /\ a \in DOMAIN T /\ Near(T[a], box, s, f)

\* Reads of a body run over a box that find what is set, from no further away than f
ReadsFit(T, Z, box, R, f) ==
    \A r \in R : /\ r[1] \in Z /\ r[2] \in Offsets /\ Within(ReadAt(box, r[2]), T[r[1]].box)
                 /\ Within(ReadAt(T[r[1]].from, r[2]), f)

\* What is claimed of the arrays that it sets
Into(T, box, A, f) == \A a \in A : a \in DOMAIN T /\ T[a].from = f /\ Within(T[a].box, box)

\* Claims of arrays that may all come from the same
Even(T, P) == Table(T) /\ \A a \in DOMAIN T : T[a].of = P

\* Reads within a spread fit.
LEMMA FitsAt ==
    \A T, Z, box, X, s, f, O : Good(T, Z, box, X, s, f) /\ Spans(O, s) => ReadsFit(T, Z, box, At(X, O), f)
  <1> SUFFICES ASSUME NEW T, NEW Z, NEW box, NEW X, NEW s, NEW f, NEW O, Good(T, Z, box, X, s, f), Spans(O, s),
                      NEW r \in At(X, O)
               PROVE  /\ r[1] \in Z /\ r[2] \in Offsets /\ Within(ReadAt(box, r[2]), T[r[1]].box)
                      /\ Within(ReadAt(T[r[1]].from, r[2]), f)
    BY DEF ReadsFit
  <1> DEFINE a == r[1]
             o == r[2]
             b == T[a].box
             g == T[a].from
  <1>1. a \in X /\ o \in O
    BY DEF At
  <1>2. /\ a \in Z /\ a \in DOMAIN T /\ box \in Margins /\ f \in Margins /\ s \in Margins
        /\ Within(Plus(box, s), b) /\ Within(Plus(g, s), f)
    BY <1>1 DEF Good, Near, Spans
  <1>3. b \in Margins /\ g \in Margins
    BY <1>2 DEF Good, Table
  <1>4. o \in Offsets /\ 0 - s.w <= o[1] /\ o[1] <= s.e /\ 0 - s.s <= o[2] /\ o[2] <= s.n
    BY <1>1 DEF Spans, Around
  <1> HIDE DEF a, o, b, g
  <1>5. ASSUME NEW x \in Margins, NEW y \in Margins, Within(Plus(x, s), y) PROVE Within(ReadAt(x, o), y)
    <2>1. /\ x.w \in Int /\ x.e \in Int /\ x.s \in Int /\ x.n \in Int /\ y.w \in Int /\ y.e \in Int /\ y.s \in Int /\ y.n \in Int
          /\ s.w \in Int /\ s.e \in Int /\ s.s \in Int /\ s.n \in Int /\ o[1] \in Int /\ o[2] \in Int
      BY <1>2, <1>4, <1>5 DEF Margins, Offsets
    <2>2. x.w + s.w <= y.w /\ x.e + s.e <= y.e /\ x.s + s.s <= y.s /\ x.n + s.n <= y.n
      BY <1>5 DEF Within, Plus
    <2>3. x.w - o[1] <= y.w /\ x.e + o[1] <= y.e /\ x.s - o[2] <= y.s /\ x.n + o[2] <= y.n
      BY <1>4, <2>1, <2>2
    <2> QED BY <2>3 DEF Within, ReadAt
  <1> QED BY <1>2, <1>3, <1>4, <1>5 DEF a, o, b, g

\* Reads together, and under a condition.
LEMMA FitsBoth ==
    /\ \A T, Z, box, R, S, f : ReadsFit(T, Z, box, R, f) /\ ReadsFit(T, Z, box, S, f) => ReadsFit(T, Z, box, R \cup S, f)
    /\ \A T, Z, box, f : ReadsFit(T, Z, box, {}, f)
  BY DEF ReadsFit

\* Such reads are a computation of what is claimed.
LEMMA FitsComputes ==
    ASSUME NEW T, NEW P, Even(T, P), NEW Z, Z \subseteq DOMAIN T, NEW box, NEW R, NEW f, ReadsFit(T, Z, box, R, f),
           NEW A, Into(T, box, A, f)
    PROVE  Computes(T, Z, box, A, R)
  <1>1. Covered(T, Z, box, R)
    BY DEF Covered, ReadsFit
  <1>2. ASSUME NEW a \in A PROVE a \in DOMAIN T /\ Carried(T, R, T[a]) /\ Within(T[a].box, box)
    <2>1. a \in DOMAIN T /\ T[a].from = f /\ T[a].of = P /\ Within(T[a].box, box)
      BY DEF Into, Even
    <2>2. \A r \in R : r[1] \in DOMAIN T /\ T[r[1]].of = P /\ Within(ReadAt(T[r[1]].from, r[2]), f)
      BY DEF ReadsFit, Even
    <2> QED BY <2>1, <2>2 DEF Carried
  <1> QED BY <1>1, <1>2 DEF Computes

\* One that sets them
LEMMA FitsLoop ==
    ASSUME NEW T, NEW P, Even(T, P), NEW Z, Z \subseteq DOMAIN T, NEW box, box \in Margins, NEW R, NEW f, ReadsFit(T, Z, box, R, f),
           NEW A, Into(T, box, A, f)
    PROVE  Gives(T, Z, <<Loop(box, {Set(A, R)})>>, T, Z \cup A)
  <1>1. Computes(T, Z, box, A, R) /\ Table(T)
    BY FitsComputes DEF Even
  <1> QED BY <1>1, OneSetGives

-----------------------------------------------------------------------------
\* Smoothing

\* A claim of one array may change in the loop that sets it, and may get weaker.
LEMMA NewFits ==
    ASSUME NEW T, NEW P, Even(T, P), NEW Z, Z \subseteq DOMAIN T, NEW box, box \in Margins, NEW a \in DOMAIN T, NEW t,
           t.box \in Margins, t.from \in Margins, t.of = P, NEW R, ReadsFit(T, Z, box, R, t.from),
           Within(t.box, box) \/ (a \in Z /\ Weaker(T[a], t)),
           NEW U, U = [T EXCEPT ![a] = t]
    PROVE  Even(U, P) /\ Gives(T, Z, <<Loop(box, {Set({a}, R)})>>, U, Z \cup {a})
  <1> DEFINE step == Loop(box, {Set({a}, R)})
  <1>1. /\ step.op = "loop" /\ step.box = box
        /\ \A x \in step.sets : x.writes = {a} /\ x.reads = R
        /\ Writes(step) = {a}
    BY DEF Loop, Set, Writes
  <1>2. DOMAIN U = DOMAIN T /\ U[a] = t /\ \A b \in DOMAIN T : b # a => U[b] = T[b]
    OBVIOUS
  <1>3. Even(U, P)
    BY <1>2 DEF Even, Table
  <1> HIDE DEF step
  <1>4. Covered(T, Z, box, R) /\ Carried(T, R, t)
    <2>1. \A r \in R : r[1] \in DOMAIN T /\ T[r[1]].of = P
      BY DEF ReadsFit, Even
    <2> QED BY <2>1 DEF ReadsFit, Covered, Carried
  <1>5. StepGives(T, Z, step, U, Z \cup {a})
    BY <1>1, <1>2, <1>4 DEF StepGives
  <1> QED BY <1>3, <1>5, OneStepGives DEF step

\* Values of an array from at most i cells away
Filtered(alloc, i, P) == Claim(alloc, Box(i, i, i, i), P)

\* Claims before a pass: of the field, of its mask, and of the scratch array for the
\* values before the pass
Unfiltered(T, P, Z, field, mask, prev, alloc, i) ==
    /\ Even(T, P) /\ Z \subseteq DOMAIN T
    /\ {field, mask} \subseteq Z /\ prev \in DOMAIN T
    /\ field # mask /\ field # prev /\ mask # prev
    /\ T[field] = Filtered(alloc, i, P) /\ T[mask] = Filtered(alloc, 0, P)

\* What a pass leads to: the field is saved, and then set from what was saved beside it
FilterPass(field, mask, prev, alloc, box, O, Q) ==
    <<Loop(alloc, {Set({prev}, At({field}, Here))}),
      Loop(box, {Set({field}, At({prev}, O) \cup At({mask}, Q) \cup At({field}, Here))})>>
Passes(T, P, Z, field, mask, prev, alloc, i, box, O, Q) ==
    \E U : /\ DOMAIN U = DOMAIN T /\ \A a \in DOMAIN T \ {field, prev} : U[a] = T[a]
           /\ Unfiltered(U, P, Z \cup {prev}, field, mask, prev, alloc, i + 1)
           /\ Gives(T, Z, FilterPass(field, mask, prev, alloc, box, O, Q), U, Z \cup {prev})

\* A pass of a filter.
LEMMA PassGives ==
    ASSUME NEW T, NEW P, NEW Z, NEW field, NEW mask, NEW prev, NEW alloc, NEW i \in Nat,
           Unfiltered(T, P, Z, field, mask, prev, alloc, i),
           NEW box, box \in Margins, alloc \in Margins, Within(Plus(box, Box(1, 1, 1, 1)), alloc),
           NEW O, NEW Q, Spans(O, Box(1, 1, 1, 1)), Spans(Q, Box(1, 1, 1, 1))
    PROVE  Passes(T, P, Z, field, mask, prev, alloc, i, box, O, Q)
  <1> DEFINE b == Box(i, i, i, i)
             b1 == Box(i + 1, i + 1, i + 1, i + 1)
             b0 == Box(0, 0, 0, 0)
             s1 == Box(1, 1, 1, 1)
             t == Filtered(alloc, i, P)
             t1 == Filtered(alloc, i + 1, P)
             S == [T EXCEPT ![prev] = t]
             U == [S EXCEPT ![field] = t1]
             Y == Z \cup {prev}
             R == At({field}, Here)
             R1 == At({prev}, O) \cup At({mask}, Q) \cup At({field}, Here)
  <1>0. /\ Even(T, P) /\ Z \subseteq DOMAIN T
        /\ field \in Z /\ mask \in Z /\ prev \in DOMAIN T
        /\ field # mask /\ field # prev /\ mask # prev
        /\ T[field] = t /\ T[mask] = Filtered(alloc, 0, P)
    BY DEF Unfiltered
  <1>1. /\ t.box = alloc /\ t.from = b /\ t.of = P /\ t1.box = alloc /\ t1.from = b1 /\ t1.of = P
        /\ Filtered(alloc, 0, P).box = alloc /\ Filtered(alloc, 0, P).from = b0
    BY DEF Filtered, Claim
  <1>2. b \in Margins /\ b1 \in Margins /\ b0 \in Margins /\ s1 \in Margins
    BY BoxIs
  <1>3. /\ Within(alloc, alloc) /\ Within(Plus(alloc, b0), alloc) /\ Within(Plus(b, b0), b) /\ Within(Plus(b, s1), b1)
        /\ Within(Plus(b0, s1), b1) /\ Within(Plus(b, b0), b1) /\ Within(Plus(box, b0), alloc) /\ Within(b, b1)
    BY DEF Within, Plus, Box, Margins
  <1>4. Spans(Here, b0)
    BY <1>2 DEF Spans, Here, Around, Offsets, Box
  <1> HIDE DEF b, b1, b0, s1, t, t1
  <1>5. ReadsFit(T, Z, alloc, R, b)
    <2>1. Good(T, Z, alloc, {field}, b0, b)
      BY <1>0, <1>1, <1>2, <1>3 DEF Good, Near, Even
    <2> QED BY <2>1, <1>4, FitsAt
  <1> HIDE DEF R, R1
  <1>6. Even(S, P) /\ Gives(T, Z, <<Loop(alloc, {Set({prev}, R)})>>, S, Y)
    <2> HIDE DEF S
    <2> QED BY <1>0, <1>1, <1>2, <1>3, <1>5, NewFits DEF S
  <1>7. DOMAIN S = DOMAIN T /\ S[prev] = t /\ S[field] = t /\ S[mask] = Filtered(alloc, 0, P)
        /\ \A a \in DOMAIN T : a # prev => S[a] = T[a]
    BY <1>0
  <1> HIDE DEF S
  <1>8. ReadsFit(S, Y, box, R1, b1)
    <2>1. /\ Good(S, Y, box, {prev}, s1, b1) /\ Good(S, Y, box, {mask}, s1, b1) /\ Good(S, Y, box, {field}, b0, b1)
      BY <1>0, <1>1, <1>2, <1>3, <1>6, <1>7 DEF Good, Near, Even, s1
    <2>2. ReadsFit(S, Y, box, At({prev}, O), b1) /\ ReadsFit(S, Y, box, At({mask}, Q), b1) /\ ReadsFit(S, Y, box, At({field}, Here), b1)
      BY <2>1, <1>4, FitsAt DEF s1
    <2> QED BY <2>2, FitsBoth DEF R1
  <1>9. Even(U, P) /\ Gives(S, Y, <<Loop(box, {Set({field}, R1)})>>, U, Y \cup {field})
    <2>1. Weaker(t, t1) /\ t1.box \in Margins /\ t1.from \in Margins
      BY <1>1, <1>2, <1>3 DEF Weaker
    <2>2. Y \subseteq DOMAIN S /\ field \in DOMAIN S /\ field \in Y
      BY <1>0, <1>7
    <2> HIDE DEF U, Y
    <2> QED BY <1>1, <1>6, <1>7, <1>8, <2>1, <2>2, NewFits DEF U
  <1>10. /\ DOMAIN U = DOMAIN T /\ U[field] = t1 /\ U[mask] = Filtered(alloc, 0, P)
         /\ \A a \in DOMAIN T \ {field, prev} : U[a] = T[a]
    BY <1>0, <1>7
  <1>11. Y \cup {field} = Y /\ {field, mask} \subseteq Y /\ Y \subseteq DOMAIN U
    BY <1>0, <1>10
  <1> HIDE DEF U, Y
  <1>12. Gives(T, Z, <<Loop(alloc, {Set({prev}, R)}), Loop(box, {Set({field}, R1)})>>, U, Y)
    BY <1>6, <1>9, <1>11, TwoStepsGive
  <1>13. Unfiltered(U, P, Y, field, mask, prev, alloc, i + 1)
    BY <1>0, <1>9, <1>10, <1>11 DEF Unfiltered, t1
  <1>14. Gives(T, Z, FilterPass(field, mask, prev, alloc, box, O, Q), U, Z \cup {prev})
    BY <1>12 DEF FilterPass, Y, R, R1
  <1>15. Unfiltered(U, P, Z \cup {prev}, field, mask, prev, alloc, i + 1)
    BY <1>13 DEF Y
  <1> QED BY <1>10, <1>14, <1>15 DEF Passes

-----------------------------------------------------------------------------
\* Where the caller's arrays are, in numbers.
LEMMA AllocatedBoxes ==
    ASSUME NEW cfg, cfg.halo \in Nat, cfg.symmetric \in BOOLEAN
    PROVE  \E k \in {0, 1} :
              /\ bxU(cfg) = Box(k, 0, 0, 0) /\ bxV(cfg) = Box(0, 0, k, 0) /\ bxQ(cfg) = Box(k, 0, k, 0)
              /\ DataBox(cfg) = Box(cfg.halo, cfg.halo, cfg.halo, cfg.halo)
              /\ UBox(cfg) = Box(cfg.halo + k, cfg.halo, cfg.halo, cfg.halo)
              /\ VBox(cfg) = Box(cfg.halo, cfg.halo, cfg.halo + k, cfg.halo)
              /\ CornerBox(cfg) = Box(cfg.halo + k, cfg.halo, cfg.halo + k, cfg.halo)
  <1> DEFINE H == cfg.halo
  <1>1. DataBox(cfg) = Box(H, H, H, H)
    BY DataBoxIs
  <1>2. H \in Int /\ H + 0 = H
    OBVIOUS
  <1>3. GrowLoX(Box(H, H, H, H)) = Box(H + 1, H, H, H) /\ GrowLoY(Box(H, H, H, H)) = Box(H, H, H + 1, H)
        /\ GrowLoX(Box(H, H, H + 1, H)) = Box(H + 1, H, H + 1, H)
    <2>1. GrowLoX(Box(H, H, H, H)) = Box(H + 1, H, H, H)
      BY GrowLoXBox
    <2>2. GrowLoY(Box(H, H, H, H)) = Box(H, H, H + 1, H)
      BY GrowLoYBox
    <2>3. GrowLoX(Box(H, H, H + 1, H)) = Box(H + 1, H, H + 1, H)
      BY GrowLoXBox
    <2> QED BY <2>1, <2>2, <2>3
  <1>4. bx0 = Box(0, 0, 0, 0)
    BY DEF bx0, Box
  <1>5. GrowLoX(Box(0, 0, 0, 0)) = Box(1, 0, 0, 0) /\ GrowLoY(Box(0, 0, 0, 0)) = Box(0, 0, 1, 0)
        /\ GrowLoX(Box(0, 0, 1, 0)) = Box(1, 0, 1, 0)
    BY GrowLoXBox, GrowLoYBox
  <1> HIDE DEF H
  <1>6. CASE cfg.symmetric = TRUE
    BY <1>1, <1>3, <1>4, <1>5, <1>6 DEF bxU, bxV, bxQ, UBox, VBox, CornerBox, H
  <1>7. CASE cfg.symmetric = FALSE
    BY <1>1, <1>2, <1>4, <1>7 DEF bxU, bxV, bxQ, UBox, VBox, CornerBox, H
  <1> QED BY <1>6, <1>7

\* Both passes of the nine-point filter.
LEMMA FilterGives ==
    ASSUME NEW T, NEW P, NEW Z, NEW field, NEW mask, NEW x \in {0, 1}, NEW y \in {0, 1}, NEW H \in Nat, 2 <= H,
           NEW box, box = Box(x, 0, y, 0), NEW alloc, alloc = Box(H + x, H, H + y, H),
           Unfiltered(T, P, Z, field, mask, "f_prev", alloc, 0), "f_prev" \notin Z
    PROVE  \E U : /\ DOMAIN U = DOMAIN T /\ \A a \in DOMAIN T \ {field, "f_prev"} : U[a] = T[a]
                  /\ Even(U, P) /\ U[field] = Filtered(alloc, 2, P)
                  /\ Gives(T, Z, smooth_x9(box, alloc, field, mask), U, Z)
  <1> DEFINE prev == "f_prev"
             Y == Z \cup {prev}
             one == Box(1, 1, 1, 1)
             wide == Box(x + 1, 1, y + 1, 1)
             Q == {-1, 0, 1} \X {-1, 0, 1}
  <1>1. grow_by(box, 1, 1, 1, 1) = wide
    BY DEF grow_by, Box
  <1>2. box \in Margins /\ wide \in Margins /\ alloc \in Margins /\ one \in Margins
    BY BoxIs
  <1>3. Within(Plus(box, one), alloc) /\ Within(Plus(wide, one), alloc)
    BY DEF Within, Plus, Box
  <1>4. Spans(smooth_x9_points, one) /\ Spans(Q, one)
    BY <1>2 DEF Spans, Around, Offsets, smooth_x9_points, Box
  <1> HIDE DEF one, wide, Q
  <1>5. 0 \in Nat /\ 1 \in Nat /\ 0 + 1 = 1 /\ 1 + 1 = 2
    OBVIOUS
  <1>a. \A b : smooth_x9_pass(b, alloc, field, mask) = FilterPass(field, mask, prev, alloc, b, smooth_x9_points, Q)
    BY Zenon DEF smooth_x9_pass, FilterPass, Q
  <1>b. Passes(T, P, Z, field, mask, prev, alloc, 0, wide, smooth_x9_points, Q)
    BY <1>2, <1>3, <1>4, <1>5, PassGives DEF one
  <1>6. PICK S : /\ DOMAIN S = DOMAIN T /\ \A a \in DOMAIN T \ {field, prev} : S[a] = T[a]
                 /\ Unfiltered(S, P, Y, field, mask, prev, alloc, 1)
                 /\ Gives(T, Z, smooth_x9_pass(wide, alloc, field, mask), S, Y)
    BY <1>a, <1>b, <1>5 DEF Passes
  <1>c. Passes(S, P, Y, field, mask, prev, alloc, 1, box, smooth_x9_points, Q)
    BY <1>2, <1>3, <1>4, <1>5, <1>6, PassGives DEF one
  <1>7. PICK U : /\ DOMAIN U = DOMAIN S /\ \A a \in DOMAIN S \ {field, prev} : U[a] = S[a]
                 /\ Unfiltered(U, P, Y \cup {prev}, field, mask, prev, alloc, 2)
                 /\ Gives(S, Y, smooth_x9_pass(box, alloc, field, mask), U, Y \cup {prev})
    BY <1>a, <1>c, <1>5 DEF Passes
  <1>8. Gives(T, Z, <<Scratch(alloc, {prev})>>, T, Z)
    BY ScratchGives
  <1>9. Follows(U, Y \cup {prev}, U, Z)
    BY DEF Follows
  <1>10. Gives(T, Z, smooth_x9(box, alloc, field, mask), U, Z)
    <2> DEFINE s1 == <<Scratch(alloc, {prev})>>
               s2 == smooth_x9_pass(wide, alloc, field, mask)
               s3 == smooth_x9_pass(box, alloc, field, mask)
    <2>1. smooth_x9(box, alloc, field, mask) = s1 \o s2 \o s3
      BY <1>1 DEF smooth_x9
    <2>2. Gives(T, Z, s1, T, Z) /\ Gives(T, Z, s2, S, Y) /\ Gives(S, Y, s3, U, Y \cup {prev})
      BY <1>6, <1>7, <1>8
    <2> HIDE DEF s1, s2, s3, Y, prev
    <2>3. Gives(T, Z, s1 \o s2, S, Y)
      BY <2>2, ThenGives
    <2>4. Gives(T, Z, s1 \o s2 \o s3, U, Y \cup {prev})
      BY <2>2, <2>3, ThenGives
    <2> QED BY <2>1, <2>4, <1>9, GivesLess
  <1> QED BY <1>6, <1>7, <1>10 DEF Unfiltered

-----------------------------------------------------------------------------
\* Which of the caller's arrays are where.
LEMMA AllocatedWhere ==
    ASSUME NEW cfg
    PROVE  /\ \A a \in AtCorners : Allocated(a, cfg) = CornerBox(cfg)
           /\ \A a \in ZonalFields \ (AtCells \cup AtCorners) : Allocated(a, cfg) = UBox(cfg)
           /\ \A a \in MeridionalFields \ (AtCells \cup AtCorners) : Allocated(a, cfg) = VBox(cfg)
           /\ \A a : a \notin (ZonalFields \cup MeridionalFields \cup AtCorners) \/ a \in AtCells \ AtCorners
                        => Allocated(a, cfg) = DataBox(cfg)
  <1>1. \A a : Allocated(a, cfg) = CASE a \in AtCorners -> CornerBox(cfg)
                                     [] a \in OfU \ (AtCells \cup AtCorners) -> UBox(cfg)
                                     [] a \in OfV \ (AtCells \cup AtCorners) -> VBox(cfg)
                                     [] OTHER -> DataBox(cfg)
    BY Zenon DEF Allocated
  <1>2. \A a : ~(a \in OfU /\ a \in OfV)
    BY FieldsListed DEF ZonalFields, MeridionalFields
  <1>3. /\ \A a \in AtCorners : Allocated(a, cfg) = CornerBox(cfg)
        /\ \A a \in OfU \ (AtCells \cup AtCorners) : Allocated(a, cfg) = UBox(cfg)
        /\ \A a \in OfV \ (AtCells \cup AtCorners) : Allocated(a, cfg) = VBox(cfg)
        /\ \A a : a \notin (OfU \cup OfV \cup AtCorners) \/ a \in AtCells \ AtCorners
                     => Allocated(a, cfg) = DataBox(cfg)
    BY <1>1, <1>2
  <1> QED BY <1>3, FieldsListed

\* Claims of arrays as the caller hands them over
Untouched(c, T, Z) ==
    \A a \in Z : a \in Passed(c) /\ \E P : a \in P /\ T[a] = Filtered(Allocated(a, c.cfg), 0, P)

\* They are true.
LEMMA UntouchedBegins ==
    ASSUME NEW c, c.cfg.halo \in Nat, NEW T, NEW Z, Untouched(c, T, Z)
    PROVE  Begins(c, T, Z)
  <1> SUFFICES ASSUME NEW a \in Z
               PROVE  /\ a \in Passed(c)
                      /\ BoxClaim(T[a]) /\ Within(T[a].box, Allocated(a, c.cfg))
                      /\ Within(Box(0, 0, 0, 0), T[a].from) /\ a \in T[a].of
    BY DEF Begins
  <1> DEFINE box == Allocated(a, c.cfg)
  <1>1. box \in Margins
    BY DataWithin
  <1>2. PICK P : a \in P /\ T[a] = Filtered(box, 0, P)
    BY DEF Untouched
  <1> HIDE DEF box
  <1>3. T[a].box = box /\ T[a].from = Box(0, 0, 0, 0) /\ T[a].of = P
    BY <1>2 DEF Filtered, Claim
  <1>4. Box(0, 0, 0, 0) \in Margins
    BY BoxIs
  <1>5. Within(box, box) /\ Within(Box(0, 0, 0, 0), Box(0, 0, 0, 0))
    BY <1>1, <1>4, ReadHere
  <1> QED BY <1>1, <1>2, <1>3, <1>4, <1>5 DEF BoxClaim, Untouched, box

\* The smoothing kernels only change what they are given.
LEMMA SmoothingChanges ==
    ASSUME NEW c, c.kernel \in SmoothingKernels
    PROVE  Results(c) = {} /\ KeptApart(c) = {} /\ c.kernel \notin ContinuityKernels
  <1>1. /\ c.kernel \notin ContinuityKernels
        /\ c.kernel \notin {"coradcalc_tr", "horizontal_viscosity_tr", "hor_visc_gme_bt", "vertvisc_limit_vel",
                            "vertvisc_remnant_tr", "vertfpmix_tr", "vertvisc_coef_tr", "vertvisc_tr", "thickness_to_dz_3d"}
        /\ c.kernel \notin {"continuity_PPM", "continuity_PPM_2d_fluxes"}
    BY DEF SmoothingKernels, ContinuityKernels
  <1>2. Results(c) = {}
    BY <1>1 DEF Results
  <1>3. KeptApart(c) = {}
    BY <1>1 DEF KeptApart
  <1> QED BY <1>1, <1>2, <1>3

\* What has been filtered, as it should be.
LEMMA FilteredEnds ==
    ASSUME NEW c, c.kernel \in SmoothingKernels, NEW T, NEW i \in Nat, Reach(c) = i, NEW Y, Outputs(c) \subseteq Y,
           \A a \in Outputs(c) : /\ T[a] = Filtered(Allocated(a, c.cfg), i, T[a].of)
                                 /\ Within(Required(a, c), Allocated(a, c.cfg)) /\ Allocated(a, c.cfg) \in Margins
    PROVE  Ends(c, T, Y)
  <1> SUFFICES ASSUME NEW a \in Outputs(c) PROVE EndsWell(c, a, T[a])
    BY DEF Ends
  <1>1. Results(c) = {} /\ KeptApart(c) = {}
    BY SmoothingChanges
  <1> DEFINE box == Allocated(a, c.cfg)
             P == T[a].of
             from == Box(i, i, i, i)
  <1>2. T[a] = Filtered(box, i, P) /\ Within(Required(a, c), box) /\ box \in Margins
    OBVIOUS
  <1> HIDE DEF box, P
  <1>3. T[a].box = box /\ T[a].from = from
    BY <1>2 DEF Filtered, Claim
  <1>4. from \in Margins
    BY BoxIs
  <1> HIDE DEF from
  <1>5. Within(from, from)
    BY <1>4, ReadHere
  <1> QED BY <1>1, <1>2, <1>3, <1>4, <1>5 DEF EndsWell, BoxClaim, from

-----------------------------------------------------------------------------
\* The field at the cells is promised, smoothed.
LEMMA SmoothHPromise ==
    ASSUME NEW c, CallOK(c), WideEnough(c), c.kernel = "smooth_x9_h"
    PROVE  Promise(c)
  <1> DEFINE cfg == c.cfg
             H == c.cfg.halo
             P == {"cell", "field_h"}
             Z == {"cell", "field_h"}
             alloc == DataBox(cfg)
             T == [a \in {"cell", "field_h", "f_prev"} |-> Filtered(alloc, 0, P)]
  <1>1. /\ c.kernel \in SmoothingKernels /\ c.kernel \notin ContinuityKernels \cup {"hor_visc_gme_bt", "smooth_gme_q_pass"}
        /\ Reach(c) = 2
    BY DEF SmoothingKernels, ContinuityKernels, Reach
  <1>2. H \in Nat /\ 2 <= H /\ cfg.symmetric \in BOOLEAN /\ H + 0 = H
    BY <1>1 DEF CallOK, WideEnough
  <1>3. alloc = Box(H, H, H, H) /\ alloc = Box(H + 0, H, H + 0, H) /\ bx0 = Box(0, 0, 0, 0)
    BY <1>2, DataBoxIs DEF bx0, Box
  <1>4. /\ Passed(c) = {"cell", "field_h"} /\ Outputs(c) = {"field_h"}
        /\ KernelOf(c) = smooth_x9(bx0, alloc, "field_h", "cell")
    <2>1. Passed(c) = {"cell", "field_h"}
      BY DEF Passed, smooth_x9_h_passed
    <2>2. Updated(c) = {"field_h"} /\ Results(c) = {}
      BY <1>1, SmoothingChanges DEF Updated
    <2>3. KernelOf(c) = smooth_x9(bx0, alloc, "field_h", "cell")
      BY Zenon DEF KernelOf, smooth_x9_h
    <2> QED BY <2>1, <2>2, <2>3 DEF Outputs
  <1>5. Allocated("cell", cfg) = alloc /\ Allocated("field_h", cfg) = alloc /\ Required("field_h", c) = bx0
    <2>1. {"cell", "field_h"} \cap (ZonalFields \cup MeridionalFields \cup AtCorners) = {}
      BY DEF ZonalFields, MeridionalFields, AtCorners, QDiagnostics, LimitsAtQ
    <2> QED BY <1>1, <2>1, AllocatedWhere, FacesRequired
  <1>6. alloc \in Margins /\ Within(bx0, alloc)
    BY <1>2, <1>3, BoxIs DEF Within, Box
  <1>7. Unfiltered(T, P, Z, "field_h", "cell", "f_prev", alloc, 0)
    <2>1. Even(T, P)
      BY <1>6, BoxIs DEF Even, Table, Filtered, Claim
    <2> HIDE DEF alloc
    <2> QED BY <2>1 DEF Unfiltered
  <1>8. Untouched(c, T, Z)
    <2>1. \A a \in Z : a \in P /\ T[a] = Filtered(Allocated(a, cfg), 0, P)
      BY <1>5
    <2> HIDE DEF T, P
    <2> QED BY <1>4, <2>1 DEF Untouched
  <1>9. Begins(c, T, Z)
    BY <1>2, <1>8, UntouchedBegins
  <1> HIDE DEF T, P, alloc
  <1>10. PICK U : /\ DOMAIN U = DOMAIN T /\ \A a \in DOMAIN T \ {"field_h", "f_prev"} : U[a] = T[a]
                  /\ Even(U, P) /\ U["field_h"] = Filtered(alloc, 2, P)
                  /\ Gives(T, Z, smooth_x9(bx0, alloc, "field_h", "cell"), U, Z)
    <2>1. "f_prev" \notin Z
      OBVIOUS
    <2>2. PICK k \in {0, 1} : k = 0
      OBVIOUS
    <2>3. bx0 = Box(k, 0, k, 0) /\ alloc = Box(H + k, H, H + k, H)
      BY <1>3, <2>2
    <2> HIDE DEF Z
    <2> QED BY <1>2, <1>7, <2>1, <2>3, FilterGives
  <1>11. Ends(c, U, Z)
    <2>1. U["field_h"].of = P
      BY <1>10 DEF Filtered, Claim
    <2> QED BY <1>1, <1>4, <1>5, <1>6, <1>10, <2>1, FilteredEnds
  <1> HIDE DEF Z
  <1>12. Gives(T, Z, KernelOf(c), U, Z)
    BY <1>4, <1>10
  <1> QED BY <1>9, <1>11, <1>12 DEF Promise

\* The fields at the faces, the one after the other.
LEMMA SmoothUVPromise ==
    ASSUME NEW c, CallOK(c), WideEnough(c), c.kernel = "smooth_x9_uv"
    PROVE  Promise(c)
  <1> DEFINE cfg == c.cfg
             H == c.cfg.halo
             P == {"face_u", "face_v", "field_u", "field_v"}
             Z == {"face_u", "face_v", "field_u", "field_v"}
             au == UBox(cfg)
             av == VBox(cfg)
             T == [a \in {"face_u", "face_v", "field_u", "field_v", "f_prev"} |->
                     Filtered(IF a \in {"face_u", "field_u"} THEN au ELSE av, 0, P)]
  <1>1. /\ c.kernel \in SmoothingKernels /\ c.kernel \notin ContinuityKernels \cup {"hor_visc_gme_bt", "smooth_gme_q_pass"}
        /\ Reach(c) = 2
    BY DEF SmoothingKernels, ContinuityKernels, Reach
  <1>2. H \in Nat /\ 2 <= H /\ cfg.symmetric \in BOOLEAN
    BY <1>1 DEF CallOK, WideEnough
  <1>3. PICK k \in {0, 1} : /\ bxU(cfg) = Box(k, 0, 0, 0) /\ bxV(cfg) = Box(0, 0, k, 0)
                            /\ au = Box(H + k, H, H, H) /\ av = Box(H, H, H + k, H)
    BY <1>2, AllocatedBoxes
  <1>4. /\ Passed(c) = {"face_u", "face_v", "field_u", "field_v"} /\ Outputs(c) = {"field_u", "field_v"}
        /\ KernelOf(c) = smooth_x9(bxU(cfg), au, "field_u", "face_u") \o smooth_x9(bxV(cfg), av, "field_v", "face_v")
    <2>1. Passed(c) = {"face_u", "face_v", "field_u", "field_v"}
      BY DEF Passed, smooth_x9_uv_passed
    <2>2. Updated(c) = {"field_u", "field_v"} /\ Results(c) = {}
      BY <1>1, SmoothingChanges DEF Updated
    <2>3. KernelOf(c) = smooth_x9_uv(cfg)
      BY DEF KernelOf
    <2>4. KernelOf(c) = smooth_x9(bxU(cfg), au, "field_u", "face_u") \o smooth_x9(bxV(cfg), av, "field_v", "face_v")
      BY Zenon, <2>3 DEF smooth_x9_uv
    <2> QED BY <2>1, <2>2, <2>4 DEF Outputs
  <1>5. /\ Allocated("face_u", cfg) = au /\ Allocated("field_u", cfg) = au /\ Required("field_u", c) = bxU(cfg)
        /\ Allocated("face_v", cfg) = av /\ Allocated("field_v", cfg) = av /\ Required("field_v", c) = bxV(cfg)
    <2>1. {"face_u", "face_v", "field_u", "field_v"} \cap (AtCells \cup AtCorners) = {}
      BY DEF AtCells, AtCorners, QDiagnostics, LimitsAtQ
    <2>2. {"face_u", "field_u"} \subseteq ZonalFields /\ {"face_v", "field_v"} \subseteq MeridionalFields
      BY DEF ZonalFields, MeridionalFields
    <2> QED BY <1>1, <2>1, <2>2, AllocatedWhere, FacesRequired
  <1>6. au \in Margins /\ av \in Margins /\ Within(bxU(cfg), au) /\ Within(bxV(cfg), av)
    BY <1>2, <1>3, BoxIs DEF Within, Box
  <1>7. Unfiltered(T, P, Z, "field_u", "face_u", "f_prev", au, 0) /\ T["field_v"] = Filtered(av, 0, P) /\ T["face_v"] = Filtered(av, 0, P)
        /\ DOMAIN T = Z \cup {"f_prev"}
    <2>1. Even(T, P)
      BY <1>6, BoxIs DEF Even, Table, Filtered, Claim
    <2> HIDE DEF au, av
    <2> QED BY <2>1 DEF Unfiltered
  <1>8. Untouched(c, T, Z)
    <2>1. \A a \in Z : a \in P /\ T[a] = Filtered(Allocated(a, cfg), 0, P)
      BY <1>5
    <2> HIDE DEF T, P
    <2> QED BY <1>4, <2>1 DEF Untouched
  <1>9. Begins(c, T, Z)
    BY <1>2, <1>8, UntouchedBegins
  <1> HIDE DEF T, P, au, av
  <1>a. "f_prev" \notin Z /\ 0 \in {0, 1} /\ H + 0 = H
    BY <1>2
  <1>10. PICK S : /\ DOMAIN S = DOMAIN T /\ \A a \in DOMAIN T \ {"field_u", "f_prev"} : S[a] = T[a]
                  /\ Even(S, P) /\ S["field_u"] = Filtered(au, 2, P)
                  /\ Gives(T, Z, smooth_x9(bxU(cfg), au, "field_u", "face_u"), S, Z)
    <2> HIDE DEF Z
    <2> QED BY <1>2, <1>3, <1>7, <1>a, FilterGives
  <1>11. Unfiltered(S, P, Z, "field_v", "face_v", "f_prev", av, 0)
    BY <1>7, <1>10 DEF Unfiltered
  <1>12. PICK U : /\ DOMAIN U = DOMAIN S /\ \A a \in DOMAIN S \ {"field_v", "f_prev"} : U[a] = S[a]
                  /\ Even(U, P) /\ U["field_v"] = Filtered(av, 2, P)
                  /\ Gives(S, Z, smooth_x9(bxV(cfg), av, "field_v", "face_v"), U, Z)
    <2> HIDE DEF Z
    <2> QED BY <1>2, <1>3, <1>11, <1>a, FilterGives
  <1>13. U["field_u"] = Filtered(au, 2, P)
    BY <1>7, <1>10, <1>12
  <1>14. Ends(c, U, Z)
    <2>1. U["field_u"].of = P /\ U["field_v"].of = P
      BY <1>12, <1>13 DEF Filtered, Claim
    <2> QED BY <1>1, <1>4, <1>5, <1>6, <1>12, <1>13, <2>1, FilteredEnds
  <1> HIDE DEF Z
  <1>15. Gives(T, Z, KernelOf(c), U, Z)
    BY <1>4, <1>10, <1>12, ThenGives
  <1> QED BY <1>9, <1>14, <1>15 DEF Promise

-----------------------------------------------------------------------------
\* One step and two.
LEMMA JoinedOneTwo == \A a, b, d : <<a>> \o <<b, d>> = <<a, b, d>>
  <1> TAKE a, b, d
  <1> DEFINE X == {a, b, d}
             x == <<a>>
             y == <<b, d>>
             z == x \o y
  <1>1. a \in X /\ b \in X /\ d \in X
    OBVIOUS
  <1> HIDE DEF X
  <1>2. x \in Seq(X) /\ y \in Seq(X) /\ Len(x) = 1 /\ Len(y) = 2 /\ x[1] = a /\ y[1] = b /\ y[2] = d
    BY <1>1
  <1> HIDE DEF x, y
  <1>3. z \in Seq(X) /\ Len(z) = 3 /\ z[1] = a /\ z[2] = b /\ z[3] = d
    BY <1>2 DEF x, y
  <1> HIDE DEF z
  <1>4. z = <<a, b, d>>
    BY <1>3
  <1> QED BY <1>4 DEF x, y, z

\* A pass of the five-point filter of GME.
LEMMA FluxGives ==
    ASSUME NEW T, NEW P, NEW Z, NEW flux, NEW mask, NEW alloc, alloc \in Margins, Within(Box(1, 1, 1, 1), alloc),
           Unfiltered(T, P, Z, flux, mask, "f_orig", alloc, 0), "f_orig" \notin Z
    PROVE  \E U : /\ U[flux] = Filtered(alloc, 1, P)
                  /\ Gives(T, Z, smooth_gme_pass(alloc, flux, mask), U, Z)
  <1> DEFINE prev == "f_orig"
             Y == Z \cup {prev}
             one == Box(1, 1, 1, 1)
             O == Here \cup East \cup West \cup North \cup South
             s == Scratch(alloc, {prev})
             t == Loop(alloc, {Set({prev}, At({flux}, Here))})
             p == Loop(bx0, {Set({flux}, At({prev}, O) \cup At({mask}, O) \cup At({flux}, Here))})
  <1>1. bx0 = Box(0, 0, 0, 0) /\ bx0 \in Margins /\ one \in Margins /\ Plus(bx0, one) = one
    BY BoxIs DEF bx0, Box, Plus
  <1>2. Spans(O, one)
    BY <1>1 DEF Spans, Around, Offsets, Box, Here, East, West, North, South
  <1>3. smooth_gme_pass(alloc, flux, mask) = <<s, t, p>>
    <2>1. At({prev, mask}, O) = At({prev}, O) \cup At({mask}, O)
      BY DEF At
    <2> HIDE DEF O
    <2>2. smooth_gme_pass(alloc, flux, mask)
            = <<s, t, Loop(bx0, {Set({flux}, At({prev, mask}, O) \cup At({flux}, Here))})>>
      BY Zenon DEF smooth_gme_pass, O
    <2> QED BY Zenon, <2>1, <2>2
  <1>4. FilterPass(flux, mask, prev, alloc, bx0, O, O) = <<t, p>>
    BY Zenon DEF FilterPass
  <1> HIDE DEF one, O, s, t, p
  <1>5. 0 \in Nat /\ 0 + 1 = 1 /\ Within(Plus(bx0, one), alloc)
    BY <1>1 DEF one
  <1>6. Passes(T, P, Z, flux, mask, prev, alloc, 0, bx0, O, O)
    BY <1>1, <1>2, <1>5, PassGives DEF one
  <1>7. PICK U : /\ Unfiltered(U, P, Y, flux, mask, prev, alloc, 1)
                 /\ Gives(T, Z, <<t, p>>, U, Y)
    BY <1>4, <1>5, <1>6 DEF Passes
  <1>8. Gives(T, Z, <<s>>, T, Z)
    BY ScratchGives DEF s
  <1>9. Gives(T, Z, <<s, t, p>>, U, Y)
    <2>1. Gives(T, Z, <<s>> \o <<t, p>>, U, Y)
      BY <1>7, <1>8, ThenGives
    <2> QED BY <2>1, JoinedOneTwo
  <1>10. Follows(U, Y, U, Z)
    BY DEF Follows
  <1>11. Gives(T, Z, smooth_gme_pass(alloc, flux, mask), U, Z)
    BY <1>3, <1>9, <1>10, GivesLess
  <1> QED BY <1>7, <1>11 DEF Unfiltered

\* A flux of GME is promised, smoothed.
LEMMA FluxPromise ==
    ASSUME NEW c, CallOK(c), WideEnough(c), c.kernel \in SmoothingKernels, Reach(c) = 1,
           NEW flux, NEW mask, flux # mask, flux # "f_orig", mask # "f_orig",
           Passed(c) = {mask, flux}, Outputs(c) = {flux},
           NEW alloc, alloc \in Margins, Within(Box(1, 1, 1, 1), alloc),
           \A a \in {flux, mask} : Allocated(a, c.cfg) = alloc,
           Required(flux, c) = bx0, KernelOf(c) = smooth_gme_pass(alloc, flux, mask)
    PROVE  Promise(c)
  <1> DEFINE P == {flux, mask}
             Z == {flux, mask}
             T == [a \in {flux, mask, "f_orig"} |-> Filtered(alloc, 0, P)]
  <1>1. Unfiltered(T, P, Z, flux, mask, "f_orig", alloc, 0)
    <2>1. Even(T, P)
      BY BoxIs DEF Even, Table, Filtered, Claim
    <2> QED BY <2>1 DEF Unfiltered
  <1>2. Untouched(c, T, Z)
    <2>1. \A a \in Z : a \in P /\ T[a] = Filtered(Allocated(a, c.cfg), 0, P)
      OBVIOUS
    <2> HIDE DEF T, P
    <2> QED BY <2>1 DEF Untouched
  <1>3. Begins(c, T, Z)
    <2>1. c.cfg.halo \in Nat
      BY DEF CallOK
    <2> QED BY <1>2, <2>1, UntouchedBegins
  <1> HIDE DEF T, P
  <1>4. PICK U : /\ U[flux] = Filtered(alloc, 1, P)
                 /\ Gives(T, Z, smooth_gme_pass(alloc, flux, mask), U, Z)
    <2>1. "f_orig" \notin Z
      OBVIOUS
    <2> HIDE DEF Z
    <2> QED BY <1>1, <2>1, FluxGives
  <1>5. Within(bx0, alloc)
    <2>1. Within(bx0, Box(1, 1, 1, 1)) /\ bx0 \in Margins /\ Box(1, 1, 1, 1) \in Margins
      BY BoxIs DEF bx0, Within, Box, Margins
    <2> QED BY <2>1, WithinTrans
  <1>6. Ends(c, U, Z)
    <2>1. U[flux].of = P
      BY <1>4 DEF Filtered, Claim
    <2> QED BY <1>4, <1>5, <2>1, FilteredEnds
  <1> HIDE DEF Z
  <1> QED BY <1>3, <1>4, <1>6 DEF Promise

\* At the cells.
LEMMA FluxHPromise ==
    ASSUME NEW c, CallOK(c), WideEnough(c), c.kernel = "smooth_gme_h_pass"
    PROVE  Promise(c)
  <1> DEFINE H == c.cfg.halo
             alloc == DataBox(c.cfg)
             flux == "GME_flux_h"
             mask == "cell"
  <1>1. /\ c.kernel \in SmoothingKernels /\ c.kernel \notin ContinuityKernels \cup {"hor_visc_gme_bt", "smooth_gme_q_pass"}
        /\ Reach(c) = 1
    BY DEF SmoothingKernels, ContinuityKernels, Reach
  <1>2. H \in Nat /\ 1 <= H
    BY <1>1 DEF CallOK, WideEnough
  <1>3. alloc = Box(H, H, H, H)
    BY <1>2, DataBoxIs
  <1>4. alloc \in Margins /\ Within(Box(1, 1, 1, 1), alloc)
    BY <1>2, <1>3, BoxIs DEF Within, Box
  <1>5. Passed(c) = {mask, flux}
    BY DEF Passed, smooth_gme_h_pass_passed
  <1>6. Updated(c) = {flux} /\ Results(c) = {} /\ Outputs(c) = {flux}
    BY <1>1, SmoothingChanges DEF Updated, Outputs
  <1>7. KernelOf(c) = smooth_gme_pass(alloc, flux, mask)
    BY Zenon DEF KernelOf, smooth_gme_h_pass
  <1>8. (\A a \in {flux, mask} : Allocated(a, c.cfg) = alloc) /\ Required(flux, c) = bx0
    <2>1. {"cell", "GME_flux_h"} \cap (ZonalFields \cup MeridionalFields \cup AtCorners) = {}
      BY DEF ZonalFields, MeridionalFields, AtCorners, QDiagnostics, LimitsAtQ
    <2> QED BY <1>1, <2>1, AllocatedWhere, FacesRequired
  <1>9. flux # mask /\ flux # "f_orig" /\ mask # "f_orig"
    OBVIOUS
  <1> HIDE DEF alloc, flux, mask
  <1> QED BY <1>1, <1>4, <1>5, <1>6, <1>7, <1>8, <1>9, FluxPromise

\* At the corners.
LEMMA FluxQPromise ==
    ASSUME NEW c, CallOK(c), WideEnough(c), c.kernel = "smooth_gme_q_pass"
    PROVE  Promise(c)
  <1> DEFINE H == c.cfg.halo
             alloc == CornerBox(c.cfg)
             flux == "GME_flux_q"
             mask == "corner"
  <1>1. c.kernel \in SmoothingKernels /\ Reach(c) = 1
    BY DEF SmoothingKernels, ContinuityKernels, Reach
  <1>2. H \in Nat /\ 1 <= H /\ c.cfg.symmetric \in BOOLEAN
    BY <1>1 DEF CallOK, WideEnough
  <1>3. PICK k \in {0, 1} : alloc = Box(H + k, H, H + k, H)
    BY <1>2, AllocatedBoxes
  <1>4. alloc \in Margins /\ Within(Box(1, 1, 1, 1), alloc)
    BY <1>2, <1>3, BoxIs DEF Within, Box
  <1>5. Passed(c) = {mask, flux}
    BY DEF Passed, smooth_gme_q_pass_passed
  <1>6. Updated(c) = {flux} /\ Results(c) = {} /\ Outputs(c) = {flux}
    BY <1>1, SmoothingChanges DEF Updated, Outputs
  <1>7. KernelOf(c) = smooth_gme_pass(alloc, flux, mask)
    BY Zenon DEF KernelOf, smooth_gme_q_pass
  <1>8. (\A a \in {flux, mask} : Allocated(a, c.cfg) = alloc) /\ Required(flux, c) = bx0
    <2>1. {flux, mask} \subseteq AtCorners
      BY DEF AtCorners
    <2>2. Required(flux, c) = bx0
      BY DEF Required, ContinuityKernels
    <2> QED BY <2>1, <2>2, AllocatedWhere
  <1>9. flux # mask /\ flux # "f_orig" /\ mask # "f_orig"
    OBVIOUS
  <1> HIDE DEF alloc, flux, mask
  <1> QED BY <1>1, <1>4, <1>5, <1>6, <1>7, <1>8, <1>9, FluxPromise

-----------------------------------------------------------------------------
\* The strain of the barotropic velocities

\* A body that sets two arrays.
LEMMA FitsLoopOfTwo ==
    ASSUME NEW T, NEW P, Even(T, P), NEW Z, Z \subseteq DOMAIN T, NEW box, box \in Margins,
           NEW R, NEW f, ReadsFit(T, Z, box, R, f), NEW A, Into(T, box, A, f),
           NEW S, NEW g, ReadsFit(T, Z, box, S, g), NEW B, Into(T, box, B, g)
    PROVE  Gives(T, Z, <<Loop(box, {Set(A, R), Set(B, S)})>>, T, Z \cup A \cup B)
  <1>1. Computes(T, Z, box, A, R) /\ Computes(T, Z, box, B, S) /\ Table(T)
    BY FitsComputes DEF Even
  <1> QED BY <1>1, TwoSetsGive

\* The offsets that are read, and the spreads that hold them.
LEMMA OffsetsSpan ==
    /\ Spans(Here, Box(0, 0, 0, 0))
    /\ Spans(Here \cup West, Box(1, 0, 0, 0)) /\ Spans(Here \cup East, Box(0, 1, 0, 0))
    /\ Spans(Here \cup South, Box(0, 0, 1, 0)) /\ Spans(Here \cup North, Box(0, 0, 0, 1))
    /\ Spans(CornersAround, Box(1, 0, 1, 0)) /\ Spans(CellsAround, Box(0, 1, 0, 1))
  <1>1. Spans(Here, Box(0, 0, 0, 0))
    BY DEF Spans, Margins, Around, Offsets, Box, Here
  <1>2. Spans(Here \cup West, Box(1, 0, 0, 0)) /\ Spans(Here \cup East, Box(0, 1, 0, 0))
    BY DEF Spans, Margins, Around, Offsets, Box, Here, West, East
  <1>3. Spans(Here \cup South, Box(0, 0, 1, 0)) /\ Spans(Here \cup North, Box(0, 0, 0, 1))
    BY DEF Spans, Margins, Around, Offsets, Box, Here, South, North
  <1>4. Spans(CornersAround, Box(1, 0, 1, 0)) /\ Spans(CellsAround, Box(0, 1, 0, 1))
    BY DEF Spans, Margins, Around, Offsets, Box, CornersAround, CellsAround
  <1> QED BY <1>1, <1>2, <1>3, <1>4

\* The arrays of the barotropic strain, and what is claimed of them in a memory that has k
\* corners more
StrainInputs == {"cell", "corner", "face_u", "face_v", "ubtav", "vbtav", "h"}
StrainSets == {"dudx_bt", "dvdy_bt", "dvdx_bt", "dudy_bt", "sh_xx_bt", "sh_xy_bt", "htot", "GME_effic_h", "GME_effic_q"}
StrainBox(a, k) ==
    CASE a \in {"dudx_bt", "dvdy_bt", "htot"} -> Box(2, 2, 2, 2)
      [] a \in {"dvdx_bt", "dudy_bt"} -> Box(k + 2, 2, k + 2, 2)
      [] a \in {"sh_xx_bt", "GME_effic_h"} -> Box(k + 1, 2, k + 1, 2)
      [] a \in {"sh_xy_bt", "GME_effic_q"} -> Box(2, 1, 2, 1)
      [] OTHER -> Box(3, 3, 3, 3)
StrainFrom(a) ==
    CASE a = "dudx_bt" -> Box(1, 0, 0, 0)
      [] a = "dvdy_bt" -> Box(0, 0, 1, 0)
      [] a = "dvdx_bt" -> Box(0, 1, 0, 0)
      [] a = "dudy_bt" -> Box(0, 0, 0, 1)
      [] a = "sh_xx_bt" -> Box(1, 0, 1, 0)
      [] a = "sh_xy_bt" -> Box(0, 1, 0, 1)
      [] a \in {"GME_effic_h", "GME_effic_q"} -> Box(1, 1, 1, 1)
      [] OTHER -> Box(0, 0, 0, 0)
StrainTable(k) ==
    [a \in StrainInputs \cup StrainSets |-> Claim(StrainBox(a, k), StrainFrom(a), StrainInputs)]

\* What the table says, array by array
StrainClaims(T, k) ==
    /\ \A a \in StrainInputs : T[a].box = Box(3, 3, 3, 3) /\ T[a].from = Box(0, 0, 0, 0)
    /\ T["dudx_bt"].box = Box(2, 2, 2, 2) /\ T["dudx_bt"].from = Box(1, 0, 0, 0)
    /\ T["dvdy_bt"].box = Box(2, 2, 2, 2) /\ T["dvdy_bt"].from = Box(0, 0, 1, 0)
    /\ T["dvdx_bt"].box = Box(k + 2, 2, k + 2, 2) /\ T["dvdx_bt"].from = Box(0, 1, 0, 0)
    /\ T["dudy_bt"].box = Box(k + 2, 2, k + 2, 2) /\ T["dudy_bt"].from = Box(0, 0, 0, 1)
    /\ T["sh_xx_bt"].box = Box(k + 1, 2, k + 1, 2) /\ T["sh_xx_bt"].from = Box(1, 0, 1, 0)
    /\ T["sh_xy_bt"].box = Box(2, 1, 2, 1) /\ T["sh_xy_bt"].from = Box(0, 1, 0, 1)
    /\ T["htot"].box = Box(2, 2, 2, 2) /\ T["htot"].from = Box(0, 0, 0, 0)
    /\ T["GME_effic_h"].box = Box(k + 1, 2, k + 1, 2) /\ T["GME_effic_h"].from = Box(1, 1, 1, 1)
    /\ T["GME_effic_q"].box = Box(2, 1, 2, 1) /\ T["GME_effic_q"].from = Box(1, 1, 1, 1)

\* The table holds these claims.
LEMMA StrainTableHolds ==
    ASSUME NEW k \in {0, 1}
    PROVE  /\ Even(StrainTable(k), StrainInputs) /\ DOMAIN StrainTable(k) = StrainInputs \cup StrainSets
           /\ StrainClaims(StrainTable(k), k)
  <1> DEFINE T == StrainTable(k)
  <1>1. DOMAIN T = StrainInputs \cup StrainSets
        /\ \A a \in DOMAIN T : T[a].box = StrainBox(a, k) /\ T[a].from = StrainFrom(a) /\ T[a].of = StrainInputs
    BY DEF StrainTable, Claim
  <1>2. \A a : StrainBox(a, k) \in Margins
    BY DEF StrainBox, Box, Margins
  <1>3. \A a : StrainFrom(a) \in Margins
    BY DEF StrainFrom, Box, Margins
  <1> HIDE DEF T
  <1>4. Even(T, StrainInputs)
    BY <1>1, <1>2, <1>3 DEF Even, Table
  <1>5. \A a \in StrainInputs : T[a].box = Box(3, 3, 3, 3) /\ T[a].from = Box(0, 0, 0, 0)
    <2>1. \A a \in StrainInputs : StrainBox(a, k) = Box(3, 3, 3, 3) /\ StrainFrom(a) = Box(0, 0, 0, 0)
      BY DEF StrainInputs, StrainBox, StrainFrom
    <2> QED BY <1>1, <2>1
  <1>6. /\ T["dudx_bt"].box = Box(2, 2, 2, 2) /\ T["dudx_bt"].from = Box(1, 0, 0, 0)
        /\ T["dvdy_bt"].box = Box(2, 2, 2, 2) /\ T["dvdy_bt"].from = Box(0, 0, 1, 0)
        /\ T["htot"].box = Box(2, 2, 2, 2) /\ T["htot"].from = Box(0, 0, 0, 0)
    BY <1>1 DEF StrainSets, StrainBox, StrainFrom
  <1>7. /\ T["dvdx_bt"].box = Box(k + 2, 2, k + 2, 2) /\ T["dvdx_bt"].from = Box(0, 1, 0, 0)
        /\ T["dudy_bt"].box = Box(k + 2, 2, k + 2, 2) /\ T["dudy_bt"].from = Box(0, 0, 0, 1)
    BY <1>1 DEF StrainSets, StrainBox, StrainFrom
  <1>8. /\ T["sh_xx_bt"].box = Box(k + 1, 2, k + 1, 2) /\ T["sh_xx_bt"].from = Box(1, 0, 1, 0)
        /\ T["sh_xy_bt"].box = Box(2, 1, 2, 1) /\ T["sh_xy_bt"].from = Box(0, 1, 0, 1)
    BY <1>1 DEF StrainSets, StrainBox, StrainFrom
  <1>9. /\ T["GME_effic_h"].box = Box(k + 1, 2, k + 1, 2) /\ T["GME_effic_h"].from = Box(1, 1, 1, 1)
        /\ T["GME_effic_q"].box = Box(2, 1, 2, 1) /\ T["GME_effic_q"].from = Box(1, 1, 1, 1)
    BY <1>1 DEF StrainSets, StrainBox, StrainFrom
  <1> QED BY <1>1, <1>4, <1>5, <1>6, <1>7, <1>8, <1>9 DEF T, StrainClaims

-----------------------------------------------------------------------------
\* Four steps and four.
LEMMA JoinedFours == \A a, b, c, d, e, f, g, h : <<a, b, c, d>> \o <<e, f, g, h>> = <<a, b, c, d, e, f, g, h>>
  <1> TAKE a, b, c, d, e, f, g, h
  <1> DEFINE X == {a, b, c, d, e, f, g, h}
             x == <<a, b, c, d>>
             y == <<e, f, g, h>>
             z == x \o y
  <1>1. a \in X /\ b \in X /\ c \in X /\ d \in X /\ e \in X /\ f \in X /\ g \in X /\ h \in X
    OBVIOUS
  <1> HIDE DEF X
  <1>2. /\ x \in Seq(X) /\ Len(x) = 4 /\ x[1] = a /\ x[2] = b /\ x[3] = c /\ x[4] = d
        /\ y \in Seq(X) /\ Len(y) = 4 /\ y[1] = e /\ y[2] = f /\ y[3] = g /\ y[4] = h
    BY <1>1
  <1> HIDE DEF x, y
  <1>3. /\ z \in Seq(X) /\ Len(z) = 8 /\ z[1] = a /\ z[2] = b /\ z[3] = c /\ z[4] = d
        /\ z[5] = e /\ z[6] = f /\ z[7] = g /\ z[8] = h
    BY <1>2 DEF x, y
  <1> HIDE DEF z
  <1>4. z = <<a, b, c, d, e, f, g, h>>
    BY <1>3
  <1> QED BY <1>4 DEF x, y, z

\* The loops of the barotropic strain.
LEMMA StrainGives ==
    ASSUME NEW k \in {0, 1}, NEW T, T = StrainTable(k), NEW cfg, bxQ(cfg) = Box(k, 0, k, 0), NEW alloc,
           DataBox(cfg) = alloc
    PROVE  Gives(T, StrainInputs, hor_visc_gme_bt(cfg), T, StrainInputs \cup StrainSets)
  <1> DEFINE Y0 == StrainInputs
             P == StrainInputs
             b2 == Box(2, 2, 2, 2)
             bh == Box(k + 1, 2, k + 1, 2)
             bd == Box(k + 2, 2, k + 2, 2)
             bq == Box(2, 1, 2, 1)
             Y1 == Y0 \cup {"dudx_bt"} \cup {"dvdy_bt"}
             Y2 == Y1 \cup {"sh_xx_bt"}
             Y3 == Y2 \cup {"dvdx_bt"} \cup {"dudy_bt"}
             Y4 == Y3 \cup {"sh_xy_bt"}
             Y5 == Y4 \cup {"htot"}
             Y6 == Y5 \cup {"GME_effic_h"}
             Y7 == Y6 \cup {"GME_effic_q"}
             R1a == At({"ubtav", "face_u"}, Here \cup West) \cup At({"cell"}, Here)
             R1b == At({"vbtav", "face_v"}, Here \cup South) \cup At({"cell"}, Here)
             R2 == At({"dudx_bt", "dvdy_bt"}, Here)
             R3a == At({"vbtav", "face_v"}, Here \cup East) \cup At({"corner"}, Here)
             R3b == At({"ubtav", "face_u"}, Here \cup North) \cup At({"corner"}, Here)
             R4 == At({"dvdx_bt", "dudy_bt", "corner"}, Here)
             R5 == At({"h"}, Here)
             R6 == At({"face_u"}, Here \cup West) \cup At({"face_v"}, Here \cup South)
                   \cup At({"dvdx_bt", "dudy_bt"}, CornersAround) \cup At({"dudx_bt", "dvdy_bt", "htot", "cell"}, Here)
             R7 == At({"face_u"}, Here \cup North) \cup At({"face_v"}, Here \cup East)
                   \cup At({"dudx_bt", "dvdy_bt", "htot"}, CellsAround) \cup At({"dvdx_bt", "dudy_bt", "corner"}, Here)
             s0 == Scratch(alloc, {"htot"})
             s1 == Loop(b2, {Set({"dudx_bt"}, R1a), Set({"dvdy_bt"}, R1b)})
             s2 == Loop(bh, {Set({"sh_xx_bt"}, R2)})
             s3 == Loop(bd, {Set({"dvdx_bt"}, R3a), Set({"dudy_bt"}, R3b)})
             s4 == Loop(bq, {Set({"sh_xy_bt"}, R4)})
             s5 == Loop(b2, {Set({"htot"}, R5)})
             s6 == Loop(bh, {Set({"GME_effic_h"}, R6)})
             s7 == Loop(bq, {Set({"GME_effic_q"}, R7)})
  <1>1. Even(T, P) /\ DOMAIN T = StrainInputs \cup StrainSets /\ StrainClaims(T, k)
    BY StrainTableHolds
  <1>2. b2 \in Margins /\ bh \in Margins /\ bd \in Margins /\ bq \in Margins
    BY BoxIs
  <1>3. hor_visc_gme_bt(cfg) = <<s0, s1, s2, s3, s4, s5, s6, s7>>
    <2>1. grow_by(bxQ(cfg), 2, 2, 2, 2) = bd /\ grow_by(bx0, 2, 2, 2, 2) = b2 /\ bxHgrad(cfg) = bh /\ bxQshear = bq
      <3>1. \A box \in {bxQ(cfg), bx0} : box.w \in Int /\ box.e = 0 /\ box.s \in Int /\ box.n = 0
        BY DEF bx0, Box
      <3> QED BY DEF grow_by, bxHgrad, bxQshear, bx0, Box
    <2> HIDE DEF bd, b2, bh, bq
    <2>2. R1a = AlongX("ubtav") /\ R1b = AlongY("vbtav") /\ R3a = AcrossX("vbtav") /\ R3b = AcrossY("ubtav")
      BY DEF AlongX, AlongY, AcrossX, AcrossY
    <2> HIDE DEF R1a, R1b, R3a, R3b
    <2> QED BY Zenon, <2>1, <2>2 DEF hor_visc_gme_bt
  <1>4. /\ Y0 \subseteq DOMAIN T /\ Y1 \subseteq DOMAIN T /\ Y2 \subseteq DOMAIN T /\ Y3 \subseteq DOMAIN T
        /\ Y4 \subseteq DOMAIN T /\ Y5 \subseteq DOMAIN T /\ Y6 \subseteq DOMAIN T /\ Y7 = StrainInputs \cup StrainSets
    BY <1>1 DEF StrainInputs, StrainSets
  <1>5. Gives(T, Y0, <<s0>>, T, Y0)
    <2>1. "htot" \notin Y0
      BY DEF StrainInputs
    <2> QED BY <2>1, ScratchGives
  <1>6. Gives(T, Y0, <<s1>>, T, Y1)
    <2>1. /\ Good(T, Y0, b2, {"ubtav", "face_u"}, Box(1, 0, 0, 0), Box(1, 0, 0, 0))
          /\ Good(T, Y0, b2, {"cell"}, Box(0, 0, 0, 0), Box(1, 0, 0, 0))
      BY <1>1, <1>2, <1>4 DEF Good, Near, Even, StrainClaims, StrainInputs, StrainSets, Within, Plus, Box, Margins
    <2>2. ReadsFit(T, Y0, b2, R1a, Box(1, 0, 0, 0))
      <3>1. /\ ReadsFit(T, Y0, b2, At({"ubtav", "face_u"}, Here \cup West), Box(1, 0, 0, 0))
            /\ ReadsFit(T, Y0, b2, At({"cell"}, Here), Box(1, 0, 0, 0))
        BY <2>1, OffsetsSpan, FitsAt
      <3> QED BY <3>1, FitsBoth
    <2>3. Into(T, b2, {"dudx_bt"}, Box(1, 0, 0, 0))
      BY <1>1, <1>2 DEF Into, StrainClaims, StrainSets, Within, Box
    <2>4. /\ Good(T, Y0, b2, {"vbtav", "face_v"}, Box(0, 0, 1, 0), Box(0, 0, 1, 0))
          /\ Good(T, Y0, b2, {"cell"}, Box(0, 0, 0, 0), Box(0, 0, 1, 0))
      BY <1>1, <1>2, <1>4 DEF Good, Near, Even, StrainClaims, StrainInputs, StrainSets, Within, Plus, Box, Margins
    <2>5. ReadsFit(T, Y0, b2, R1b, Box(0, 0, 1, 0))
      <3>1. /\ ReadsFit(T, Y0, b2, At({"vbtav", "face_v"}, Here \cup South), Box(0, 0, 1, 0))
            /\ ReadsFit(T, Y0, b2, At({"cell"}, Here), Box(0, 0, 1, 0))
        BY <2>4, OffsetsSpan, FitsAt
      <3> QED BY <3>1, FitsBoth
    <2>6. Into(T, b2, {"dvdy_bt"}, Box(0, 0, 1, 0))
      BY <1>1, <1>2 DEF Into, StrainClaims, StrainSets, Within, Box
    <2> HIDE DEF Y0, R1a, R1b, b2, bh, bd, bq, P
    <2> QED BY <1>1, <1>2, <1>4, <2>2, <2>3, <2>5, <2>6, FitsLoopOfTwo
  <1>7. Gives(T, Y1, <<s2>>, T, Y2)
    <2>1. /\ Good(T, Y1, bh, {"dudx_bt", "dvdy_bt"}, Box(0, 0, 0, 0), Box(1, 0, 1, 0))
      BY <1>1, <1>2, <1>4 DEF Good, Near, Even, StrainClaims, StrainInputs, StrainSets, Within, Plus, Box, Margins
    <2>2. ReadsFit(T, Y1, bh, R2, Box(1, 0, 1, 0))
      <3>1. /\ ReadsFit(T, Y1, bh, At({"dudx_bt", "dvdy_bt"}, Here), Box(1, 0, 1, 0))
        BY <2>1, OffsetsSpan, FitsAt
      <3> QED BY <3>1, FitsBoth
    <2>3. Into(T, bh, {"sh_xx_bt"}, Box(1, 0, 1, 0))
      BY <1>1, <1>2 DEF Into, StrainClaims, StrainSets, Within, Box
    <2> HIDE DEF Y1, R2, b2, bh, bd, bq, P
    <2> QED BY <1>1, <1>2, <1>4, <2>2, <2>3, FitsLoop
  <1>8. Gives(T, Y2, <<s3>>, T, Y3)
    <2>1. /\ Good(T, Y2, bd, {"vbtav", "face_v"}, Box(0, 1, 0, 0), Box(0, 1, 0, 0))
          /\ Good(T, Y2, bd, {"corner"}, Box(0, 0, 0, 0), Box(0, 1, 0, 0))
      BY <1>1, <1>2, <1>4 DEF Good, Near, Even, StrainClaims, StrainInputs, StrainSets, Within, Plus, Box, Margins
    <2>2. ReadsFit(T, Y2, bd, R3a, Box(0, 1, 0, 0))
      <3>1. /\ ReadsFit(T, Y2, bd, At({"vbtav", "face_v"}, Here \cup East), Box(0, 1, 0, 0))
            /\ ReadsFit(T, Y2, bd, At({"corner"}, Here), Box(0, 1, 0, 0))
        BY <2>1, OffsetsSpan, FitsAt
      <3> QED BY <3>1, FitsBoth
    <2>3. Into(T, bd, {"dvdx_bt"}, Box(0, 1, 0, 0))
      BY <1>1, <1>2 DEF Into, StrainClaims, StrainSets, Within, Box
    <2>4. /\ Good(T, Y2, bd, {"ubtav", "face_u"}, Box(0, 0, 0, 1), Box(0, 0, 0, 1))
          /\ Good(T, Y2, bd, {"corner"}, Box(0, 0, 0, 0), Box(0, 0, 0, 1))
      BY <1>1, <1>2, <1>4 DEF Good, Near, Even, StrainClaims, StrainInputs, StrainSets, Within, Plus, Box, Margins
    <2>5. ReadsFit(T, Y2, bd, R3b, Box(0, 0, 0, 1))
      <3>1. /\ ReadsFit(T, Y2, bd, At({"ubtav", "face_u"}, Here \cup North), Box(0, 0, 0, 1))
            /\ ReadsFit(T, Y2, bd, At({"corner"}, Here), Box(0, 0, 0, 1))
        BY <2>4, OffsetsSpan, FitsAt
      <3> QED BY <3>1, FitsBoth
    <2>6. Into(T, bd, {"dudy_bt"}, Box(0, 0, 0, 1))
      BY <1>1, <1>2 DEF Into, StrainClaims, StrainSets, Within, Box
    <2> HIDE DEF Y2, R3a, R3b, b2, bh, bd, bq, P
    <2> QED BY <1>1, <1>2, <1>4, <2>2, <2>3, <2>5, <2>6, FitsLoopOfTwo
  <1>9. Gives(T, Y3, <<s4>>, T, Y4)
    <2>1. /\ Good(T, Y3, bq, {"dvdx_bt", "dudy_bt", "corner"}, Box(0, 0, 0, 0), Box(0, 1, 0, 1))
      BY <1>1, <1>2, <1>4 DEF Good, Near, Even, StrainClaims, StrainInputs, StrainSets, Within, Plus, Box, Margins
    <2>2. ReadsFit(T, Y3, bq, R4, Box(0, 1, 0, 1))
      <3>1. /\ ReadsFit(T, Y3, bq, At({"dvdx_bt", "dudy_bt", "corner"}, Here), Box(0, 1, 0, 1))
        BY <2>1, OffsetsSpan, FitsAt
      <3> QED BY <3>1, FitsBoth
    <2>3. Into(T, bq, {"sh_xy_bt"}, Box(0, 1, 0, 1))
      BY <1>1, <1>2 DEF Into, StrainClaims, StrainSets, Within, Box
    <2> HIDE DEF Y3, R4, b2, bh, bd, bq, P
    <2> QED BY <1>1, <1>2, <1>4, <2>2, <2>3, FitsLoop
  <1>10. Gives(T, Y4, <<s5>>, T, Y5)
    <2>1. /\ Good(T, Y4, b2, {"h"}, Box(0, 0, 0, 0), Box(0, 0, 0, 0))
      BY <1>1, <1>2, <1>4 DEF Good, Near, Even, StrainClaims, StrainInputs, StrainSets, Within, Plus, Box, Margins
    <2>2. ReadsFit(T, Y4, b2, R5, Box(0, 0, 0, 0))
      <3>1. /\ ReadsFit(T, Y4, b2, At({"h"}, Here), Box(0, 0, 0, 0))
        BY <2>1, OffsetsSpan, FitsAt
      <3> QED BY <3>1, FitsBoth
    <2>3. Into(T, b2, {"htot"}, Box(0, 0, 0, 0))
      BY <1>1, <1>2 DEF Into, StrainClaims, StrainSets, Within, Box
    <2> HIDE DEF Y4, R5, b2, bh, bd, bq, P
    <2> QED BY <1>1, <1>2, <1>4, <2>2, <2>3, FitsLoop
  <1>11. Gives(T, Y5, <<s6>>, T, Y6)
    <2>1. /\ Good(T, Y5, bh, {"face_u"}, Box(1, 0, 0, 0), Box(1, 1, 1, 1))
          /\ Good(T, Y5, bh, {"face_v"}, Box(0, 0, 1, 0), Box(1, 1, 1, 1))
          /\ Good(T, Y5, bh, {"dvdx_bt", "dudy_bt"}, Box(1, 0, 1, 0), Box(1, 1, 1, 1))
          /\ Good(T, Y5, bh, {"dudx_bt", "dvdy_bt", "htot", "cell"}, Box(0, 0, 0, 0), Box(1, 1, 1, 1))
      BY <1>1, <1>2, <1>4 DEF Good, Near, Even, StrainClaims, StrainInputs, StrainSets, Within, Plus, Box, Margins
    <2>2. ReadsFit(T, Y5, bh, R6, Box(1, 1, 1, 1))
      <3>1. /\ ReadsFit(T, Y5, bh, At({"face_u"}, Here \cup West), Box(1, 1, 1, 1))
            /\ ReadsFit(T, Y5, bh, At({"face_v"}, Here \cup South), Box(1, 1, 1, 1))
            /\ ReadsFit(T, Y5, bh, At({"dvdx_bt", "dudy_bt"}, CornersAround), Box(1, 1, 1, 1))
            /\ ReadsFit(T, Y5, bh, At({"dudx_bt", "dvdy_bt", "htot", "cell"}, Here), Box(1, 1, 1, 1))
        BY <2>1, OffsetsSpan, FitsAt
      <3> QED BY <3>1, FitsBoth
    <2>3. Into(T, bh, {"GME_effic_h"}, Box(1, 1, 1, 1))
      BY <1>1, <1>2 DEF Into, StrainClaims, StrainSets, Within, Box
    <2> HIDE DEF Y5, R6, b2, bh, bd, bq, P
    <2> QED BY <1>1, <1>2, <1>4, <2>2, <2>3, FitsLoop
  <1>12. Gives(T, Y6, <<s7>>, T, Y7)
    <2>1. /\ Good(T, Y6, bq, {"face_u"}, Box(0, 0, 0, 1), Box(1, 1, 1, 1))
          /\ Good(T, Y6, bq, {"face_v"}, Box(0, 1, 0, 0), Box(1, 1, 1, 1))
          /\ Good(T, Y6, bq, {"dudx_bt", "dvdy_bt", "htot"}, Box(0, 1, 0, 1), Box(1, 1, 1, 1))
          /\ Good(T, Y6, bq, {"dvdx_bt", "dudy_bt", "corner"}, Box(0, 0, 0, 0), Box(1, 1, 1, 1))
      BY <1>1, <1>2, <1>4 DEF Good, Near, Even, StrainClaims, StrainInputs, StrainSets, Within, Plus, Box, Margins
    <2>2. ReadsFit(T, Y6, bq, R7, Box(1, 1, 1, 1))
      <3>1. /\ ReadsFit(T, Y6, bq, At({"face_u"}, Here \cup North), Box(1, 1, 1, 1))
            /\ ReadsFit(T, Y6, bq, At({"face_v"}, Here \cup East), Box(1, 1, 1, 1))
            /\ ReadsFit(T, Y6, bq, At({"dudx_bt", "dvdy_bt", "htot"}, CellsAround), Box(1, 1, 1, 1))
            /\ ReadsFit(T, Y6, bq, At({"dvdx_bt", "dudy_bt", "corner"}, Here), Box(1, 1, 1, 1))
        BY <2>1, OffsetsSpan, FitsAt
      <3> QED BY <3>1, FitsBoth
    <2>3. Into(T, bq, {"GME_effic_q"}, Box(1, 1, 1, 1))
      BY <1>1, <1>2 DEF Into, StrainClaims, StrainSets, Within, Box
    <2> HIDE DEF Y6, R7, b2, bh, bd, bq, P
    <2> QED BY <1>1, <1>2, <1>4, <2>2, <2>3, FitsLoop
  <1> HIDE DEF s0, s1, s2, s3, s4, s5, s6, s7, Y0, Y1, Y2, Y3, Y4, Y5, Y6, Y7
  <1>13. Gives(T, Y0, <<s0, s1, s2, s3>>, T, Y3) /\ Gives(T, Y3, <<s4, s5, s6, s7>>, T, Y7)
    BY <1>5, <1>6, <1>7, <1>8, <1>9, <1>10, <1>11, <1>12, FourStepsGive
  <1>14. Gives(T, Y0, <<s0, s1, s2, s3>> \o <<s4, s5, s6, s7>>, T, Y7)
    BY <1>13, ThenGives
  <1>15. hor_visc_gme_bt(cfg) = <<s0, s1, s2, s3>> \o <<s4, s5, s6, s7>>
    BY <1>3, JoinedFours
  <1> QED BY <1>4, <1>14, <1>15 DEF Y0

-----------------------------------------------------------------------------
\* The strains of the barotropic velocities and the efficiencies are promised.
LEMMA StrainPromise ==
    ASSUME NEW c, CallOK(c), WideEnough(c), c.kernel = "hor_visc_gme_bt"
    PROVE  Promise(c)
  <1> DEFINE cfg == c.cfg
             H == c.cfg.halo
             Z == StrainInputs
             Y == StrainInputs \cup StrainSets
             O == {"dudx_bt", "dvdy_bt", "dvdx_bt", "dudy_bt", "sh_xx_bt", "sh_xy_bt", "GME_effic_h", "GME_effic_q"}
             q == {"dvdx_bt", "dudy_bt", "sh_xy_bt", "GME_effic_q"}
  <1>1. Reach(c) = 1 /\ H \in Nat /\ 3 <= H /\ cfg.symmetric \in BOOLEAN
    BY DEF Reach, ContinuityKernels, CallOK, WideEnough
  <1>2. PICK k \in {0, 1} : bxQ(cfg) = Box(k, 0, k, 0)
    BY <1>1, FaceBoxes
  <1> DEFINE T == StrainTable(k)
  <1>3. Even(T, StrainInputs) /\ DOMAIN T = StrainInputs \cup StrainSets /\ StrainClaims(T, k)
    BY StrainTableHolds
  <1>4. Results(c) = O /\ Outputs(c) = O /\ KeptApart(c) = {} /\ StrainInputs \subseteq Passed(c)
    <2>1. Results(c) = O
      BY DEF Results
    <2>2. Updated(c) = {}
      BY DEF Updated
    <2>3. KeptApart(c) = {}
      BY DEF KeptApart
    <2>4. Passed(c) = hor_visc_gme_bt_passed
      BY DEF Passed
    <2>5. StrainInputs \subseteq hor_visc_gme_bt_passed
      BY DEF hor_visc_gme_bt_passed, hor_visc_gme_bt_returned, Metrics, StrainInputs
    <2> QED BY <2>1, <2>2, <2>3, <2>4, <2>5 DEF Outputs
  <1>5. /\ \A a \in q : Required(a, c) = Box(2, 1, 2, 1)
        /\ \A a \in O \ q : Required(a, c) = Box(k + 1, 2, k + 1, 2)
    <2>1. \A a : Required(a, c) = IF a \in AtCorners THEN bxQshear ELSE bxHgrad(cfg)
      BY DEF Required, ContinuityKernels
    <2>2. q \subseteq AtCorners /\ (O \ q) \cap AtCorners = {}
      BY DEF AtCorners, QDiagnostics, LimitsAtQ
    <2>3. bxQshear = Box(2, 1, 2, 1) /\ bxHgrad(cfg) = Box(k + 1, 2, k + 1, 2)
      BY <1>2 DEF bxQshear, bxHgrad, grow_by, bx0, Box
    <2> QED BY <2>1, <2>2, <2>3
  <1> HIDE DEF T
  <1>6. Begins(c, T, Z)
    <2>1. DataBox(cfg) = Box(H, H, H, H)
      BY <1>1, DataBoxIs
    <2>2. Within(Box(3, 3, 3, 3), Box(H, H, H, H)) /\ Within(Box(0, 0, 0, 0), Box(0, 0, 0, 0))
      BY <1>1 DEF Within, Box
    <2>3. \A a \in Z : /\ T[a].box = Box(3, 3, 3, 3) /\ T[a].from = Box(0, 0, 0, 0)
                       /\ BoxClaim(T[a]) /\ T[a].of = StrainInputs
      BY <1>3 DEF StrainClaims, Even, Table, BoxClaim
    <2>4. \A a \in Z : /\ a \in Passed(c)
                       /\ BoxClaim(T[a]) /\ Within(T[a].box, DataBox(c.cfg))
                       /\ Within(Box(0, 0, 0, 0), T[a].from) /\ a \in T[a].of
      BY <1>4, <2>1, <2>2, <2>3
    <2> QED BY <1>1, <2>4, BeginsInside
  <1>7. Gives(T, Z, KernelOf(c), T, Y)
    <2>1. KernelOf(c) = hor_visc_gme_bt(cfg)
      BY DEF KernelOf
    <2>2. Gives(T, Z, hor_visc_gme_bt(cfg), T, Y)
      BY <1>2, StrainGives DEF T
    <2> QED BY <2>1, <2>2
  <1>8. Ends(c, T, Y)
    <2> SUFFICES ASSUME NEW a \in O PROVE a \in Y /\ EndsWell(c, a, T[a])
      BY <1>4 DEF Ends
    <2>1. a \in Y /\ a \in StrainSets /\ StrainInputs \cap O = {}
      BY DEF StrainSets, StrainInputs
    <2>2. BoxClaim(T[a]) /\ T[a].of = StrainInputs
      BY <1>3, <2>1 DEF Even, Table, BoxClaim
    <2>3. Within(T[a].from, Box(1, 1, 1, 1))
      BY <1>3, <2>1 DEF StrainClaims, StrainSets, Within, Box
    <2>4. Within(Required(a, c), T[a].box)
      <3>1. CASE a \in q
        <4>1. T[a].box = Box(2, 1, 2, 1) \/ T[a].box = Box(k + 2, 2, k + 2, 2)
          BY <1>3, <3>1 DEF StrainClaims
        <4> QED BY <1>5, <3>1, <4>1 DEF Within, Box
      <3>2. CASE a \in O \ q
        <4>1. T[a].box = Box(2, 2, 2, 2) \/ T[a].box = Box(k + 1, 2, k + 1, 2)
          BY <1>3, <3>2 DEF StrainClaims
        <4> QED BY <1>5, <3>2, <4>1 DEF Within, Box
      <3> QED BY <3>1, <3>2
    <2> QED BY <1>1, <1>4, <2>1, <2>2, <2>3, <2>4 DEF EndsWell
  <1> HIDE DEF Z, Y
  <1> QED BY <1>6, <1>7, <1>8 DEF Promise

-----------------------------------------------------------------------------
\* The Coriolis and momentum advection terms

\* A body that, run over a box, sets some arrays to what T claims of them once the arrays
\* N are as T claims
Bears(T, N, box, A, R) == box \in Margins /\ \E f : ReadsFit(T, N, box, R, f) /\ Into(T, box, A, f)

\* Fewer reads, and more arrays to read, fit as well.
LEMMA FitsMore ==
    /\ \A T, Z, N, box, R, f : ReadsFit(T, N, box, R, f) /\ N \subseteq Z => ReadsFit(T, Z, box, R, f)
    /\ \A T, Z, N, box, R, S, f : ReadsFit(T, N, box, R, f) /\ ReadsFit(T, Z, box, S, f) => ReadsFit(T, N \cup Z, box, R \cup S, f)
  BY DEF ReadsFit

\* What is good of arrays is good of some of them.
LEMMA GoodOfLess ==
    \A T, Z, box, X, Y, s, f : Good(T, Z, box, Y, s, f) /\ X \subseteq Y => Good(T, Z, box, X, s, f)
  BY DEF Good

\* Loops with one such body, with two, and under a condition.
LEMMA BodyGives ==
    ASSUME NEW T, NEW P, Even(T, P), NEW Z, Z \subseteq DOMAIN T, NEW N, N \subseteq Z, NEW box, NEW A, NEW R,
           Bears(T, N, box, A, R)
    PROVE  Gives(T, Z, <<Loop(box, {Set(A, R)})>>, T, Z \cup A)
  <1>1. PICK f : box \in Margins /\ ReadsFit(T, N, box, R, f) /\ Into(T, box, A, f)
    BY DEF Bears
  <1>2. ReadsFit(T, Z, box, R, f)
    BY <1>1, FitsMore
  <1> QED BY <1>1, <1>2, FitsLoop

LEMMA BodiesGive ==
    ASSUME NEW T, NEW P, Even(T, P), NEW Z, Z \subseteq DOMAIN T, NEW N, N \subseteq Z, NEW M, M \subseteq Z, NEW box,
           NEW A, NEW R, Bears(T, N, box, A, R), NEW B, NEW S, Bears(T, M, box, B, S)
    PROVE  Gives(T, Z, <<Loop(box, {Set(A, R), Set(B, S)})>>, T, Z \cup A \cup B)
  <1>1. PICK f : box \in Margins /\ ReadsFit(T, N, box, R, f) /\ Into(T, box, A, f)
    BY DEF Bears
  <1>2. PICK g : ReadsFit(T, M, box, S, g) /\ Into(T, box, B, g)
    BY DEF Bears
  <1>3. ReadsFit(T, Z, box, R, f) /\ ReadsFit(T, Z, box, S, g)
    BY <1>1, <1>2, FitsMore
  <1> QED BY <1>1, <1>2, <1>3, FitsLoopOfTwo

LEMMA ConditionGives ==
    ASSUME NEW T, NEW P, Even(T, P), NEW Z, Z \subseteq DOMAIN T, NEW condition \in BOOLEAN, NEW N, condition => N \subseteq Z,
           NEW box, NEW a, NEW R, condition => Bears(T, N, box, {a}, R)
    PROVE  Gives(T, Z, Sets(condition, box, a, R), T, Z \cup When(condition, {a}))
  <1>1. CASE condition
    <2>1. Gives(T, Z, <<Loop(box, {Set({a}, R)})>>, T, Z \cup {a})
      BY <1>1, BodyGives
    <2> QED BY <1>1, <2>1 DEF Sets, When
  <1>2. CASE ~condition
    <2>1. Follows(T, Z, T, Z) /\ Z \cup {} = Z
      BY DEF Follows
    <2> QED BY <1>2, <2>1, NoStepGives DEF Sets, When
  <1> QED BY <1>1, <1>2

\* The same claim of each of some arrays
Has(T, A, box, from) == \A a \in A : a \in DOMAIN T /\ T[a].box = box /\ T[a].from = from

\* What a scheme of reach r has to be given, with k faces more on one side, and with the
\* vorticity m corners out
CoriolisInputs == {"u", "v", "h", "uh", "vh"} \cup Metrics
CoriolisClaims(T, k, m, r) ==
    /\ Has(T, {"u", "face_u"}, Box(r + k, r, r, r), Box(0, 0, 0, 0))
    /\ Has(T, {"v", "face_v"}, Box(r, r, r + k, r), Box(0, 0, 0, 0))
    /\ Has(T, {"h", "uh", "vh", "cell", "corner"}, Box(r, r, r, r), Box(0, 0, 0, 0))
    /\ Has(T, {"CAu", "gradKEu", "rv_x_v"}, Box(k, 0, 0, 0), Box(r, r, r, r))
    /\ Has(T, {"CAv", "gradKEv", "rv_x_u"}, Box(0, 0, k, 0), Box(r, r, r, r))
VorticityClaims(T, k, m, r) ==
    /\ Has(T, {"Area_h"}, Box(m, r, m, r), Box(0, 0, 0, 0))
    /\ Has(T, {"hArea_v"}, Box(m, r, m, r - 1), Box(0, 0, 0, 1))
    /\ Has(T, {"hArea_u"}, Box(m, r - 1, m, r), Box(0, 1, 0, 0))
    /\ Has(T, {"dvdx"}, Box(m, r - 1, m, r - 1), Box(0, 1, 0, 0))
    /\ Has(T, {"dudy"}, Box(m, r - 1, m, r - 1), Box(0, 0, 0, 1))
    /\ Has(T, {"Area_q", "rel_vort", "abs_vort", "Ih_q", "q", "h_q"}, Box(m, r - 1, m, r - 1), Box(0, 1, 0, 1))
    /\ Has(T, {"RV", "PV", "q2"}, Box(k + 1, 1, k + 1, 1), Box(0, 1, 0, 1))
TransportClaims(T, k) ==
    /\ Has(T, {"uh_center", "uh_min", "uh_max"}, Box(1, 0, k, 1), Box(0, 1, 0, 0))
    /\ Has(T, {"vh_center", "vh_min", "vh_max"}, Box(k, 1, 1, 0), Box(0, 0, 0, 1))
EnergyClaims(T, k) ==
    /\ Has(T, {"KE"}, Box(k, 1, k, 1), Box(2, 1, 2, 1))
    /\ Has(T, {"KEx"}, Box(k, 0, 0, 0), Box(2, 2, 2, 1))
    /\ Has(T, {"KEy"}, Box(0, 0, k, 0), Box(2, 1, 2, 2))
ArakawaClaims(T, k) ==
    /\ Has(T, {"a", "d"}, Box(1, 0, k, 1), Box(0, 2, 1, 1))
    /\ Has(T, {"b", "c"}, Box(k, 0, k, 1), Box(1, 1, 1, 1))
    /\ Has(T, {"ep_u", "ep_v"}, Box(k, 1, k, 1), Box(1, 1, 1, 1))

\* The boxes of a call, in these numbers
CoriolisBoxes(cfg, k, m, r) ==
    /\ bxU(cfg) = Box(k, 0, 0, 0) /\ bxV(cfg) = Box(0, 0, k, 0)
    /\ bxQs(cfg) = Box(m, r - 1, m, r - 1)
    /\ GrowHiX(bxQs(cfg)) = Box(m, r, m, r - 1) /\ GrowHiY(bxQs(cfg)) = Box(m, r - 1, m, r)
    /\ GrowHiX(GrowHiY(bxQs(cfg))) = Box(m, r, m, r)
    /\ bxVx(cfg) = Box(1, 0, k, 1) /\ bxUx(cfg) = Box(k, 1, 1, 0)
    /\ bxQ_pij(cfg) = Box(k, 1, k, 1) /\ ReadAt(bxQ_pij(cfg), <<-1, 0>>) = Box(k + 1, 0, k, 1)
    /\ GrowHiY(bxQ(cfg)) = Box(k, 0, k, 1)
    /\ GrowX(GrowY(bxQ(cfg), 1), 1) = Box(k + 1, 1, k + 1, 1)

CoriolisNumbers(k, m, r) == k \in {0, 1} /\ m \in Nat /\ r \in {2, 3, 4} /\ k + 1 <= m /\ m <= r

\* All of it
CoriolisOf(T, cfg, k, m, r) ==
    /\ CoriolisNumbers(k, m, r) /\ CoriolisBoxes(cfg, k, m, r) /\ Even(T, CoriolisInputs)
    /\ CoriolisClaims(T, k, m, r) /\ VorticityClaims(T, k, m, r) /\ TransportClaims(T, k) /\ EnergyClaims(T, k)
    /\ ArakawaClaims(T, k)
    /\ \A option \in {"up3", "En_Dis", "bound", "smooth"} : cfg[option] \in BOOLEAN

-----------------------------------------------------------------------------
\* The boxes of a call.
LEMMA CoriolisBoxesHold ==
    ASSUME NEW cfg, cfg.symmetric \in BOOLEAN, cfg.scheme \in CoriolisSchemes
    PROVE  \E k, m : CoriolisNumbers(k, m, coriolis_scheme_stencil(cfg.scheme))
                     /\ CoriolisBoxes(cfg, k, m, coriolis_scheme_stencil(cfg.scheme)) /\ bxQ(cfg) = Box(k, 0, k, 0)
                     /\ (cfg.scheme \in WenoSchemes => m = coriolis_scheme_stencil(cfg.scheme))
  <1> DEFINE r == coriolis_scheme_stencil(cfg.scheme)
  <1>1. PICK k \in {0, 1} : bxU(cfg) = Box(k, 0, 0, 0) /\ bxV(cfg) = Box(0, 0, k, 0) /\ bxQ(cfg) = Box(k, 0, k, 0)
    BY FaceBoxes
  <1>2. r \in {2, 3, 4} /\ (cfg.scheme \notin WenoSchemes => r = 2)
    BY DEF coriolis_scheme_stencil, WenoSchemes
  <1> DEFINE m == IF cfg.scheme \in WenoSchemes THEN r ELSE k + 1
  <1>3. CoriolisNumbers(k, m, r)
    BY <1>2 DEF CoriolisNumbers
  <1>12. cfg.scheme \in WenoSchemes => m = r
    OBVIOUS
  <1>4. GrowX(GrowY(bxQ(cfg), 1), 1) = Box(k + 1, 1, k + 1, 1)
    <2>1. GrowY(Box(k, 0, k, 0), 1) = Box(k, 0, k + 1, 1)
      BY GrowYBox
    <2>2. GrowX(Box(k, 0, k + 1, 1), 1) = Box(k + 1, 1, k + 1, 1)
      BY GrowXBox
    <2> QED BY <1>1, <2>1, <2>2
  <1>5. bxQs(cfg) = Box(m, r - 1, m, r - 1)
    <2>1. bxQs(cfg) = IF cfg.scheme \in WenoSchemes THEN [w |-> r, e |-> r - 1, s |-> r, n |-> r - 1]
                      ELSE GrowX(GrowY(bxQ(cfg), 1), 1)
      BY Zenon DEF bxQs
    <2> QED BY <1>2, <1>4, <2>1 DEF Box
  <1> HIDE DEF r, m
  <1>6. m \in Int /\ r \in Int
    BY <1>3 DEF CoriolisNumbers
  <1>7. \A w, e, s, n, x \in Int : /\ x = e + 1 => GrowHiX(Box(w, e, s, n)) = Box(w, x, s, n)
                                   /\ x = n + 1 => GrowHiY(Box(w, e, s, n)) = Box(w, e, s, x)
                                   /\ x = w + 1 => GrowLoX(Box(w, e, s, n)) = Box(x, e, s, n)
                                   /\ x = s + 1 => GrowLoY(Box(w, e, s, n)) = Box(w, e, x, n)
    BY DEF GrowHiX, GrowHiY, GrowLoX, GrowLoY, Box
  <1>8. /\ GrowHiX(bxQs(cfg)) = Box(m, r, m, r - 1) /\ GrowHiY(bxQs(cfg)) = Box(m, r - 1, m, r)
        /\ GrowHiX(GrowHiY(bxQs(cfg))) = Box(m, r, m, r)
    <2>1. r - 1 \in Int /\ r = (r - 1) + 1
      BY <1>6
    <2> QED BY <1>5, <1>6, <1>7, <2>1
  <1>9. bxVx(cfg) = Box(1, 0, k, 1) /\ bxUx(cfg) = Box(k, 1, 1, 0)
    <2>1. /\ GrowHiY(Box(0, 0, k, 0)) = Box(0, 0, k, 1) /\ GrowLoX(Box(0, 0, k, 1)) = Box(1, 0, k, 1)
          /\ GrowHiX(Box(k, 0, 0, 0)) = Box(k, 1, 0, 0) /\ GrowLoY(Box(k, 1, 0, 0)) = Box(k, 1, 1, 0)
      BY <1>7
    <2> QED BY <1>1, <2>1 DEF bxVx, bxUx
  <1>10. bxQ_pij(cfg) = Box(k, 1, k, 1) /\ ReadAt(bxQ_pij(cfg), <<-1, 0>>) = Box(k + 1, 0, k, 1)
         /\ GrowHiY(bxQ(cfg)) = Box(k, 0, k, 1)
    <2>1. GrowHiY(Box(k, 0, k, 0)) = Box(k, 0, k, 1) /\ GrowHiX(Box(k, 0, k, 1)) = Box(k, 1, k, 1)
      BY <1>7
    <2>2. ReadAt(Box(k, 1, k, 1), <<-1, 0>>) = Box(k + 1, 0, k, 1)
      BY DEF ReadAt, Box
    <2> QED BY <1>1, <2>1, <2>2 DEF bxQ_pij
  <1>11. CoriolisBoxes(cfg, k, m, r)
    BY <1>1, <1>4, <1>5, <1>8, <1>9, <1>10 DEF CoriolisBoxes
  <1> QED BY <1>1, <1>3, <1>11, <1>12 DEF r

\* There are such claims.
LEMMA CoriolisTable ==
    ASSUME NEW k, NEW m, NEW r, CoriolisNumbers(k, m, r)
    PROVE  \E T : /\ Even(T, CoriolisInputs) /\ CoriolisClaims(T, k, m, r) /\ VorticityClaims(T, k, m, r)
                  /\ TransportClaims(T, k) /\ EnergyClaims(T, k) /\ ArakawaClaims(T, k)
  <1> DEFINE box(a) ==
                 CASE a \in {"u", "face_u"} -> Box(r + k, r, r, r)
                   [] a \in {"v", "face_v"} -> Box(r, r, r + k, r)
                   [] a \in {"h", "uh", "vh", "cell", "corner"} -> Box(r, r, r, r)
                   [] a \in {"CAu", "gradKEu", "rv_x_v", "KEx"} -> Box(k, 0, 0, 0)
                   [] a \in {"CAv", "gradKEv", "rv_x_u", "KEy"} -> Box(0, 0, k, 0)
                   [] a = "Area_h" -> Box(m, r, m, r)
                   [] a = "hArea_v" -> Box(m, r, m, r - 1)
                   [] a = "hArea_u" -> Box(m, r - 1, m, r)
                   [] a \in {"dvdx", "dudy", "Area_q", "rel_vort", "abs_vort", "Ih_q", "q", "h_q"} -> Box(m, r - 1, m, r - 1)
                   [] a \in {"RV", "PV", "q2"} -> Box(k + 1, 1, k + 1, 1)
                   [] a \in {"uh_center", "uh_min", "uh_max", "a", "d"} -> Box(1, 0, k, 1)
                   [] a \in {"vh_center", "vh_min", "vh_max"} -> Box(k, 1, 1, 0)
                   [] a \in {"b", "c"} -> Box(k, 0, k, 1)
                   [] OTHER -> Box(k, 1, k, 1)
             from(a) ==
                 CASE a \in {"u", "face_u", "v", "face_v", "h", "uh", "vh", "cell", "corner", "Area_h"} -> Box(0, 0, 0, 0)
                   [] a \in {"CAu", "gradKEu", "rv_x_v", "CAv", "gradKEv", "rv_x_u"} -> Box(r, r, r, r)
                   [] a \in {"hArea_v", "dudy", "vh_center", "vh_min", "vh_max"} -> Box(0, 0, 0, 1)
                   [] a \in {"hArea_u", "dvdx", "uh_center", "uh_min", "uh_max"} -> Box(0, 1, 0, 0)
                   [] a = "KE" -> Box(2, 1, 2, 1)
                   [] a = "KEx" -> Box(2, 2, 2, 1)
                   [] a = "KEy" -> Box(2, 1, 2, 2)
                   [] a \in {"a", "d"} -> Box(0, 2, 1, 1)
                   [] a \in {"b", "c", "ep_u", "ep_v"} -> Box(1, 1, 1, 1)
                   [] OTHER -> Box(0, 1, 0, 1)
             A == CoriolisInputs
                  \cup {"CAu", "gradKEu", "rv_x_v", "CAv", "gradKEv", "rv_x_u", "Area_h", "hArea_v", "hArea_u", "dvdx", "dudy",
                        "Area_q", "rel_vort", "abs_vort", "Ih_q", "q", "h_q", "RV", "PV", "q2", "uh_center", "uh_min", "uh_max",
                        "vh_center", "vh_min", "vh_max", "KE", "KEx", "KEy", "a", "b", "c", "d", "ep_u", "ep_v"}
             T == [a \in A |-> Claim(box(a), from(a), CoriolisInputs)]
  <1>1. /\ DOMAIN T = A
        /\ \A a \in A : T[a].box = box(a) /\ T[a].from = from(a) /\ T[a].of = CoriolisInputs
    BY DEF Claim
  <1>2. r \in Int /\ k \in Int /\ m \in Int
    BY DEF CoriolisNumbers
  <1>3. \A a : box(a) \in Margins
    BY <1>2 DEF Box, Margins
  <1>4. \A a : from(a) \in Margins
    BY <1>2 DEF Box, Margins
  <1>6. Even(T, CoriolisInputs)
    <2> HIDE DEF T, box, from
    <2> QED BY <1>1, <1>3, <1>4 DEF Even, Table
  <1> HIDE DEF T
  <1>7. CoriolisClaims(T, k, m, r)
    <2>1. \A a \in {"u", "face_u"} : a \in A /\ box(a) = Box(r + k, r, r, r) /\ from(a) = Box(0, 0, 0, 0)
      BY DEF CoriolisInputs, Metrics
    <2>2. \A a \in {"v", "face_v"} : a \in A /\ box(a) = Box(r, r, r + k, r) /\ from(a) = Box(0, 0, 0, 0)
      BY DEF CoriolisInputs, Metrics
    <2>3. \A a \in {"h", "uh", "vh", "cell", "corner"} : a \in A /\ box(a) = Box(r, r, r, r) /\ from(a) = Box(0, 0, 0, 0)
      BY DEF CoriolisInputs, Metrics
    <2>4. \A a \in {"CAu", "gradKEu", "rv_x_v"} : a \in A /\ box(a) = Box(k, 0, 0, 0) /\ from(a) = Box(r, r, r, r)
      BY DEF CoriolisInputs, Metrics
    <2>5. \A a \in {"CAv", "gradKEv", "rv_x_u"} : a \in A /\ box(a) = Box(0, 0, k, 0) /\ from(a) = Box(r, r, r, r)
      BY DEF CoriolisInputs, Metrics
    <2> HIDE DEF box, from
    <2> QED BY <1>1, <2>1, <2>2, <2>3, <2>4, <2>5 DEF CoriolisClaims, Has
  <1>8. VorticityClaims(T, k, m, r)
    <2>1. \A a \in {"Area_h"} : a \in A /\ box(a) = Box(m, r, m, r) /\ from(a) = Box(0, 0, 0, 0)
      BY DEF CoriolisInputs, Metrics
    <2>2. \A a \in {"hArea_v"} : a \in A /\ box(a) = Box(m, r, m, r - 1) /\ from(a) = Box(0, 0, 0, 1)
      BY DEF CoriolisInputs, Metrics
    <2>3. \A a \in {"hArea_u"} : a \in A /\ box(a) = Box(m, r - 1, m, r) /\ from(a) = Box(0, 1, 0, 0)
      BY DEF CoriolisInputs, Metrics
    <2>4. \A a \in {"dvdx"} : a \in A /\ box(a) = Box(m, r - 1, m, r - 1) /\ from(a) = Box(0, 1, 0, 0)
      BY DEF CoriolisInputs, Metrics
    <2>5. \A a \in {"dudy"} : a \in A /\ box(a) = Box(m, r - 1, m, r - 1) /\ from(a) = Box(0, 0, 0, 1)
      BY DEF CoriolisInputs, Metrics
    <2>6. \A a \in {"Area_q", "rel_vort", "abs_vort", "Ih_q", "q", "h_q"} : a \in A /\ box(a) = Box(m, r - 1, m, r - 1) /\ from(a) = Box(0, 1, 0, 1)
      BY DEF CoriolisInputs, Metrics
    <2>7. \A a \in {"RV", "PV", "q2"} : a \in A /\ box(a) = Box(k + 1, 1, k + 1, 1) /\ from(a) = Box(0, 1, 0, 1)
      BY DEF CoriolisInputs, Metrics
    <2> HIDE DEF box, from
    <2> QED BY <1>1, <2>1, <2>2, <2>3, <2>4, <2>5, <2>6, <2>7 DEF VorticityClaims, Has
  <1>9. TransportClaims(T, k)
    <2>1. \A a \in {"uh_center", "uh_min", "uh_max"} : a \in A /\ box(a) = Box(1, 0, k, 1) /\ from(a) = Box(0, 1, 0, 0)
      BY DEF CoriolisInputs, Metrics
    <2>2. \A a \in {"vh_center", "vh_min", "vh_max"} : a \in A /\ box(a) = Box(k, 1, 1, 0) /\ from(a) = Box(0, 0, 0, 1)
      BY DEF CoriolisInputs, Metrics
    <2> HIDE DEF box, from
    <2> QED BY <1>1, <2>1, <2>2 DEF TransportClaims, Has
  <1>10. EnergyClaims(T, k)
    <2>1. \A a \in {"KE"} : a \in A /\ box(a) = Box(k, 1, k, 1) /\ from(a) = Box(2, 1, 2, 1)
      BY DEF CoriolisInputs, Metrics
    <2>2. \A a \in {"KEx"} : a \in A /\ box(a) = Box(k, 0, 0, 0) /\ from(a) = Box(2, 2, 2, 1)
      BY DEF CoriolisInputs, Metrics
    <2>3. \A a \in {"KEy"} : a \in A /\ box(a) = Box(0, 0, k, 0) /\ from(a) = Box(2, 1, 2, 2)
      BY DEF CoriolisInputs, Metrics
    <2> HIDE DEF box, from
    <2> QED BY <1>1, <2>1, <2>2, <2>3 DEF EnergyClaims, Has
  <1>11. ArakawaClaims(T, k)
    <2>1. \A a \in {"a", "d"} : a \in A /\ box(a) = Box(1, 0, k, 1) /\ from(a) = Box(0, 2, 1, 1)
      BY DEF CoriolisInputs, Metrics
    <2>2. \A a \in {"b", "c"} : a \in A /\ box(a) = Box(k, 0, k, 1) /\ from(a) = Box(1, 1, 1, 1)
      BY DEF CoriolisInputs, Metrics
    <2>3. \A a \in {"ep_u", "ep_v"} : a \in A /\ box(a) = Box(k, 1, k, 1) /\ from(a) = Box(1, 1, 1, 1)
      BY DEF CoriolisInputs, Metrics
    <2> HIDE DEF box, from
    <2> QED BY <1>1, <2>1, <2>2, <2>3 DEF ArakawaClaims, Has
  <1> HIDE DEF box, from
  <1> QED BY <1>6, <1>7, <1>8, <1>9, <1>10, <1>11

-----------------------------------------------------------------------------
\* The offsets that are read.
LEMMA CoriolisSpans ==
    /\ Spans(Here, Box(0, 0, 0, 0))
    /\ Spans(Here \cup West, Box(1, 0, 0, 0)) /\ Spans(Here \cup East, Box(0, 1, 0, 0))
    /\ Spans(Here \cup South, Box(0, 0, 1, 0)) /\ Spans(Here \cup North, Box(0, 0, 0, 1))
    /\ Spans(West, Box(1, 0, 0, 0)) /\ Spans(North, Box(0, 0, 0, 1))
    /\ Spans(West \cup East, Box(1, 1, 0, 0)) /\ Spans(South \cup North, Box(0, 0, 1, 1))
    /\ Spans(AroundU, Box(0, 1, 1, 0)) /\ Spans(AroundV, Box(1, 0, 0, 1)) /\ Spans({<<-1, 1>>}, Box(1, 0, 0, 1))
    /\ Spans({0, 1} \X {0, 1}, Box(0, 1, 0, 1))
    /\ Spans({0, 1} \X {-1, 0}, Box(0, 1, 1, 0)) /\ Spans({-1, 0} \X {-1, 0}, Box(1, 0, 1, 0))
    /\ Spans({0, 1} \X {-1, 0, 1}, Box(0, 1, 1, 1)) /\ Spans({-1, 0, 1} \X {0, 1}, Box(1, 1, 0, 1))
    /\ Spans({<<0, 0>>, <<1, 0>>, <<0, -1>>}, Box(0, 1, 1, 0)) /\ Spans({<<0, 0>>, <<1, -1>>, <<0, -1>>}, Box(0, 1, 1, 0))
    /\ Spans({<<0, 0>>, <<-1, 0>>, <<0, -1>>}, Box(1, 0, 1, 0)) /\ Spans({<<0, 0>>, <<-1, -1>>, <<0, -1>>}, Box(1, 0, 1, 0))
  <1>1. /\ Spans(West, Box(1, 0, 0, 0)) /\ Spans(North, Box(0, 0, 0, 1))
        /\ Spans(West \cup East, Box(1, 1, 0, 0)) /\ Spans(South \cup North, Box(0, 0, 1, 1))
    BY DEF Spans, Margins, Around, Offsets, Box, West, East, North, South
  <1>2. Spans(AroundU, Box(0, 1, 1, 0)) /\ Spans(AroundV, Box(1, 0, 0, 1)) /\ Spans({<<-1, 1>>}, Box(1, 0, 0, 1))
    BY DEF Spans, Margins, Around, Offsets, Box, AroundU, AroundV
  <1>3. /\ Spans({0, 1} \X {0, 1}, Box(0, 1, 0, 1))
        /\ Spans({0, 1} \X {-1, 0}, Box(0, 1, 1, 0)) /\ Spans({-1, 0} \X {-1, 0}, Box(1, 0, 1, 0))
        /\ Spans({0, 1} \X {-1, 0, 1}, Box(0, 1, 1, 1)) /\ Spans({-1, 0, 1} \X {0, 1}, Box(1, 1, 0, 1))
    BY DEF Spans, Margins, Around, Offsets, Box
  <1>4. /\ Spans({<<0, 0>>, <<1, 0>>, <<0, -1>>}, Box(0, 1, 1, 0)) /\ Spans({<<0, 0>>, <<1, -1>>, <<0, -1>>}, Box(0, 1, 1, 0))
        /\ Spans({<<0, 0>>, <<-1, 0>>, <<0, -1>>}, Box(1, 0, 1, 0)) /\ Spans({<<0, 0>>, <<-1, -1>>, <<0, -1>>}, Box(1, 0, 1, 0))
    BY DEF Spans, Margins, Around, Offsets, Box
  <1> QED BY <1>1, <1>2, <1>3, <1>4, OffsetsSpan

\* Three loops in turn; six are two threes.
LEMMA ThreeGive ==
    ASSUME NEW T, NEW Z, NEW a, NEW Y, NEW b, NEW X, NEW d, NEW W,
           Gives(T, Z, <<a>>, T, Y), Gives(T, Y, <<b>>, T, X), Gives(T, X, <<d>>, T, W)
    PROVE  Gives(T, Z, <<a, b, d>>, T, W)
  <1>1. Gives(T, Y, <<b, d>>, T, W)
    BY TwoStepsGive
  <1>2. Gives(T, Z, <<a>> \o <<b, d>>, T, W)
    BY <1>1, ThenGives
  <1> QED BY <1>2, JoinedOneTwo

LEMMA JoinedThrees == \A a, b, c, d, e, f : <<a, b, c>> \o <<d, e, f>> = <<a, b, c, d, e, f>>
  <1> TAKE a, b, c, d, e, f
  <1> DEFINE X == {a, b, c, d, e, f}
             x == <<a, b, c>>
             y == <<d, e, f>>
             z == x \o y
  <1>1. a \in X /\ b \in X /\ c \in X /\ d \in X /\ e \in X /\ f \in X
    OBVIOUS
  <1> HIDE DEF X
  <1>2. /\ x \in Seq(X) /\ Len(x) = 3 /\ x[1] = a /\ x[2] = b /\ x[3] = c
        /\ y \in Seq(X) /\ Len(y) = 3 /\ y[1] = d /\ y[2] = e /\ y[3] = f
    BY <1>1
  <1> HIDE DEF x, y
  <1>3. /\ z \in Seq(X) /\ Len(z) = 6 /\ z[1] = a /\ z[2] = b /\ z[3] = c
        /\ z[4] = d /\ z[5] = e /\ z[6] = f
    BY <1>2 DEF x, y
  <1> HIDE DEF z
  <1>4. z = <<a, b, c, d, e, f>>
    BY <1>3
  <1> QED BY <1>4 DEF x, y, z

-----------------------------------------------------------------------------
\* The arrays that the vorticity is made from, and those it gives
VorticityScratch == {"dvdx", "dudy", "rel_vort", "hArea_u", "hArea_v"}
CoriolisSetup(cfg) ==
    {"dvdx", "dudy", "hArea_v", "hArea_u"} \cup When(cfg.En_Dis, {"uh_center", "vh_center"})
    \cup {"rel_vort", "abs_vort", "Ih_q", "q"} \cup When(cfg.scheme \in WenoSchemes, {"h_q"})
    \cup When("RV" \in cfg.given, {"RV"}) \cup When("PV" \in cfg.given, {"PV"})
    \cup When(cfg.given \cap {"rv_x_u", "rv_x_v"} # {}, {"q2"})

\* The potential vorticity and its ingredients.
LEMMA SetupGives ==
    ASSUME NEW T, NEW cfg, NEW k, NEW m, NEW r, CoriolisOf(T, cfg, k, m, r),
           NEW Z, Z \subseteq DOMAIN T, CoriolisInputs \cup {"Area_h", "Area_q"} \subseteq Z, VorticityScratch \cap Z = {}
    PROVE  Gives(T, Z, coradv_setup(cfg), T, Z \cup CoriolisSetup(cfg))
  <1> DEFINE hAreas == At({"hArea_u"}, Here \cup North) \cup At({"hArea_v"}, Here \cup East)
             N1 == {"face_v", "v"}
             N2 == {"face_u", "u"}
             N3 == {"Area_h", "h"}
             N4 == {"Area_h", "h"}
             N5 == {"face_u", "h", "u"}
             N6 == {"face_v", "h", "v"}
             N7 == {"corner", "dudy", "dvdx"}
             N8 == {"corner", "rel_vort"}
             N9 == {"Area_q", "hArea_u", "hArea_v"}
             N10 == {"Area_q", "abs_vort", "hArea_u", "hArea_v"}
             N11 == {"Area_q", "hArea_u", "hArea_v"}
             N12 == {"rel_vort"}
             N13 == {"q"}
             N14 == {"Ih_q", "rel_vort"}
             R1 == At({"v", "face_v"}, Here \cup East)
             R2 == At({"u", "face_u"}, Here \cup North)
             R3 == At({"Area_h", "h"}, Here \cup North)
             R4 == At({"Area_h", "h"}, Here \cup East)
             R5 == At({"u", "face_u"}, Here) \cup At({"h"}, Here \cup East)
             R6 == At({"v", "face_v"}, Here) \cup At({"h"}, Here \cup North)
             R7 == At({"dvdx", "dudy", "corner"}, Here)
             R8 == At({"rel_vort", "corner"}, Here)
             R9 == hAreas \cup At({"Area_q"}, Here)
             R10 == hAreas \cup At({"Area_q", "abs_vort"}, Here)
             R11 == hAreas \cup At({"Area_q"}, Here)
             R12 == At({"rel_vort"}, Here)
             R13 == At({"q"}, Here)
             R14 == At({"rel_vort", "Ih_q"}, Here)
             c8 == cfg.scheme \in WenoSchemes
             c9 == "RV" \in cfg.given
             c10 == "PV" \in cfg.given
             c11 == cfg.given \cap {"rv_x_u", "rv_x_v"} # {}
             Y1 == Z \cup {"dvdx"} \cup {"dudy"}
             Y2 == Y1 \cup {"hArea_v"}
             Y3 == Y2 \cup {"hArea_u"}
             Y4 == Y3 \cup When(cfg.En_Dis, {"uh_center", "vh_center"})
             Y5 == Y4 \cup {"rel_vort"}
             Y6 == Y5 \cup {"abs_vort"}
             Y7 == Y6 \cup {"Ih_q"} \cup {"q"}
             Y8 == Y7 \cup When(c8, {"h_q"})
             Y9 == Y8 \cup When(c9, {"RV"})
             Y10 == Y9 \cup When(c10, {"PV"})
             Y11 == Y10 \cup When(c11, {"q2"})
             qs == bxQs(cfg)
             gij == GrowX(GrowY(bxQ(cfg), 1), 1)
             x == Scratch(CornerBox(cfg), {"dvdx", "dudy", "rel_vort"})
             y == Scratch(UBox(cfg), {"hArea_u"})
             z == Scratch(VBox(cfg), {"hArea_v"})
             s1 == Loop(qs, {Set({"dvdx"}, R1), Set({"dudy"}, R2)})
             s2 == Loop(GrowHiX(qs), {Set({"hArea_v"}, R3)})
             s3 == Loop(GrowHiY(qs), {Set({"hArea_u"}, R4)})
             s4 == Loop(bxVx(cfg), {Set({"uh_center"}, R5)})
             s5 == Loop(bxUx(cfg), {Set({"vh_center"}, R6)})
             s6 == Loop(qs, {Set({"rel_vort"}, R7)})
             s7 == Loop(qs, {Set({"abs_vort"}, R8)})
             s8 == Loop(qs, {Set({"Ih_q"}, R9), Set({"q"}, R10)})
             p1 == <<x, y, z, s1, s2, s3>>
             p2 == IF cfg.En_Dis THEN <<s4, s5>> ELSE <<>>
             p3 == <<s6, s7, s8>>
             p4 == Sets(c8, qs, "h_q", R11)
             p5 == Sets(c9, gij, "RV", R12)
             p6 == Sets(c10, gij, "PV", R13)
             p7 == Sets(c11, gij, "q2", R14)
  <1>1. /\ k \in {0, 1} /\ m \in Nat /\ r \in {2, 3, 4} /\ k + 1 <= m /\ m <= r /\ Even(T, CoriolisInputs)
        /\ CoriolisClaims(T, k, m, r) /\ VorticityClaims(T, k, m, r) /\ TransportClaims(T, k) /\ EnergyClaims(T, k)
        /\ ArakawaClaims(T, k)
    BY DEF CoriolisOf, CoriolisNumbers
  <1>2. CoriolisBoxes(cfg, k, m, r)
    BY DEF CoriolisOf
  <1>3. /\ Spans(Here, Box(0, 0, 0, 0)) /\ Spans(Here \cup East, Box(0, 1, 0, 0)) /\ Spans(Here \cup North, Box(0, 0, 0, 1))
    BY CoriolisSpans
  <1>4. coradv_setup(cfg) = p1 \o p2 \o p3 \o p4 \o p5 \o p6 \o p7
    BY Zenon DEF coradv_setup, Sets
  <1>5. Bears(T, N1, bxQs(cfg), {"dvdx"}, R1)
    <2>1. /\ Good(T, N1, bxQs(cfg), {"v", "face_v"}, Box(0, 1, 0, 0), Box(0, 1, 0, 0))
      BY <1>1, <1>2 DEF CoriolisBoxes, CoriolisClaims, VorticityClaims, Has, Good, Near, Even, Within, Plus, Box, Margins
    <2>2. /\ ReadsFit(T, N1, bxQs(cfg), At({"v", "face_v"}, Here \cup East), Box(0, 1, 0, 0))
      BY <1>3, <2>1, FitsAt
    <2>4. bxQs(cfg) \in Margins /\ Into(T, bxQs(cfg), {"dvdx"}, Box(0, 1, 0, 0))
      BY <1>1, <1>2 DEF CoriolisBoxes, VorticityClaims, Has, Into, Within, Box, Margins
    <2> QED BY <2>2, <2>4 DEF Bears
  <1>6. Bears(T, N2, bxQs(cfg), {"dudy"}, R2)
    <2>1. /\ Good(T, N2, bxQs(cfg), {"u", "face_u"}, Box(0, 0, 0, 1), Box(0, 0, 0, 1))
      BY <1>1, <1>2 DEF CoriolisBoxes, CoriolisClaims, VorticityClaims, Has, Good, Near, Even, Within, Plus, Box, Margins
    <2>2. /\ ReadsFit(T, N2, bxQs(cfg), At({"u", "face_u"}, Here \cup North), Box(0, 0, 0, 1))
      BY <1>3, <2>1, FitsAt
    <2>4. bxQs(cfg) \in Margins /\ Into(T, bxQs(cfg), {"dudy"}, Box(0, 0, 0, 1))
      BY <1>1, <1>2 DEF CoriolisBoxes, VorticityClaims, Has, Into, Within, Box, Margins
    <2> QED BY <2>2, <2>4 DEF Bears
  <1>7. Bears(T, N3, GrowHiX(bxQs(cfg)), {"hArea_v"}, R3)
    <2>1. /\ Good(T, N3, GrowHiX(bxQs(cfg)), {"Area_h", "h"}, Box(0, 0, 0, 1), Box(0, 0, 0, 1))
      BY <1>1, <1>2 DEF CoriolisBoxes, CoriolisClaims, VorticityClaims, Has, Good, Near, Even, Within, Plus, Box, Margins
    <2>2. /\ ReadsFit(T, N3, GrowHiX(bxQs(cfg)), At({"Area_h", "h"}, Here \cup North), Box(0, 0, 0, 1))
      BY <1>3, <2>1, FitsAt
    <2>4. GrowHiX(bxQs(cfg)) \in Margins /\ Into(T, GrowHiX(bxQs(cfg)), {"hArea_v"}, Box(0, 0, 0, 1))
      BY <1>1, <1>2 DEF CoriolisBoxes, VorticityClaims, Has, Into, Within, Box, Margins
    <2> QED BY <2>2, <2>4 DEF Bears
  <1>8. Bears(T, N4, GrowHiY(bxQs(cfg)), {"hArea_u"}, R4)
    <2>1. /\ Good(T, N4, GrowHiY(bxQs(cfg)), {"Area_h", "h"}, Box(0, 1, 0, 0), Box(0, 1, 0, 0))
      BY <1>1, <1>2 DEF CoriolisBoxes, CoriolisClaims, VorticityClaims, Has, Good, Near, Even, Within, Plus, Box, Margins
    <2>2. /\ ReadsFit(T, N4, GrowHiY(bxQs(cfg)), At({"Area_h", "h"}, Here \cup East), Box(0, 1, 0, 0))
      BY <1>3, <2>1, FitsAt
    <2>4. GrowHiY(bxQs(cfg)) \in Margins /\ Into(T, GrowHiY(bxQs(cfg)), {"hArea_u"}, Box(0, 1, 0, 0))
      BY <1>1, <1>2 DEF CoriolisBoxes, VorticityClaims, Has, Into, Within, Box, Margins
    <2> QED BY <2>2, <2>4 DEF Bears
  <1>9. Bears(T, N5, bxVx(cfg), {"uh_center"}, R5)
    <2>1. /\ Good(T, N5, bxVx(cfg), {"u", "face_u"}, Box(0, 0, 0, 0), Box(0, 1, 0, 0))
          /\ Good(T, N5, bxVx(cfg), {"h"}, Box(0, 1, 0, 0), Box(0, 1, 0, 0))
      BY <1>1, <1>2 DEF CoriolisBoxes, CoriolisClaims, TransportClaims, Has, Good, Near, Even, Within, Plus, Box, Margins
    <2>2. /\ ReadsFit(T, N5, bxVx(cfg), At({"u", "face_u"}, Here), Box(0, 1, 0, 0))
          /\ ReadsFit(T, N5, bxVx(cfg), At({"h"}, Here \cup East), Box(0, 1, 0, 0))
      BY <1>3, <2>1, FitsAt
    <2>3. ReadsFit(T, N5, bxVx(cfg), R5, Box(0, 1, 0, 0))
      BY <2>2, FitsBoth
    <2>4. bxVx(cfg) \in Margins /\ Into(T, bxVx(cfg), {"uh_center"}, Box(0, 1, 0, 0))
      BY <1>1, <1>2 DEF CoriolisBoxes, TransportClaims, Has, Into, Within, Box, Margins
    <2> QED BY <2>3, <2>4 DEF Bears
  <1>10. Bears(T, N6, bxUx(cfg), {"vh_center"}, R6)
    <2>1. /\ Good(T, N6, bxUx(cfg), {"v", "face_v"}, Box(0, 0, 0, 0), Box(0, 0, 0, 1))
          /\ Good(T, N6, bxUx(cfg), {"h"}, Box(0, 0, 0, 1), Box(0, 0, 0, 1))
      BY <1>1, <1>2 DEF CoriolisBoxes, CoriolisClaims, TransportClaims, Has, Good, Near, Even, Within, Plus, Box, Margins
    <2>2. /\ ReadsFit(T, N6, bxUx(cfg), At({"v", "face_v"}, Here), Box(0, 0, 0, 1))
          /\ ReadsFit(T, N6, bxUx(cfg), At({"h"}, Here \cup North), Box(0, 0, 0, 1))
      BY <1>3, <2>1, FitsAt
    <2>3. ReadsFit(T, N6, bxUx(cfg), R6, Box(0, 0, 0, 1))
      BY <2>2, FitsBoth
    <2>4. bxUx(cfg) \in Margins /\ Into(T, bxUx(cfg), {"vh_center"}, Box(0, 0, 0, 1))
      BY <1>1, <1>2 DEF CoriolisBoxes, TransportClaims, Has, Into, Within, Box, Margins
    <2> QED BY <2>3, <2>4 DEF Bears
  <1>11. Bears(T, N7, bxQs(cfg), {"rel_vort"}, R7)
    <2>1. /\ Good(T, N7, bxQs(cfg), {"dvdx", "dudy", "corner"}, Box(0, 0, 0, 0), Box(0, 1, 0, 1))
      BY <1>1, <1>2 DEF CoriolisBoxes, CoriolisClaims, VorticityClaims, Has, Good, Near, Even, Within, Plus, Box, Margins
    <2>2. /\ ReadsFit(T, N7, bxQs(cfg), At({"dvdx", "dudy", "corner"}, Here), Box(0, 1, 0, 1))
      BY <1>3, <2>1, FitsAt
    <2>4. bxQs(cfg) \in Margins /\ Into(T, bxQs(cfg), {"rel_vort"}, Box(0, 1, 0, 1))
      BY <1>1, <1>2 DEF CoriolisBoxes, VorticityClaims, Has, Into, Within, Box, Margins
    <2> QED BY <2>2, <2>4 DEF Bears
  <1>12. Bears(T, N8, bxQs(cfg), {"abs_vort"}, R8)
    <2>1. /\ Good(T, N8, bxQs(cfg), {"rel_vort", "corner"}, Box(0, 0, 0, 0), Box(0, 1, 0, 1))
      BY <1>1, <1>2 DEF CoriolisBoxes, CoriolisClaims, VorticityClaims, Has, Good, Near, Even, Within, Plus, Box, Margins
    <2>2. /\ ReadsFit(T, N8, bxQs(cfg), At({"rel_vort", "corner"}, Here), Box(0, 1, 0, 1))
      BY <1>3, <2>1, FitsAt
    <2>4. bxQs(cfg) \in Margins /\ Into(T, bxQs(cfg), {"abs_vort"}, Box(0, 1, 0, 1))
      BY <1>1, <1>2 DEF CoriolisBoxes, VorticityClaims, Has, Into, Within, Box, Margins
    <2> QED BY <2>2, <2>4 DEF Bears
  <1>13. Bears(T, N9, bxQs(cfg), {"Ih_q"}, R9)
    <2>1. /\ Good(T, N9, bxQs(cfg), {"hArea_u"}, Box(0, 0, 0, 1), Box(0, 1, 0, 1))
          /\ Good(T, N9, bxQs(cfg), {"hArea_v"}, Box(0, 1, 0, 0), Box(0, 1, 0, 1))
          /\ Good(T, N9, bxQs(cfg), {"Area_q"}, Box(0, 0, 0, 0), Box(0, 1, 0, 1))
      BY <1>1, <1>2 DEF CoriolisBoxes, VorticityClaims, Has, Good, Near, Even, Within, Plus, Box, Margins
    <2>2. /\ ReadsFit(T, N9, bxQs(cfg), At({"hArea_u"}, Here \cup North), Box(0, 1, 0, 1))
          /\ ReadsFit(T, N9, bxQs(cfg), At({"hArea_v"}, Here \cup East), Box(0, 1, 0, 1))
          /\ ReadsFit(T, N9, bxQs(cfg), At({"Area_q"}, Here), Box(0, 1, 0, 1))
      BY <1>3, <2>1, FitsAt
    <2>3. ReadsFit(T, N9, bxQs(cfg), R9, Box(0, 1, 0, 1))
      BY <2>2, FitsBoth
    <2>4. bxQs(cfg) \in Margins /\ Into(T, bxQs(cfg), {"Ih_q"}, Box(0, 1, 0, 1))
      BY <1>1, <1>2 DEF CoriolisBoxes, VorticityClaims, Has, Into, Within, Box, Margins
    <2> QED BY <2>3, <2>4 DEF Bears
  <1>14. Bears(T, N10, bxQs(cfg), {"q"}, R10)
    <2>1. /\ Good(T, N10, bxQs(cfg), {"hArea_u"}, Box(0, 0, 0, 1), Box(0, 1, 0, 1))
          /\ Good(T, N10, bxQs(cfg), {"hArea_v"}, Box(0, 1, 0, 0), Box(0, 1, 0, 1))
          /\ Good(T, N10, bxQs(cfg), {"Area_q", "abs_vort"}, Box(0, 0, 0, 0), Box(0, 1, 0, 1))
      BY <1>1, <1>2 DEF CoriolisBoxes, VorticityClaims, Has, Good, Near, Even, Within, Plus, Box, Margins
    <2>2. /\ ReadsFit(T, N10, bxQs(cfg), At({"hArea_u"}, Here \cup North), Box(0, 1, 0, 1))
          /\ ReadsFit(T, N10, bxQs(cfg), At({"hArea_v"}, Here \cup East), Box(0, 1, 0, 1))
          /\ ReadsFit(T, N10, bxQs(cfg), At({"Area_q", "abs_vort"}, Here), Box(0, 1, 0, 1))
      BY <1>3, <2>1, FitsAt
    <2>3. ReadsFit(T, N10, bxQs(cfg), R10, Box(0, 1, 0, 1))
      BY <2>2, FitsBoth
    <2>4. bxQs(cfg) \in Margins /\ Into(T, bxQs(cfg), {"q"}, Box(0, 1, 0, 1))
      BY <1>1, <1>2 DEF CoriolisBoxes, VorticityClaims, Has, Into, Within, Box, Margins
    <2> QED BY <2>3, <2>4 DEF Bears
  <1>15. Bears(T, N11, bxQs(cfg), {"h_q"}, R11)
    <2>1. /\ Good(T, N11, bxQs(cfg), {"hArea_u"}, Box(0, 0, 0, 1), Box(0, 1, 0, 1))
          /\ Good(T, N11, bxQs(cfg), {"hArea_v"}, Box(0, 1, 0, 0), Box(0, 1, 0, 1))
          /\ Good(T, N11, bxQs(cfg), {"Area_q"}, Box(0, 0, 0, 0), Box(0, 1, 0, 1))
      BY <1>1, <1>2 DEF CoriolisBoxes, VorticityClaims, Has, Good, Near, Even, Within, Plus, Box, Margins
    <2>2. /\ ReadsFit(T, N11, bxQs(cfg), At({"hArea_u"}, Here \cup North), Box(0, 1, 0, 1))
          /\ ReadsFit(T, N11, bxQs(cfg), At({"hArea_v"}, Here \cup East), Box(0, 1, 0, 1))
          /\ ReadsFit(T, N11, bxQs(cfg), At({"Area_q"}, Here), Box(0, 1, 0, 1))
      BY <1>3, <2>1, FitsAt
    <2>3. ReadsFit(T, N11, bxQs(cfg), R11, Box(0, 1, 0, 1))
      BY <2>2, FitsBoth
    <2>4. bxQs(cfg) \in Margins /\ Into(T, bxQs(cfg), {"h_q"}, Box(0, 1, 0, 1))
      BY <1>1, <1>2 DEF CoriolisBoxes, VorticityClaims, Has, Into, Within, Box, Margins
    <2> QED BY <2>3, <2>4 DEF Bears
  <1>16. Bears(T, N12, GrowX(GrowY(bxQ(cfg), 1), 1), {"RV"}, R12)
    <2>1. /\ Good(T, N12, GrowX(GrowY(bxQ(cfg), 1), 1), {"rel_vort"}, Box(0, 0, 0, 0), Box(0, 1, 0, 1))
      BY <1>1, <1>2 DEF CoriolisBoxes, VorticityClaims, Has, Good, Near, Even, Within, Plus, Box, Margins
    <2>2. /\ ReadsFit(T, N12, GrowX(GrowY(bxQ(cfg), 1), 1), At({"rel_vort"}, Here), Box(0, 1, 0, 1))
      BY <1>3, <2>1, FitsAt
    <2>4. GrowX(GrowY(bxQ(cfg), 1), 1) \in Margins /\ Into(T, GrowX(GrowY(bxQ(cfg), 1), 1), {"RV"}, Box(0, 1, 0, 1))
      BY <1>1, <1>2 DEF CoriolisBoxes, VorticityClaims, Has, Into, Within, Box, Margins
    <2> QED BY <2>2, <2>4 DEF Bears
  <1>17. Bears(T, N13, GrowX(GrowY(bxQ(cfg), 1), 1), {"PV"}, R13)
    <2>1. /\ Good(T, N13, GrowX(GrowY(bxQ(cfg), 1), 1), {"q"}, Box(0, 0, 0, 0), Box(0, 1, 0, 1))
      BY <1>1, <1>2 DEF CoriolisBoxes, VorticityClaims, Has, Good, Near, Even, Within, Plus, Box, Margins
    <2>2. /\ ReadsFit(T, N13, GrowX(GrowY(bxQ(cfg), 1), 1), At({"q"}, Here), Box(0, 1, 0, 1))
      BY <1>3, <2>1, FitsAt
    <2>4. GrowX(GrowY(bxQ(cfg), 1), 1) \in Margins /\ Into(T, GrowX(GrowY(bxQ(cfg), 1), 1), {"PV"}, Box(0, 1, 0, 1))
      BY <1>1, <1>2 DEF CoriolisBoxes, VorticityClaims, Has, Into, Within, Box, Margins
    <2> QED BY <2>2, <2>4 DEF Bears
  <1>18. Bears(T, N14, GrowX(GrowY(bxQ(cfg), 1), 1), {"q2"}, R14)
    <2>1. /\ Good(T, N14, GrowX(GrowY(bxQ(cfg), 1), 1), {"rel_vort", "Ih_q"}, Box(0, 0, 0, 0), Box(0, 1, 0, 1))
      BY <1>1, <1>2 DEF CoriolisBoxes, VorticityClaims, Has, Good, Near, Even, Within, Plus, Box, Margins
    <2>2. /\ ReadsFit(T, N14, GrowX(GrowY(bxQ(cfg), 1), 1), At({"rel_vort", "Ih_q"}, Here), Box(0, 1, 0, 1))
      BY <1>3, <2>1, FitsAt
    <2>4. GrowX(GrowY(bxQ(cfg), 1), 1) \in Margins /\ Into(T, GrowX(GrowY(bxQ(cfg), 1), 1), {"q2"}, Box(0, 1, 0, 1))
      BY <1>1, <1>2 DEF CoriolisBoxes, VorticityClaims, Has, Into, Within, Box, Margins
    <2> QED BY <2>2, <2>4 DEF Bears
  <1>19. /\ Y1 \subseteq DOMAIN T /\ Y2 \subseteq DOMAIN T /\ Y3 \subseteq DOMAIN T /\ Y4 \subseteq DOMAIN T
         /\ Y5 \subseteq DOMAIN T /\ Y6 \subseteq DOMAIN T /\ Y7 \subseteq DOMAIN T /\ Y8 \subseteq DOMAIN T
         /\ Y9 \subseteq DOMAIN T /\ Y10 \subseteq DOMAIN T /\ Z \cup {"uh_center"} \subseteq DOMAIN T
    BY <1>1 DEF VorticityClaims, TransportClaims, Has, When
  <1>20. /\ N1 \subseteq Z /\ N2 \subseteq Z /\ N3 \subseteq Y1 /\ N4 \subseteq Y2 /\ N5 \subseteq Z /\ N6 \subseteq Z
         /\ N7 \subseteq Y4 /\ N8 \subseteq Y5 /\ N9 \subseteq Y6 /\ N10 \subseteq Y6 /\ N11 \subseteq Y7 /\ N12 \subseteq Y8
         /\ N13 \subseteq Y9 /\ N14 \subseteq Y10
    BY DEF CoriolisInputs, Metrics
  <1>21. Y11 = Z \cup CoriolisSetup(cfg)
    BY DEF CoriolisSetup
  <1>22. Gives(T, Z, <<x>>, T, Z) /\ Gives(T, Z, <<y>>, T, Z) /\ Gives(T, Z, <<z>>, T, Z)
    <2>1. Z \subseteq Z /\ \A a \in VorticityScratch : a \notin Z
      OBVIOUS
    <2> HIDE DEF x, y, z
    <2>2. Gives(T, Z, <<x>>, T, Z)
      BY <2>1, ScratchGives DEF x, VorticityScratch
    <2>3. Gives(T, Z, <<y>>, T, Z)
      BY <2>1, ScratchGives DEF y, VorticityScratch
    <2>4. Gives(T, Z, <<z>>, T, Z)
      BY <2>1, ScratchGives DEF z, VorticityScratch
    <2> QED BY <2>2, <2>3, <2>4
  <1>23. c8 \in BOOLEAN /\ c9 \in BOOLEAN /\ c10 \in BOOLEAN /\ c11 \in BOOLEAN /\ cfg.En_Dis \in BOOLEAN
    BY DEF CoriolisOf
  <1> HIDE DEF N1, N2, N3, N4, N5, N6, N7, N8, N9, N10, N11, N12, N13, N14, R1, R2, R3, R4, R5, R6, R7, R8, R9, R10, R11, R12, R13, R14, c8, c9, c10, c11, qs, gij, hAreas, Y1, Y2, Y3, Y4, Y5, Y6, Y7, Y8, Y9, Y10, Y11
  <1>24. Gives(T, Z, <<s1>>, T, Y1)
    BY <1>1, <1>19, <1>20, <1>5, <1>6, BodiesGive DEF Y1, qs
  <1>25. Gives(T, Y1, <<s2>>, T, Y2)
    BY <1>1, <1>19, <1>20, <1>7, BodyGives DEF Y2, qs
  <1>26. Gives(T, Y2, <<s3>>, T, Y3)
    BY <1>1, <1>19, <1>20, <1>8, BodyGives DEF Y3, qs
  <1>27. Gives(T, Y3, p2, T, Y4)
    <2>1. CASE cfg.En_Dis
      <3> DEFINE Y == Y3 \cup {"uh_center"}
      <3>1. Y \subseteq DOMAIN T /\ N5 \subseteq Y3 /\ N6 \subseteq Y /\ Y3 \subseteq DOMAIN T
        BY <1>19, <1>20 DEF Y1, Y2, Y3
      <3>2. Gives(T, Y3, <<s4>>, T, Y)
        BY <1>1, <1>9, <3>1, BodyGives
      <3>3. Gives(T, Y, <<s5>>, T, Y \cup {"vh_center"})
        BY <1>1, <1>10, <3>1, BodyGives
      <3>4. Y4 = Y \cup {"vh_center"}
        BY <2>1 DEF Y4, When
      <3> HIDE DEF Y, s4, s5
      <3> QED BY <2>1, <3>2, <3>3, <3>4, TwoStepsGive
    <2>2. CASE ~cfg.En_Dis
      <3>1. Y4 = Y3
        BY <2>2 DEF Y4, When
      <3> QED BY <2>2, <3>1, NoStepGives DEF Follows
    <2> QED BY <1>23, <2>1, <2>2
  <1>28. Gives(T, Y4, <<s6>>, T, Y5)
    BY <1>1, <1>19, <1>20, <1>11, BodyGives DEF Y5, qs
  <1>29. Gives(T, Y5, <<s7>>, T, Y6)
    BY <1>1, <1>19, <1>20, <1>12, BodyGives DEF Y6, qs
  <1>30. Gives(T, Y6, <<s8>>, T, Y7)
    BY <1>1, <1>19, <1>20, <1>13, <1>14, BodiesGive DEF Y7, qs
  <1>31. Gives(T, Y7, p4, T, Y8)
    BY <1>1, <1>19, <1>20, <1>23, <1>15, ConditionGives DEF Y8, qs
  <1>32. Gives(T, Y8, p5, T, Y9)
    BY <1>1, <1>19, <1>20, <1>23, <1>16, ConditionGives DEF Y9, gij
  <1>33. Gives(T, Y9, p6, T, Y10)
    BY <1>1, <1>19, <1>20, <1>23, <1>17, ConditionGives DEF Y10, gij
  <1>34. Gives(T, Y10, p7, T, Y11)
    BY <1>1, <1>19, <1>20, <1>23, <1>18, ConditionGives DEF Y11, gij
  <1> HIDE DEF x, y, z, s1, s2, s3, s4, s5, s6, s7, s8, p2, p4, p5, p6, p7
  <1>35. Gives(T, Z, p1, T, Y3)
    <2>1. Gives(T, Z, <<x, y, z>>, T, Z) /\ Gives(T, Z, <<s1, s2, s3>>, T, Y3)
      BY <1>22, <1>24, <1>25, <1>26, ThreeGive
    <2>2. Gives(T, Z, <<x, y, z>> \o <<s1, s2, s3>>, T, Y3)
      BY <2>1, ThenGives
    <2>3. <<x, y, z>> \o <<s1, s2, s3>> = p1
      BY JoinedThrees
    <2> QED BY <2>2, <2>3
  <1>36. Gives(T, Y4, p3, T, Y7)
    BY <1>28, <1>29, <1>30, ThreeGive
  <1> HIDE DEF p1, p3
  <1>37. Gives(T, Z, p1 \o p2, T, Y4)
    BY <1>35, <1>27, ThenGives
  <1>38. Gives(T, Z, p1 \o p2 \o p3, T, Y7)
    BY <1>37, <1>36, ThenGives
  <1>39. Gives(T, Z, p1 \o p2 \o p3 \o p4, T, Y8)
    BY <1>38, <1>31, ThenGives
  <1>40. Gives(T, Z, p1 \o p2 \o p3 \o p4 \o p5, T, Y9)
    BY <1>39, <1>32, ThenGives
  <1>41. Gives(T, Z, p1 \o p2 \o p3 \o p4 \o p5 \o p6, T, Y10)
    BY <1>40, <1>33, ThenGives
  <1>42. Gives(T, Z, p1 \o p2 \o p3 \o p4 \o p5 \o p6 \o p7, T, Y11)
    BY <1>41, <1>34, ThenGives
  <1> QED BY <1>4, <1>21, <1>42

-----------------------------------------------------------------------------
\* The kinetic energy and its gradient.
LEMMA EnergyGives ==
    ASSUME NEW T, NEW cfg, NEW k, NEW m, NEW r, CoriolisOf(T, cfg, k, m, r),
           NEW Z, Z \subseteq DOMAIN T, CoriolisInputs \subseteq Z
    PROVE  Gives(T, Z, gradke(cfg), T, Z \cup {"KE", "KEx", "KEy"})
  <1> DEFINE us == IF cfg.up3 THEN {-2, -1, 0, 1} \X {0} ELSE {-1, 0} \X {0}
             vs == IF cfg.up3 THEN {0} \X {-2, -1, 0, 1} ELSE {0} \X {-1, 0}
             N1 == {"cell", "face_u", "face_v", "u", "v"}
             N2 == {"KE", "face_u"}
             N3 == {"KE", "face_v"}
             R1 == At({"u", "face_u"}, us) \cup At({"v", "face_v"}, vs) \cup At({"cell"}, Here)
             R2 == At({"KE"}, Here \cup East) \cup At({"face_u"}, Here)
             R3 == At({"KE"}, Here \cup North) \cup At({"face_v"}, Here)
             s1 == Loop(bxQ_pij(cfg), {Set({"KE"}, R1)})
             Y1 == Z \cup {"KE"}
             s2 == Loop(bxU(cfg), {Set({"KEx"}, R2)})
             Y2 == Y1 \cup {"KEx"}
             s3 == Loop(bxV(cfg), {Set({"KEy"}, R3)})
             Y3 == Y2 \cup {"KEy"}
             p1 == <<s1, s2, s3>>
  <1>1. /\ k \in Nat /\ k <= 1 /\ m \in Nat /\ r \in Nat /\ 2 <= r /\ k + 1 <= m /\ m <= r /\ Even(T, CoriolisInputs)
        /\ CoriolisClaims(T, k, m, r) /\ VorticityClaims(T, k, m, r) /\ TransportClaims(T, k) /\ EnergyClaims(T, k)
        /\ ArakawaClaims(T, k)
    BY DEF CoriolisOf, CoriolisNumbers
  <1>2. /\ bxQ_pij(cfg) = Box(k, 1, k, 1)
        /\ bxU(cfg) = Box(k, 0, 0, 0)
        /\ bxV(cfg) = Box(0, 0, k, 0)
    BY DEF CoriolisOf, CoriolisBoxes
  <1>3. /\ Spans(Here, Box(0, 0, 0, 0))
        /\ Spans(Here \cup East, Box(0, 1, 0, 0))
        /\ Spans(Here \cup North, Box(0, 0, 0, 1))
        /\ Spans(us, Box(2, 1, 0, 0))
        /\ Spans(vs, Box(0, 0, 2, 1))
    <2>1. Spans(us, Box(2, 1, 0, 0)) /\ Spans(vs, Box(0, 0, 2, 1))
      BY DEF Spans, Margins, Around, Offsets, Box
    <2> QED BY <2>1, CoriolisSpans
  <1>4. gradke(cfg) = p1
    BY Zenon DEF gradke
  <1>5. Bears(T, N1, bxQ_pij(cfg), {"KE"}, R1)
    <2>1. /\ Good(T, N1, bxQ_pij(cfg), {"u", "face_u"}, Box(2, 1, 0, 0), Box(2, 1, 2, 1))
          /\ Good(T, N1, bxQ_pij(cfg), {"v", "face_v"}, Box(0, 0, 2, 1), Box(2, 1, 2, 1))
          /\ Good(T, N1, bxQ_pij(cfg), {"cell"}, Box(0, 0, 0, 0), Box(2, 1, 2, 1))
      BY <1>1, <1>2 DEF CoriolisClaims, EnergyClaims, Has, Good, Near, Even, Within, Plus, Box, Margins
    <2>2. /\ ReadsFit(T, N1, bxQ_pij(cfg), At({"u", "face_u"}, us), Box(2, 1, 2, 1))
          /\ ReadsFit(T, N1, bxQ_pij(cfg), At({"v", "face_v"}, vs), Box(2, 1, 2, 1))
          /\ ReadsFit(T, N1, bxQ_pij(cfg), At({"cell"}, Here), Box(2, 1, 2, 1))
      BY <1>3, <2>1, FitsAt
    <2>3. ReadsFit(T, N1, bxQ_pij(cfg), R1, Box(2, 1, 2, 1))
      BY <2>2, FitsBoth
    <2>4. bxQ_pij(cfg) \in Margins /\ Into(T, bxQ_pij(cfg), {"KE"}, Box(2, 1, 2, 1))
      BY <1>1, <1>2 DEF EnergyClaims, Has, Into, Within, Box, Margins
    <2> QED BY <2>3, <2>4 DEF Bears
  <1>6. Bears(T, N2, bxU(cfg), {"KEx"}, R2)
    <2>1. /\ Good(T, N2, bxU(cfg), {"KE"}, Box(0, 1, 0, 0), Box(2, 2, 2, 1))
          /\ Good(T, N2, bxU(cfg), {"face_u"}, Box(0, 0, 0, 0), Box(2, 2, 2, 1))
      BY <1>1, <1>2 DEF CoriolisClaims, EnergyClaims, Has, Good, Near, Even, Within, Plus, Box, Margins
    <2>2. /\ ReadsFit(T, N2, bxU(cfg), At({"KE"}, Here \cup East), Box(2, 2, 2, 1))
          /\ ReadsFit(T, N2, bxU(cfg), At({"face_u"}, Here), Box(2, 2, 2, 1))
      BY <1>3, <2>1, FitsAt
    <2>3. ReadsFit(T, N2, bxU(cfg), R2, Box(2, 2, 2, 1))
      BY <2>2, FitsBoth
    <2>4. bxU(cfg) \in Margins /\ Into(T, bxU(cfg), {"KEx"}, Box(2, 2, 2, 1))
      BY <1>1, <1>2 DEF EnergyClaims, Has, Into, Within, Box, Margins
    <2> QED BY <2>3, <2>4 DEF Bears
  <1>7. Bears(T, N3, bxV(cfg), {"KEy"}, R3)
    <2>1. /\ Good(T, N3, bxV(cfg), {"KE"}, Box(0, 0, 0, 1), Box(2, 1, 2, 2))
          /\ Good(T, N3, bxV(cfg), {"face_v"}, Box(0, 0, 0, 0), Box(2, 1, 2, 2))
      BY <1>1, <1>2 DEF CoriolisClaims, EnergyClaims, Has, Good, Near, Even, Within, Plus, Box, Margins
    <2>2. /\ ReadsFit(T, N3, bxV(cfg), At({"KE"}, Here \cup North), Box(2, 1, 2, 2))
          /\ ReadsFit(T, N3, bxV(cfg), At({"face_v"}, Here), Box(2, 1, 2, 2))
      BY <1>3, <2>1, FitsAt
    <2>3. ReadsFit(T, N3, bxV(cfg), R3, Box(2, 1, 2, 2))
      BY <2>2, FitsBoth
    <2>4. bxV(cfg) \in Margins /\ Into(T, bxV(cfg), {"KEy"}, Box(2, 1, 2, 2))
      BY <1>1, <1>2 DEF EnergyClaims, Has, Into, Within, Box, Margins
    <2> QED BY <2>3, <2>4 DEF Bears
  <1>8. Y1 \subseteq DOMAIN T /\ Y2 \subseteq DOMAIN T /\ Y3 \subseteq DOMAIN T
    BY <1>1 DEF EnergyClaims, Has, When
  <1>9. N1 \subseteq Z /\ N2 \subseteq Y1 /\ N3 \subseteq Y2
    BY DEF CoriolisInputs, Metrics, When
  <1>10. Y3 = Z \cup {"KE", "KEx", "KEy"}
    BY DEF When
  <1> HIDE DEF N1, N2, N3, R1, R2, R3, Y1, Y2, Y3, us, vs
  <1>11. Gives(T, Z, <<s1>>, T, Y1)
    BY <1>1, <1>8, <1>9, <1>5, BodyGives DEF Y1
  <1>12. Gives(T, Y1, <<s2>>, T, Y2)
    BY <1>1, <1>8, <1>9, <1>6, BodyGives DEF Y2
  <1>13. Gives(T, Y2, <<s3>>, T, Y3)
    BY <1>1, <1>8, <1>9, <1>7, BodyGives DEF Y3
  <1> HIDE DEF s1, s2, s3
  <1>14. Gives(T, Z, p1, T, Y3)
    BY <1>11, <1>12, <1>13, ThreeGive
  <1> QED BY <1>4, <1>10, <1>14

\* The scheme that takes the transports from the thickness.
LEMMA RobustGives ==
    ASSUME NEW T, NEW cfg, NEW k, NEW m, NEW r, CoriolisOf(T, cfg, k, m, r),
           NEW Z, Z \subseteq DOMAIN T, CoriolisInputs \cup {"abs_vort"} \subseteq Z
    PROVE  Gives(T, Z, coradv_robust_enstro(cfg), T, Z \cup {"CAu", "CAv"})
  <1> DEFINE N1 == {"abs_vort", "face_u", "face_v", "h", "v", "vh"}
             N2 == {"abs_vort", "face_u", "face_v", "h", "u", "uh"}
             R1 == At({"vh", "v", "face_v"}, AroundU) \cup At({"h"}, {0, 1} \X {-1, 0, 1}) \cup At({"abs_vort"}, Here \cup South) \cup At({"face_u"}, Here)
             R2 == At({"uh", "u", "face_u"}, AroundV) \cup At({"h"}, {-1, 0, 1} \X {0, 1}) \cup At({"abs_vort"}, Here \cup West) \cup At({"face_v"}, Here)
             s1 == Loop(bxU(cfg), {Set({"CAu"}, R1)})
             Y1 == Z \cup {"CAu"}
             s2 == Loop(bxV(cfg), {Set({"CAv"}, R2)})
             Y2 == Y1 \cup {"CAv"}
             p1 == <<s1, s2>>
  <1>1. /\ k \in Nat /\ k <= 1 /\ m \in Nat /\ r \in Nat /\ 2 <= r /\ k + 1 <= m /\ m <= r /\ Even(T, CoriolisInputs)
        /\ CoriolisClaims(T, k, m, r) /\ VorticityClaims(T, k, m, r) /\ TransportClaims(T, k) /\ EnergyClaims(T, k)
        /\ ArakawaClaims(T, k)
    BY DEF CoriolisOf, CoriolisNumbers
  <1>2. /\ bxU(cfg) = Box(k, 0, 0, 0)
        /\ bxV(cfg) = Box(0, 0, k, 0)
    BY DEF CoriolisOf, CoriolisBoxes
  <1>3. /\ Spans(Here, Box(0, 0, 0, 0))
        /\ Spans(Here \cup South, Box(0, 0, 1, 0))
        /\ Spans(Here \cup West, Box(1, 0, 0, 0))
        /\ Spans(AroundU, Box(0, 1, 1, 0))
        /\ Spans(AroundV, Box(1, 0, 0, 1))
        /\ Spans({0, 1} \X {-1, 0, 1}, Box(0, 1, 1, 1))
        /\ Spans({-1, 0, 1} \X {0, 1}, Box(1, 1, 0, 1))
    BY CoriolisSpans
  <1>4. coradv_robust_enstro(cfg) = p1
    BY Zenon DEF coradv_robust_enstro
  <1>5. Bears(T, N1, bxU(cfg), {"CAu"}, R1)
    <2>1. /\ Good(T, N1, bxU(cfg), {"vh", "v", "face_v"}, Box(0, 1, 1, 0), Box(r, r, r, r))
          /\ Good(T, N1, bxU(cfg), {"h"}, Box(0, 1, 1, 1), Box(r, r, r, r))
          /\ Good(T, N1, bxU(cfg), {"abs_vort"}, Box(0, 0, 1, 0), Box(r, r, r, r))
          /\ Good(T, N1, bxU(cfg), {"face_u"}, Box(0, 0, 0, 0), Box(r, r, r, r))
      BY <1>1, <1>2 DEF CoriolisClaims, VorticityClaims, Has, Good, Near, Even, Within, Plus, Box, Margins
    <2>2. /\ ReadsFit(T, N1, bxU(cfg), At({"vh", "v", "face_v"}, AroundU), Box(r, r, r, r))
          /\ ReadsFit(T, N1, bxU(cfg), At({"h"}, {0, 1} \X {-1, 0, 1}), Box(r, r, r, r))
          /\ ReadsFit(T, N1, bxU(cfg), At({"abs_vort"}, Here \cup South), Box(r, r, r, r))
          /\ ReadsFit(T, N1, bxU(cfg), At({"face_u"}, Here), Box(r, r, r, r))
      BY <1>3, <2>1, FitsAt
    <2>3. ReadsFit(T, N1, bxU(cfg), R1, Box(r, r, r, r))
      BY <2>2, FitsBoth
    <2>4. bxU(cfg) \in Margins /\ Into(T, bxU(cfg), {"CAu"}, Box(r, r, r, r))
      BY <1>1, <1>2 DEF CoriolisClaims, Has, Into, Within, Box, Margins
    <2> QED BY <2>3, <2>4 DEF Bears
  <1>6. Bears(T, N2, bxV(cfg), {"CAv"}, R2)
    <2>1. /\ Good(T, N2, bxV(cfg), {"uh", "u", "face_u"}, Box(1, 0, 0, 1), Box(r, r, r, r))
          /\ Good(T, N2, bxV(cfg), {"h"}, Box(1, 1, 0, 1), Box(r, r, r, r))
          /\ Good(T, N2, bxV(cfg), {"abs_vort"}, Box(1, 0, 0, 0), Box(r, r, r, r))
          /\ Good(T, N2, bxV(cfg), {"face_v"}, Box(0, 0, 0, 0), Box(r, r, r, r))
      BY <1>1, <1>2 DEF CoriolisClaims, VorticityClaims, Has, Good, Near, Even, Within, Plus, Box, Margins
    <2>2. /\ ReadsFit(T, N2, bxV(cfg), At({"uh", "u", "face_u"}, AroundV), Box(r, r, r, r))
          /\ ReadsFit(T, N2, bxV(cfg), At({"h"}, {-1, 0, 1} \X {0, 1}), Box(r, r, r, r))
          /\ ReadsFit(T, N2, bxV(cfg), At({"abs_vort"}, Here \cup West), Box(r, r, r, r))
          /\ ReadsFit(T, N2, bxV(cfg), At({"face_v"}, Here), Box(r, r, r, r))
      BY <1>3, <2>1, FitsAt
    <2>3. ReadsFit(T, N2, bxV(cfg), R2, Box(r, r, r, r))
      BY <2>2, FitsBoth
    <2>4. bxV(cfg) \in Margins /\ Into(T, bxV(cfg), {"CAv"}, Box(r, r, r, r))
      BY <1>1, <1>2 DEF CoriolisClaims, Has, Into, Within, Box, Margins
    <2> QED BY <2>3, <2>4 DEF Bears
  <1>7. Y1 \subseteq DOMAIN T /\ Y2 \subseteq DOMAIN T
    BY <1>1 DEF CoriolisClaims, Has, When
  <1>8. N1 \subseteq Z /\ N2 \subseteq Y1
    BY DEF CoriolisInputs, Metrics, When
  <1>9. Y2 = Z \cup {"CAu", "CAv"}
    BY DEF When
  <1> HIDE DEF N1, N2, R1, R2, Y1, Y2
  <1>10. Gives(T, Z, <<s1>>, T, Y1)
    BY <1>1, <1>7, <1>8, <1>5, BodyGives DEF Y1
  <1>11. Gives(T, Y1, <<s2>>, T, Y2)
    BY <1>1, <1>7, <1>8, <1>6, BodyGives DEF Y2
  <1> HIDE DEF s1, s2
  <1>12. Gives(T, Z, p1, T, Y2)
    BY <1>10, <1>11, TwoStepsGive
  <1> QED BY <1>4, <1>9, <1>12

-----------------------------------------------------------------------------
\* The weighted schemes, which read as far as their stencil.
LEMMA WenoGives ==
    ASSUME NEW T, NEW cfg, NEW k, NEW m, NEW r, CoriolisOf(T, cfg, k, m, r),
           NEW Z, Z \subseteq DOMAIN T, CoriolisInputs \cup {"q", "abs_vort", "h_q"} \subseteq Z,
           r = coriolis_scheme_stencil(cfg.scheme), m = r
    PROVE  Gives(T, Z, coradv_weno(cfg), T, Z \cup {"CAu", "CAv"})
  <1> DEFINE st == coriolis_scheme_stencil(cfg.scheme)
             along == -st .. st
             upwind == -st .. st - 1
             N1 == {"abs_vort", "face_u", "h_q", "q", "u", "vh"}
             N2 == {"abs_vort", "face_v", "h_q", "q", "uh", "v"}
             R1 == At({"vh"}, AroundU) \cup At({"q"}, Here \cup South) \cup At({"abs_vort", "h_q"}, {0} \X upwind) \cup At({"face_u"} \cup When(cfg.smooth, {"u"}), {0} \X along)
             R2 == At({"uh"}, AroundV) \cup At({"q"}, Here \cup West) \cup At({"abs_vort", "h_q"}, upwind \X {0}) \cup At({"face_v"} \cup When(cfg.smooth, {"v"}), along \X {0})
             s1 == Loop(bxU(cfg), {Set({"CAu"}, R1)})
             Y1 == Z \cup {"CAu"}
             s2 == Loop(bxV(cfg), {Set({"CAv"}, R2)})
             Y2 == Y1 \cup {"CAv"}
             p1 == <<s1, s2>>
  <1>1. /\ k \in Nat /\ k <= 1 /\ m \in Nat /\ r \in Nat /\ 2 <= r /\ k + 1 <= m /\ m <= r /\ Even(T, CoriolisInputs)
        /\ CoriolisClaims(T, k, m, r) /\ VorticityClaims(T, k, m, r) /\ TransportClaims(T, k) /\ EnergyClaims(T, k)
        /\ ArakawaClaims(T, k)
    BY DEF CoriolisOf, CoriolisNumbers
  <1>2. /\ bxU(cfg) = Box(k, 0, 0, 0)
        /\ bxV(cfg) = Box(0, 0, k, 0)
    BY DEF CoriolisOf, CoriolisBoxes
  <1>3. /\ Spans(Here, Box(0, 0, 0, 0))
        /\ Spans(Here \cup South, Box(0, 0, 1, 0))
        /\ Spans(Here \cup West, Box(1, 0, 0, 0))
        /\ Spans(AroundU, Box(0, 1, 1, 0))
        /\ Spans(AroundV, Box(1, 0, 0, 1))
        /\ Spans({0} \X upwind, Box(0, 0, r, r - 1))
        /\ Spans(upwind \X {0}, Box(r, r - 1, 0, 0))
        /\ Spans({0} \X along, Box(0, 0, r, r))
        /\ Spans(along \X {0}, Box(r, r, 0, 0))
    <2>1. st = r
      OBVIOUS
    <2>2. Spans({0} \X upwind, Box(0, 0, r, r - 1)) /\ Spans(upwind \X {0}, Box(r, r - 1, 0, 0))
      BY <1>1, <2>1 DEF Spans, Margins, Around, Offsets, Box
    <2>3. Spans({0} \X along, Box(0, 0, r, r)) /\ Spans(along \X {0}, Box(r, r, 0, 0))
      BY <1>1, <2>1 DEF Spans, Margins, Around, Offsets, Box
    <2> QED BY <2>2, <2>3, CoriolisSpans
  <1>4. coradv_weno(cfg) = p1
    BY Zenon DEF coradv_weno, coriolis_scheme_stencil
  <1>5. Bears(T, N1, bxU(cfg), {"CAu"}, R1)
    <2>1. /\ Good(T, N1, bxU(cfg), {"vh"}, Box(0, 1, 1, 0), Box(r, r, r, r))
          /\ Good(T, N1, bxU(cfg), {"q"}, Box(0, 0, 1, 0), Box(r, r, r, r))
          /\ Good(T, N1, bxU(cfg), {"abs_vort", "h_q"}, Box(0, 0, r, r - 1), Box(r, r, r, r))
      BY <1>1, <1>2 DEF CoriolisClaims, VorticityClaims, Has, Good, Near, Even, Within, Plus, Box, Margins
    <2>5. Good(T, N1, bxU(cfg), {"face_u"} \cup When(cfg.smooth, {"u"}), Box(0, 0, r, r), Box(r, r, r, r))
      <3>1. Good(T, N1, bxU(cfg), {"face_u", "u"}, Box(0, 0, r, r), Box(r, r, r, r))
        BY <1>1, <1>2 DEF CoriolisClaims, Has, Good, Near, Even, Within, Plus, Box, Margins
      <3>2. {"face_u"} \cup When(cfg.smooth, {"u"}) \subseteq {"face_u", "u"}
        BY DEF When
      <3> QED BY <3>1, <3>2, GoodOfLess
    <2>2. /\ ReadsFit(T, N1, bxU(cfg), At({"vh"}, AroundU), Box(r, r, r, r))
          /\ ReadsFit(T, N1, bxU(cfg), At({"q"}, Here \cup South), Box(r, r, r, r))
          /\ ReadsFit(T, N1, bxU(cfg), At({"abs_vort", "h_q"}, {0} \X upwind), Box(r, r, r, r))
          /\ ReadsFit(T, N1, bxU(cfg), At({"face_u"} \cup When(cfg.smooth, {"u"}), {0} \X along), Box(r, r, r, r))
      BY <1>3, <2>1, <2>5, FitsAt
    <2>3. ReadsFit(T, N1, bxU(cfg), R1, Box(r, r, r, r))
      BY <2>2, FitsBoth
    <2>4. bxU(cfg) \in Margins /\ Into(T, bxU(cfg), {"CAu"}, Box(r, r, r, r))
      BY <1>1, <1>2 DEF CoriolisClaims, Has, Into, Within, Box, Margins
    <2> QED BY <2>3, <2>4 DEF Bears
  <1>6. Bears(T, N2, bxV(cfg), {"CAv"}, R2)
    <2>1. /\ Good(T, N2, bxV(cfg), {"uh"}, Box(1, 0, 0, 1), Box(r, r, r, r))
          /\ Good(T, N2, bxV(cfg), {"q"}, Box(1, 0, 0, 0), Box(r, r, r, r))
          /\ Good(T, N2, bxV(cfg), {"abs_vort", "h_q"}, Box(r, r - 1, 0, 0), Box(r, r, r, r))
      BY <1>1, <1>2 DEF CoriolisClaims, VorticityClaims, Has, Good, Near, Even, Within, Plus, Box, Margins
    <2>5. Good(T, N2, bxV(cfg), {"face_v"} \cup When(cfg.smooth, {"v"}), Box(r, r, 0, 0), Box(r, r, r, r))
      <3>1. Good(T, N2, bxV(cfg), {"face_v", "v"}, Box(r, r, 0, 0), Box(r, r, r, r))
        BY <1>1, <1>2 DEF CoriolisClaims, Has, Good, Near, Even, Within, Plus, Box, Margins
      <3>2. {"face_v"} \cup When(cfg.smooth, {"v"}) \subseteq {"face_v", "v"}
        BY DEF When
      <3> QED BY <3>1, <3>2, GoodOfLess
    <2>2. /\ ReadsFit(T, N2, bxV(cfg), At({"uh"}, AroundV), Box(r, r, r, r))
          /\ ReadsFit(T, N2, bxV(cfg), At({"q"}, Here \cup West), Box(r, r, r, r))
          /\ ReadsFit(T, N2, bxV(cfg), At({"abs_vort", "h_q"}, upwind \X {0}), Box(r, r, r, r))
          /\ ReadsFit(T, N2, bxV(cfg), At({"face_v"} \cup When(cfg.smooth, {"v"}), along \X {0}), Box(r, r, r, r))
      BY <1>3, <2>1, <2>5, FitsAt
    <2>3. ReadsFit(T, N2, bxV(cfg), R2, Box(r, r, r, r))
      BY <2>2, FitsBoth
    <2>4. bxV(cfg) \in Margins /\ Into(T, bxV(cfg), {"CAv"}, Box(r, r, r, r))
      BY <1>1, <1>2 DEF CoriolisClaims, Has, Into, Within, Box, Margins
    <2> QED BY <2>3, <2>4 DEF Bears
  <1>7. Y1 \subseteq DOMAIN T /\ Y2 \subseteq DOMAIN T
    BY <1>1 DEF CoriolisClaims, Has, When
  <1>8. N1 \subseteq Z /\ N2 \subseteq Y1
    BY DEF CoriolisInputs, Metrics, When
  <1>9. Y2 = Z \cup {"CAu", "CAv"}
    BY DEF When
  <1> HIDE DEF N1, N2, R1, R2, Y1, Y2, st, along, upwind
  <1>10. Gives(T, Z, <<s1>>, T, Y1)
    BY <1>1, <1>7, <1>8, <1>5, BodyGives DEF Y1
  <1>11. Gives(T, Y1, <<s2>>, T, Y2)
    BY <1>1, <1>7, <1>8, <1>6, BodyGives DEF Y2
  <1> HIDE DEF s1, s2
  <1>12. Gives(T, Z, p1, T, Y2)
    BY <1>10, <1>11, TwoStepsGive
  <1> QED BY <1>4, <1>9, <1>12

\* The two schemes of Sadourny.
LEMMA SadournyGives ==
    ASSUME NEW T, NEW cfg, NEW k, NEW m, NEW r, CoriolisOf(T, cfg, k, m, r),
           NEW Z, Z \subseteq DOMAIN T, CoriolisInputs \cup {"q"} \subseteq Z, {"uh_min", "uh_max", "vh_min", "vh_max"} \cap Z = {},
           cfg.En_Dis => {"uh_center", "vh_center"} \subseteq Z
    PROVE  Gives(T, Z, coradv_sadourny(cfg), T, Z \cup {"CAu", "CAv"} \cup When(cfg.En_Dis, {"uh_min", "uh_max", "vh_min", "vh_max"}))
  <1> DEFINE biased == cfg.En_Dis /\ cfg.scheme = "SADOURNY75_ENERGY"
             N1 == {"face_u", "uh", "uh_center"}
             N2 == {"face_v", "vh", "vh_center"}
             N3 == {"q", "face_u", "u"} \cup (IF biased THEN {"vh_min", "vh_max"} ELSE {"vh"})
             N4 == {"q", "face_v", "v"} \cup (IF biased THEN {"uh_min", "uh_max"} ELSE {"uh"})
             R1 == At({"uh_center", "uh", "face_u"}, Here)
             R2 == At({"vh_center", "vh", "face_v"}, Here)
             R3 == At({"q"}, Here \cup South) \cup At({"face_u"} \cup When(biased, {"u"}), Here) \cup At(IF biased THEN {"vh_min", "vh_max"} ELSE {"vh"}, AroundU)
             R4 == At({"q"}, Here \cup West) \cup At({"face_v"} \cup When(biased, {"v"}), Here) \cup At(IF biased THEN {"uh_min", "uh_max"} ELSE {"uh"}, AroundV)
             s1 == Scratch(DataBox(cfg), {"uh_min", "uh_max", "vh_min", "vh_max"})
             p1 == <<s1>>
             c1 == cfg.En_Dis
             s2 == Loop(bxVx(cfg), {Set({"uh_min", "uh_max"}, R1)})
             s3 == Loop(bxUx(cfg), {Set({"vh_min", "vh_max"}, R2)})
             Y1 == Z \cup When(c1, {"uh_min", "uh_max", "vh_min", "vh_max"})
             p2 == IF c1 THEN <<s2, s3>> ELSE <<>>
             s4 == Loop(bxU(cfg), {Set({"CAu"}, R3)})
             Y2 == Y1 \cup {"CAu"}
             s5 == Loop(bxV(cfg), {Set({"CAv"}, R4)})
             Y3 == Y2 \cup {"CAv"}
             p3 == <<s4, s5>>
  <1>1. /\ k \in Nat /\ k <= 1 /\ m \in Nat /\ r \in Nat /\ 2 <= r /\ k + 1 <= m /\ m <= r /\ Even(T, CoriolisInputs)
        /\ CoriolisClaims(T, k, m, r) /\ VorticityClaims(T, k, m, r) /\ TransportClaims(T, k) /\ EnergyClaims(T, k)
        /\ ArakawaClaims(T, k)
    BY DEF CoriolisOf, CoriolisNumbers
  <1>2. /\ bxVx(cfg) = Box(1, 0, k, 1)
        /\ bxUx(cfg) = Box(k, 1, 1, 0)
        /\ bxU(cfg) = Box(k, 0, 0, 0)
        /\ bxV(cfg) = Box(0, 0, k, 0)
    BY DEF CoriolisOf, CoriolisBoxes
  <1>3. /\ Spans(Here, Box(0, 0, 0, 0))
        /\ Spans(Here \cup South, Box(0, 0, 1, 0))
        /\ Spans(Here \cup West, Box(1, 0, 0, 0))
        /\ Spans(AroundU, Box(0, 1, 1, 0))
        /\ Spans(AroundV, Box(1, 0, 0, 1))
    BY CoriolisSpans
  <1>4. coradv_sadourny(cfg) = p1 \o p2 \o p3
    BY Zenon DEF coradv_sadourny
  <1>5. Bears(T, N1, bxVx(cfg), {"uh_min", "uh_max"}, R1)
    <2>1. /\ Good(T, N1, bxVx(cfg), {"uh_center", "uh", "face_u"}, Box(0, 0, 0, 0), Box(0, 1, 0, 0))
      BY <1>1, <1>2 DEF CoriolisClaims, TransportClaims, Has, Good, Near, Even, Within, Plus, Box, Margins
    <2>2. /\ ReadsFit(T, N1, bxVx(cfg), At({"uh_center", "uh", "face_u"}, Here), Box(0, 1, 0, 0))
      BY <1>3, <2>1, FitsAt
    <2>4. bxVx(cfg) \in Margins /\ Into(T, bxVx(cfg), {"uh_min", "uh_max"}, Box(0, 1, 0, 0))
      BY <1>1, <1>2 DEF TransportClaims, Has, Into, Within, Box, Margins
    <2> QED BY <2>2, <2>4 DEF Bears
  <1>6. Bears(T, N2, bxUx(cfg), {"vh_min", "vh_max"}, R2)
    <2>1. /\ Good(T, N2, bxUx(cfg), {"vh_center", "vh", "face_v"}, Box(0, 0, 0, 0), Box(0, 0, 0, 1))
      BY <1>1, <1>2 DEF CoriolisClaims, TransportClaims, Has, Good, Near, Even, Within, Plus, Box, Margins
    <2>2. /\ ReadsFit(T, N2, bxUx(cfg), At({"vh_center", "vh", "face_v"}, Here), Box(0, 0, 0, 1))
      BY <1>3, <2>1, FitsAt
    <2>4. bxUx(cfg) \in Margins /\ Into(T, bxUx(cfg), {"vh_min", "vh_max"}, Box(0, 0, 0, 1))
      BY <1>1, <1>2 DEF TransportClaims, Has, Into, Within, Box, Margins
    <2> QED BY <2>2, <2>4 DEF Bears
  <1>7. Bears(T, N3, bxU(cfg), {"CAu"}, R3)
    <2>1. /\ Good(T, N3, bxU(cfg), {"q"}, Box(0, 0, 1, 0), Box(r, r, r, r))
      BY <1>1, <1>2 DEF CoriolisClaims, TransportClaims, VorticityClaims, Has, Good, Near, Even, Within, Plus, Box, Margins
    <2>5. Good(T, N3, bxU(cfg), {"face_u"} \cup When(biased, {"u"}), Box(0, 0, 0, 0), Box(r, r, r, r))
      <3>1. Good(T, N3, bxU(cfg), {"face_u", "u"}, Box(0, 0, 0, 0), Box(r, r, r, r))
        BY <1>1, <1>2 DEF CoriolisClaims, Has, Good, Near, Even, Within, Plus, Box, Margins
      <3>2. {"face_u"} \cup When(biased, {"u"}) \subseteq {"face_u", "u"}
        BY DEF When
      <3> QED BY <3>1, <3>2, GoodOfLess
    <2>6. Good(T, N3, bxU(cfg), IF biased THEN {"vh_min", "vh_max"} ELSE {"vh"}, Box(0, 1, 1, 0), Box(r, r, r, r))
      <3>1. CASE biased
        <4>1. Good(T, N3, bxU(cfg), {"vh_min", "vh_max"}, Box(0, 1, 1, 0), Box(r, r, r, r))
          BY <1>1, <1>2, <3>1 DEF CoriolisClaims, TransportClaims, Has, Good, Near, Even, Within, Plus, Box, Margins
        <4> QED BY <3>1, <4>1
      <3>2. CASE ~biased
        <4>1. Good(T, N3, bxU(cfg), {"vh"}, Box(0, 1, 1, 0), Box(r, r, r, r))
          BY <1>1, <1>2, <3>2 DEF CoriolisClaims, TransportClaims, Has, Good, Near, Even, Within, Plus, Box, Margins
        <4> QED BY <3>2, <4>1
      <3> QED BY <3>1, <3>2
    <2>2. /\ ReadsFit(T, N3, bxU(cfg), At({"q"}, Here \cup South), Box(r, r, r, r))
          /\ ReadsFit(T, N3, bxU(cfg), At({"face_u"} \cup When(biased, {"u"}), Here), Box(r, r, r, r))
          /\ ReadsFit(T, N3, bxU(cfg), At(IF biased THEN {"vh_min", "vh_max"} ELSE {"vh"}, AroundU), Box(r, r, r, r))
      BY <1>3, <2>1, <2>5, <2>6, FitsAt
    <2>3. ReadsFit(T, N3, bxU(cfg), R3, Box(r, r, r, r))
      BY <2>2, FitsBoth
    <2>4. bxU(cfg) \in Margins /\ Into(T, bxU(cfg), {"CAu"}, Box(r, r, r, r))
      BY <1>1, <1>2 DEF CoriolisClaims, Has, Into, Within, Box, Margins
    <2> QED BY <2>3, <2>4 DEF Bears
  <1>8. Bears(T, N4, bxV(cfg), {"CAv"}, R4)
    <2>1. /\ Good(T, N4, bxV(cfg), {"q"}, Box(1, 0, 0, 0), Box(r, r, r, r))
      BY <1>1, <1>2 DEF CoriolisClaims, TransportClaims, VorticityClaims, Has, Good, Near, Even, Within, Plus, Box, Margins
    <2>5. Good(T, N4, bxV(cfg), {"face_v"} \cup When(biased, {"v"}), Box(0, 0, 0, 0), Box(r, r, r, r))
      <3>1. Good(T, N4, bxV(cfg), {"face_v", "v"}, Box(0, 0, 0, 0), Box(r, r, r, r))
        BY <1>1, <1>2 DEF CoriolisClaims, Has, Good, Near, Even, Within, Plus, Box, Margins
      <3>2. {"face_v"} \cup When(biased, {"v"}) \subseteq {"face_v", "v"}
        BY DEF When
      <3> QED BY <3>1, <3>2, GoodOfLess
    <2>6. Good(T, N4, bxV(cfg), IF biased THEN {"uh_min", "uh_max"} ELSE {"uh"}, Box(1, 0, 0, 1), Box(r, r, r, r))
      <3>1. CASE biased
        <4>1. Good(T, N4, bxV(cfg), {"uh_min", "uh_max"}, Box(1, 0, 0, 1), Box(r, r, r, r))
          BY <1>1, <1>2, <3>1 DEF CoriolisClaims, TransportClaims, Has, Good, Near, Even, Within, Plus, Box, Margins
        <4> QED BY <3>1, <4>1
      <3>2. CASE ~biased
        <4>1. Good(T, N4, bxV(cfg), {"uh"}, Box(1, 0, 0, 1), Box(r, r, r, r))
          BY <1>1, <1>2, <3>2 DEF CoriolisClaims, TransportClaims, Has, Good, Near, Even, Within, Plus, Box, Margins
        <4> QED BY <3>2, <4>1
      <3> QED BY <3>1, <3>2
    <2>2. /\ ReadsFit(T, N4, bxV(cfg), At({"q"}, Here \cup West), Box(r, r, r, r))
          /\ ReadsFit(T, N4, bxV(cfg), At({"face_v"} \cup When(biased, {"v"}), Here), Box(r, r, r, r))
          /\ ReadsFit(T, N4, bxV(cfg), At(IF biased THEN {"uh_min", "uh_max"} ELSE {"uh"}, AroundV), Box(r, r, r, r))
      BY <1>3, <2>1, <2>5, <2>6, FitsAt
    <2>3. ReadsFit(T, N4, bxV(cfg), R4, Box(r, r, r, r))
      BY <2>2, FitsBoth
    <2>4. bxV(cfg) \in Margins /\ Into(T, bxV(cfg), {"CAv"}, Box(r, r, r, r))
      BY <1>1, <1>2 DEF CoriolisClaims, Has, Into, Within, Box, Margins
    <2> QED BY <2>3, <2>4 DEF Bears
  <1>9. Y1 \subseteq DOMAIN T /\ Y2 \subseteq DOMAIN T /\ Y3 \subseteq DOMAIN T
    BY <1>1 DEF CoriolisClaims, TransportClaims, Has, When
  <1>10. (c1 => N1 \subseteq Z) /\ (c1 => N2 \subseteq Z) /\ N3 \subseteq Y1 /\ N4 \subseteq Y2
    BY DEF CoriolisInputs, Metrics, When
  <1>11. Y3 = Z \cup {"CAu", "CAv"} \cup When(cfg.En_Dis, {"uh_min", "uh_max", "vh_min", "vh_max"})
    BY DEF When
  <1>12. c1 \in BOOLEAN
    BY DEF CoriolisOf
  <1> HIDE DEF N1, N2, N3, N4, R1, R2, R3, R4, c1, Y1, Y2, Y3, biased
  <1>13. Gives(T, Z, p1, T, Z)
    BY ScratchGives
  <1>14. Gives(T, Z, p2, T, Y1)
    <2>1. CASE c1
      <3> DEFINE Y == Z \cup {"uh_min", "uh_max"}
      <3>1. Y \subseteq DOMAIN T /\ Z \subseteq DOMAIN T /\ N1 \subseteq Z /\ N2 \subseteq Y
        BY <1>1, <1>9, <1>10, <2>1 DEF TransportClaims, Has
      <3>2. Gives(T, Z, <<s2>>, T, Y)
        BY <1>1, <1>5, <3>1, BodyGives
      <3>3. Gives(T, Y, <<s3>>, T, Y \cup {"vh_min", "vh_max"})
        BY <1>1, <1>6, <3>1, BodyGives
      <3>4. Y1 = Y \cup {"vh_min", "vh_max"}
        BY <2>1 DEF Y1, When
      <3> HIDE DEF Y, s2, s3
      <3> QED BY <2>1, <3>2, <3>3, <3>4, TwoStepsGive
    <2>2. CASE ~c1
      <3>1. Y1 = Z
        BY <2>2 DEF Y1, When
      <3> QED BY <2>2, <3>1, NoStepGives DEF Follows
    <2> QED BY <2>1, <2>2
  <1>15. Gives(T, Y1, <<s4>>, T, Y2)
    BY <1>1, <1>9, <1>10, <1>7, BodyGives DEF Y2
  <1>16. Gives(T, Y2, <<s5>>, T, Y3)
    BY <1>1, <1>9, <1>10, <1>8, BodyGives DEF Y3
  <1> HIDE DEF s1, s2, s3, s4, s5, p2
  <1>17. Gives(T, Y1, p3, T, Y3)
    BY <1>15, <1>16, TwoStepsGive
  <1> HIDE DEF p1, p3
  <1>18. Gives(T, Z, p1 \o p2, T, Y1)
    BY <1>13, <1>14, ThenGives
  <1>19. Gives(T, Z, p1 \o p2 \o p3, T, Y3)
    BY <1>18, <1>17, ThenGives
  <1> QED BY <1>4, <1>11, <1>19

-----------------------------------------------------------------------------
\* The schemes of Arakawa.
LEMMA ArakawaGives ==
    ASSUME NEW T, NEW cfg, NEW k, NEW m, NEW r, CoriolisOf(T, cfg, k, m, r),
           NEW Z, Z \subseteq DOMAIN T, CoriolisInputs \cup {"q", "Ih_q"} \subseteq Z, {"a", "b", "c", "d", "ep_u", "ep_v"} \cap Z = {}
    PROVE  Gives(T, Z, coradv_arakawa(cfg), T, Z \cup {"CAu", "CAv", "a", "b", "c", "d"} \cup When(cfg.scheme \in {"ARAKAWA_LAMB81", "AL_BLEND"}, {"ep_u", "ep_v"}))
  <1> DEFINE weights == When(cfg.scheme = "AL_BLEND", {"Ih_q"})
             N1 == {"q", "Ih_q"}
             N2 == {"q", "Ih_q"}
             N3 == {"q"}
             N4 == {"q"}
             N5 == {"q"}
             N6 == {"q"}
             N7 == {"a", "b", "c", "d", "face_u", "vh"}
             N8 == {"CAu", "ep_u", "face_u", "uh"}
             N9 == {"a", "b", "c", "d", "face_v", "uh"}
             N10 == {"CAv", "ep_v", "face_v", "vh"}
             R1 == At({"q"} \cup weights, {0, 1} \X {-1, 0})
             R2 == At({"q"} \cup weights, {-1, 0} \X {-1, 0})
             R3 == At({"q"}, {<<0, 0>>, <<1, 0>>, <<0, -1>>})
             R4 == At({"q"}, {<<0, 0>>, <<1, -1>>, <<0, -1>>})
             R5 == At({"q"}, {<<0, 0>>, <<-1, 0>>, <<0, -1>>})
             R6 == At({"q"}, {<<0, 0>>, <<-1, -1>>, <<0, -1>>})
             R7 == At({"a", "b", "c", "d", "face_u"}, Here) \cup At({"vh"}, AroundU)
             R8 == At({"ep_u"}, Here \cup East) \cup At({"uh"}, West \cup East) \cup At({"face_u"}, Here) \cup At({"CAu"}, Here)
             R9 == At({"a"}, West) \cup At({"b", "face_v"}, Here) \cup At({"c"}, North) \cup At({"d"}, {<<-1, 1>>}) \cup At({"uh"}, AroundV)
             R10 == At({"ep_v"}, Here \cup North) \cup At({"vh"}, South \cup North) \cup At({"face_v"}, Here) \cup At({"CAv"}, Here)
             s1 == Scratch(UBox(cfg), {"a", "b", "c", "d"})
             s2 == Scratch(DataBox(cfg), {"ep_u", "ep_v"})
             p1 == <<s1, s2>>
             c1 == cfg.scheme \in {"ARAKAWA_LAMB81", "AL_BLEND"}
             s3 == Loop(ReadAt(bxQ_pij(cfg), <<-1, 0>>), {Set({"a", "d"}, R1)})
             s4 == Loop(bxQ_pij(cfg), {Set({"b", "c", "ep_u", "ep_v"}, R2)})
             s5 == Loop(bxVx(cfg), {Set({"a"}, R3), Set({"d"}, R4)})
             s6 == Loop(GrowHiY(bxQ(cfg)), {Set({"b"}, R5), Set({"c"}, R6)})
             Y1 == Z \cup {"a", "d", "b", "c"} \cup When(c1, {"ep_u", "ep_v"})
             p2 == IF c1 THEN <<s3, s4>> ELSE <<s5, s6>>
             s7 == Loop(bxU(cfg), {Set({"CAu"}, R7)})
             Y2 == Y1 \cup {"CAu"}
             p3 == <<s7>>
             c3 == cfg.scheme \in {"ARAKAWA_LAMB81", "AL_BLEND"}
             Y3 == Y2 \cup When(c3, {"CAu"})
             p4 == Sets(c3, bxU(cfg), "CAu", R8)
             s8 == Loop(bxV(cfg), {Set({"CAv"}, R9)})
             Y4 == Y3 \cup {"CAv"}
             p5 == <<s8>>
             c5 == cfg.scheme \in {"ARAKAWA_LAMB81", "AL_BLEND"}
             Y5 == Y4 \cup When(c5, {"CAv"})
             p6 == Sets(c5, bxV(cfg), "CAv", R10)
  <1>1. /\ k \in Nat /\ k <= 1 /\ m \in Nat /\ r \in Nat /\ 2 <= r /\ k + 1 <= m /\ m <= r /\ Even(T, CoriolisInputs)
        /\ CoriolisClaims(T, k, m, r) /\ VorticityClaims(T, k, m, r) /\ TransportClaims(T, k) /\ EnergyClaims(T, k)
        /\ ArakawaClaims(T, k)
    BY DEF CoriolisOf, CoriolisNumbers
  <1>2. /\ ReadAt(bxQ_pij(cfg), <<-1, 0>>) = Box(k + 1, 0, k, 1)
        /\ bxQ_pij(cfg) = Box(k, 1, k, 1)
        /\ bxVx(cfg) = Box(1, 0, k, 1)
        /\ GrowHiY(bxQ(cfg)) = Box(k, 0, k, 1)
        /\ bxU(cfg) = Box(k, 0, 0, 0)
        /\ bxV(cfg) = Box(0, 0, k, 0)
    BY DEF CoriolisOf, CoriolisBoxes
  <1>3. /\ Spans(Here, Box(0, 0, 0, 0))
        /\ Spans(Here \cup East, Box(0, 1, 0, 0))
        /\ Spans(Here \cup North, Box(0, 0, 0, 1))
        /\ Spans(AroundU, Box(0, 1, 1, 0))
        /\ Spans(AroundV, Box(1, 0, 0, 1))
        /\ Spans({0, 1} \X {-1, 0}, Box(0, 1, 1, 0))
        /\ Spans({-1, 0} \X {-1, 0}, Box(1, 0, 1, 0))
        /\ Spans(West \cup East, Box(1, 1, 0, 0))
        /\ Spans(South \cup North, Box(0, 0, 1, 1))
        /\ Spans(West, Box(1, 0, 0, 0))
        /\ Spans(North, Box(0, 0, 0, 1))
        /\ Spans({<<-1, 1>>}, Box(1, 0, 0, 1))
        /\ Spans({<<0, 0>>, <<1, 0>>, <<0, -1>>}, Box(0, 1, 1, 0))
        /\ Spans({<<0, 0>>, <<1, -1>>, <<0, -1>>}, Box(0, 1, 1, 0))
        /\ Spans({<<0, 0>>, <<-1, 0>>, <<0, -1>>}, Box(1, 0, 1, 0))
        /\ Spans({<<0, 0>>, <<-1, -1>>, <<0, -1>>}, Box(1, 0, 1, 0))
    BY CoriolisSpans
  <1>4. coradv_arakawa(cfg) = p1 \o p2 \o p3 \o p4 \o p5 \o p6
    BY Zenon DEF coradv_arakawa, Sets
  <1>5. Bears(T, N1, ReadAt(bxQ_pij(cfg), <<-1, 0>>), {"a", "d"}, R1)
    <2>5. Good(T, N1, ReadAt(bxQ_pij(cfg), <<-1, 0>>), {"q"} \cup weights, Box(0, 1, 1, 0), Box(0, 2, 1, 1))
      <3>1. Good(T, N1, ReadAt(bxQ_pij(cfg), <<-1, 0>>), {"q", "Ih_q"}, Box(0, 1, 1, 0), Box(0, 2, 1, 1))
        BY <1>1, <1>2 DEF VorticityClaims, Has, Good, Near, Even, Within, Plus, Box, Margins
      <3>2. {"q"} \cup weights \subseteq {"q", "Ih_q"}
        BY DEF When
      <3> QED BY <3>1, <3>2, GoodOfLess
    <2>2. /\ ReadsFit(T, N1, ReadAt(bxQ_pij(cfg), <<-1, 0>>), At({"q"} \cup weights, {0, 1} \X {-1, 0}), Box(0, 2, 1, 1))
      BY <1>3, <2>5, FitsAt
    <2>4. ReadAt(bxQ_pij(cfg), <<-1, 0>>) \in Margins /\ Into(T, ReadAt(bxQ_pij(cfg), <<-1, 0>>), {"a", "d"}, Box(0, 2, 1, 1))
      BY <1>1, <1>2 DEF ArakawaClaims, Has, Into, Within, Box, Margins
    <2> QED BY <2>2, <2>4 DEF Bears
  <1>6. Bears(T, N2, bxQ_pij(cfg), {"b", "c", "ep_u", "ep_v"}, R2)
    <2>5. Good(T, N2, bxQ_pij(cfg), {"q"} \cup weights, Box(1, 0, 1, 0), Box(1, 1, 1, 1))
      <3>1. Good(T, N2, bxQ_pij(cfg), {"q", "Ih_q"}, Box(1, 0, 1, 0), Box(1, 1, 1, 1))
        BY <1>1, <1>2 DEF VorticityClaims, Has, Good, Near, Even, Within, Plus, Box, Margins
      <3>2. {"q"} \cup weights \subseteq {"q", "Ih_q"}
        BY DEF When
      <3> QED BY <3>1, <3>2, GoodOfLess
    <2>2. /\ ReadsFit(T, N2, bxQ_pij(cfg), At({"q"} \cup weights, {-1, 0} \X {-1, 0}), Box(1, 1, 1, 1))
      BY <1>3, <2>5, FitsAt
    <2>4. bxQ_pij(cfg) \in Margins /\ Into(T, bxQ_pij(cfg), {"b", "c", "ep_u", "ep_v"}, Box(1, 1, 1, 1))
      BY <1>1, <1>2 DEF ArakawaClaims, Has, Into, Within, Box, Margins
    <2> QED BY <2>2, <2>4 DEF Bears
  <1>7. Bears(T, N3, bxVx(cfg), {"a"}, R3)
    <2>1. /\ Good(T, N3, bxVx(cfg), {"q"}, Box(0, 1, 1, 0), Box(0, 2, 1, 1))
      BY <1>1, <1>2 DEF ArakawaClaims, VorticityClaims, Has, Good, Near, Even, Within, Plus, Box, Margins
    <2>2. /\ ReadsFit(T, N3, bxVx(cfg), At({"q"}, {<<0, 0>>, <<1, 0>>, <<0, -1>>}), Box(0, 2, 1, 1))
      BY <1>3, <2>1, FitsAt
    <2>4. bxVx(cfg) \in Margins /\ Into(T, bxVx(cfg), {"a"}, Box(0, 2, 1, 1))
      BY <1>1, <1>2 DEF ArakawaClaims, Has, Into, Within, Box, Margins
    <2> QED BY <2>2, <2>4 DEF Bears
  <1>8. Bears(T, N4, bxVx(cfg), {"d"}, R4)
    <2>1. /\ Good(T, N4, bxVx(cfg), {"q"}, Box(0, 1, 1, 0), Box(0, 2, 1, 1))
      BY <1>1, <1>2 DEF ArakawaClaims, VorticityClaims, Has, Good, Near, Even, Within, Plus, Box, Margins
    <2>2. /\ ReadsFit(T, N4, bxVx(cfg), At({"q"}, {<<0, 0>>, <<1, -1>>, <<0, -1>>}), Box(0, 2, 1, 1))
      BY <1>3, <2>1, FitsAt
    <2>4. bxVx(cfg) \in Margins /\ Into(T, bxVx(cfg), {"d"}, Box(0, 2, 1, 1))
      BY <1>1, <1>2 DEF ArakawaClaims, Has, Into, Within, Box, Margins
    <2> QED BY <2>2, <2>4 DEF Bears
  <1>9. Bears(T, N5, GrowHiY(bxQ(cfg)), {"b"}, R5)
    <2>1. /\ Good(T, N5, GrowHiY(bxQ(cfg)), {"q"}, Box(1, 0, 1, 0), Box(1, 1, 1, 1))
      BY <1>1, <1>2 DEF ArakawaClaims, VorticityClaims, Has, Good, Near, Even, Within, Plus, Box, Margins
    <2>2. /\ ReadsFit(T, N5, GrowHiY(bxQ(cfg)), At({"q"}, {<<0, 0>>, <<-1, 0>>, <<0, -1>>}), Box(1, 1, 1, 1))
      BY <1>3, <2>1, FitsAt
    <2>4. GrowHiY(bxQ(cfg)) \in Margins /\ Into(T, GrowHiY(bxQ(cfg)), {"b"}, Box(1, 1, 1, 1))
      BY <1>1, <1>2 DEF ArakawaClaims, Has, Into, Within, Box, Margins
    <2> QED BY <2>2, <2>4 DEF Bears
  <1>10. Bears(T, N6, GrowHiY(bxQ(cfg)), {"c"}, R6)
    <2>1. /\ Good(T, N6, GrowHiY(bxQ(cfg)), {"q"}, Box(1, 0, 1, 0), Box(1, 1, 1, 1))
      BY <1>1, <1>2 DEF ArakawaClaims, VorticityClaims, Has, Good, Near, Even, Within, Plus, Box, Margins
    <2>2. /\ ReadsFit(T, N6, GrowHiY(bxQ(cfg)), At({"q"}, {<<0, 0>>, <<-1, -1>>, <<0, -1>>}), Box(1, 1, 1, 1))
      BY <1>3, <2>1, FitsAt
    <2>4. GrowHiY(bxQ(cfg)) \in Margins /\ Into(T, GrowHiY(bxQ(cfg)), {"c"}, Box(1, 1, 1, 1))
      BY <1>1, <1>2 DEF ArakawaClaims, Has, Into, Within, Box, Margins
    <2> QED BY <2>2, <2>4 DEF Bears
  <1>11. Bears(T, N7, bxU(cfg), {"CAu"}, R7)
    <2>1. /\ Good(T, N7, bxU(cfg), {"a", "b", "c", "d", "face_u"}, Box(0, 0, 0, 0), Box(r, r, r, r))
          /\ Good(T, N7, bxU(cfg), {"vh"}, Box(0, 1, 1, 0), Box(r, r, r, r))
      BY <1>1, <1>2 DEF ArakawaClaims, CoriolisClaims, Has, Good, Near, Even, Within, Plus, Box, Margins
    <2>2. /\ ReadsFit(T, N7, bxU(cfg), At({"a", "b", "c", "d", "face_u"}, Here), Box(r, r, r, r))
          /\ ReadsFit(T, N7, bxU(cfg), At({"vh"}, AroundU), Box(r, r, r, r))
      BY <1>3, <2>1, FitsAt
    <2>3. ReadsFit(T, N7, bxU(cfg), R7, Box(r, r, r, r))
      BY <2>2, FitsBoth
    <2>4. bxU(cfg) \in Margins /\ Into(T, bxU(cfg), {"CAu"}, Box(r, r, r, r))
      BY <1>1, <1>2 DEF CoriolisClaims, Has, Into, Within, Box, Margins
    <2> QED BY <2>3, <2>4 DEF Bears
  <1>12. Bears(T, N8, bxU(cfg), {"CAu"}, R8)
    <2>1. /\ Good(T, N8, bxU(cfg), {"ep_u"}, Box(0, 1, 0, 0), Box(r, r, r, r))
          /\ Good(T, N8, bxU(cfg), {"uh"}, Box(1, 1, 0, 0), Box(r, r, r, r))
          /\ Good(T, N8, bxU(cfg), {"face_u"}, Box(0, 0, 0, 0), Box(r, r, r, r))
          /\ Good(T, N8, bxU(cfg), {"CAu"}, Box(0, 0, 0, 0), Box(r, r, r, r))
      BY <1>1, <1>2 DEF ArakawaClaims, CoriolisClaims, Has, Good, Near, Even, Within, Plus, Box, Margins
    <2>2. /\ ReadsFit(T, N8, bxU(cfg), At({"ep_u"}, Here \cup East), Box(r, r, r, r))
          /\ ReadsFit(T, N8, bxU(cfg), At({"uh"}, West \cup East), Box(r, r, r, r))
          /\ ReadsFit(T, N8, bxU(cfg), At({"face_u"}, Here), Box(r, r, r, r))
          /\ ReadsFit(T, N8, bxU(cfg), At({"CAu"}, Here), Box(r, r, r, r))
      BY <1>3, <2>1, FitsAt
    <2>3. ReadsFit(T, N8, bxU(cfg), R8, Box(r, r, r, r))
      BY <2>2, FitsBoth
    <2>4. bxU(cfg) \in Margins /\ Into(T, bxU(cfg), {"CAu"}, Box(r, r, r, r))
      BY <1>1, <1>2 DEF CoriolisClaims, Has, Into, Within, Box, Margins
    <2> QED BY <2>3, <2>4 DEF Bears
  <1>13. Bears(T, N9, bxV(cfg), {"CAv"}, R9)
    <2>1. /\ Good(T, N9, bxV(cfg), {"a"}, Box(1, 0, 0, 0), Box(r, r, r, r))
          /\ Good(T, N9, bxV(cfg), {"b", "face_v"}, Box(0, 0, 0, 0), Box(r, r, r, r))
          /\ Good(T, N9, bxV(cfg), {"c"}, Box(0, 0, 0, 1), Box(r, r, r, r))
          /\ Good(T, N9, bxV(cfg), {"d"}, Box(1, 0, 0, 1), Box(r, r, r, r))
          /\ Good(T, N9, bxV(cfg), {"uh"}, Box(1, 0, 0, 1), Box(r, r, r, r))
      BY <1>1, <1>2 DEF ArakawaClaims, CoriolisClaims, Has, Good, Near, Even, Within, Plus, Box, Margins
    <2>2. /\ ReadsFit(T, N9, bxV(cfg), At({"a"}, West), Box(r, r, r, r))
          /\ ReadsFit(T, N9, bxV(cfg), At({"b", "face_v"}, Here), Box(r, r, r, r))
          /\ ReadsFit(T, N9, bxV(cfg), At({"c"}, North), Box(r, r, r, r))
          /\ ReadsFit(T, N9, bxV(cfg), At({"d"}, {<<-1, 1>>}), Box(r, r, r, r))
          /\ ReadsFit(T, N9, bxV(cfg), At({"uh"}, AroundV), Box(r, r, r, r))
      BY <1>3, <2>1, FitsAt
    <2>3. ReadsFit(T, N9, bxV(cfg), R9, Box(r, r, r, r))
      BY <2>2, FitsBoth
    <2>4. bxV(cfg) \in Margins /\ Into(T, bxV(cfg), {"CAv"}, Box(r, r, r, r))
      BY <1>1, <1>2 DEF CoriolisClaims, Has, Into, Within, Box, Margins
    <2> QED BY <2>3, <2>4 DEF Bears
  <1>14. Bears(T, N10, bxV(cfg), {"CAv"}, R10)
    <2>1. /\ Good(T, N10, bxV(cfg), {"ep_v"}, Box(0, 0, 0, 1), Box(r, r, r, r))
          /\ Good(T, N10, bxV(cfg), {"vh"}, Box(0, 0, 1, 1), Box(r, r, r, r))
          /\ Good(T, N10, bxV(cfg), {"face_v"}, Box(0, 0, 0, 0), Box(r, r, r, r))
          /\ Good(T, N10, bxV(cfg), {"CAv"}, Box(0, 0, 0, 0), Box(r, r, r, r))
      BY <1>1, <1>2 DEF ArakawaClaims, CoriolisClaims, Has, Good, Near, Even, Within, Plus, Box, Margins
    <2>2. /\ ReadsFit(T, N10, bxV(cfg), At({"ep_v"}, Here \cup North), Box(r, r, r, r))
          /\ ReadsFit(T, N10, bxV(cfg), At({"vh"}, South \cup North), Box(r, r, r, r))
          /\ ReadsFit(T, N10, bxV(cfg), At({"face_v"}, Here), Box(r, r, r, r))
          /\ ReadsFit(T, N10, bxV(cfg), At({"CAv"}, Here), Box(r, r, r, r))
      BY <1>3, <2>1, FitsAt
    <2>3. ReadsFit(T, N10, bxV(cfg), R10, Box(r, r, r, r))
      BY <2>2, FitsBoth
    <2>4. bxV(cfg) \in Margins /\ Into(T, bxV(cfg), {"CAv"}, Box(r, r, r, r))
      BY <1>1, <1>2 DEF CoriolisClaims, Has, Into, Within, Box, Margins
    <2> QED BY <2>3, <2>4 DEF Bears
  <1>15. Y1 \subseteq DOMAIN T /\ Y2 \subseteq DOMAIN T /\ Y3 \subseteq DOMAIN T /\ Y4 \subseteq DOMAIN T /\ Y5 \subseteq DOMAIN T
    BY <1>1 DEF ArakawaClaims, CoriolisClaims, Has, When
  <1>16. (c1 => N1 \subseteq Z) /\ (c1 => N2 \subseteq Z) /\ (~c1 => N3 \subseteq Z) /\ (~c1 => N4 \subseteq Z) /\ (~c1 => N5 \subseteq Z) /\ (~c1 => N6 \subseteq Z) /\ N7 \subseteq Y1 /\ (c3 => N8 \subseteq Y2) /\ N9 \subseteq Y3 /\ (c5 => N10 \subseteq Y4)
    BY DEF CoriolisInputs, Metrics, When
  <1>17. Y5 = Z \cup {"CAu", "CAv", "a", "b", "c", "d"} \cup When(cfg.scheme \in {"ARAKAWA_LAMB81", "AL_BLEND"}, {"ep_u", "ep_v"})
    BY DEF When
  <1>18. c1 \in BOOLEAN /\ c3 \in BOOLEAN /\ c5 \in BOOLEAN
    BY DEF CoriolisOf
  <1> HIDE DEF N1, N2, N3, N4, N5, N6, N7, N8, N9, N10, R1, R2, R3, R4, R5, R6, R7, R8, R9, R10, c1, c3, c5, Y1, Y2, Y3, Y4, Y5, weights
  <1>19. Gives(T, Z, <<s1>>, T, Z)
    BY ScratchGives
  <1>20. Gives(T, Z, <<s2>>, T, Z)
    BY ScratchGives
  <1>21. Gives(T, Z, p2, T, Y1)
    <2>1. CASE c1
      <3> DEFINE Y == Z \cup {"a", "d"}
      <3>1. Y \subseteq DOMAIN T /\ Z \subseteq DOMAIN T /\ N1 \subseteq Z /\ N2 \subseteq Y
        BY <1>1, <1>15, <1>16, <2>1 DEF ArakawaClaims, Has
      <3>2. Gives(T, Z, <<s3>>, T, Y)
        BY <1>1, <1>5, <3>1, BodyGives
      <3>3. Gives(T, Y, <<s4>>, T, Y \cup {"b", "c", "ep_u", "ep_v"})
        BY <1>1, <1>6, <3>1, BodyGives
      <3>4. Y1 = Y \cup {"b", "c", "ep_u", "ep_v"}
        BY <2>1 DEF Y1, When
      <3> HIDE DEF Y, s3, s4
      <3> QED BY <2>1, <3>2, <3>3, <3>4, TwoStepsGive
    <2>2. CASE ~c1
      <3> DEFINE Y == Z \cup {"a"} \cup {"d"}
      <3>1. Y \subseteq DOMAIN T /\ Z \subseteq DOMAIN T /\ N3 \subseteq Z /\ N4 \subseteq Z /\ N5 \subseteq Y /\ N6 \subseteq Y
        BY <1>1, <1>15, <1>16, <2>2 DEF ArakawaClaims, Has
      <3>2. Gives(T, Z, <<s5>>, T, Y)
        BY <1>1, <1>7, <1>8, <3>1, BodiesGive
      <3>3. Gives(T, Y, <<s6>>, T, Y \cup {"b"} \cup {"c"})
        BY <1>1, <1>9, <1>10, <3>1, BodiesGive
      <3>4. Y1 = Y \cup {"b"} \cup {"c"}
        BY <2>2 DEF Y1, When
      <3> HIDE DEF Y, s5, s6
      <3> QED BY <2>2, <3>2, <3>3, <3>4, TwoStepsGive
    <2> QED BY <2>1, <2>2
  <1>22. Gives(T, Y1, p3, T, Y2)
    BY <1>1, <1>15, <1>16, <1>11, BodyGives DEF Y2
  <1>23. Gives(T, Y2, p4, T, Y3)
    BY <1>1, <1>15, <1>16, <1>18, <1>12, ConditionGives DEF Y3
  <1>24. Gives(T, Y3, p5, T, Y4)
    BY <1>1, <1>15, <1>16, <1>13, BodyGives DEF Y4
  <1>25. Gives(T, Y4, p6, T, Y5)
    BY <1>1, <1>15, <1>16, <1>18, <1>14, ConditionGives DEF Y5
  <1> HIDE DEF s1, s2, s3, s4, s5, s6, s7, s8, p2, p4, p6
  <1>26. Gives(T, Z, p1, T, Z)
    BY <1>19, <1>20, TwoStepsGive
  <1> HIDE DEF p1, p3, p5
  <1>27. Gives(T, Z, p1 \o p2, T, Y1)
    BY <1>26, <1>21, ThenGives
  <1>28. Gives(T, Z, p1 \o p2 \o p3, T, Y2)
    BY <1>27, <1>22, ThenGives
  <1>29. Gives(T, Z, p1 \o p2 \o p3 \o p4, T, Y3)
    BY <1>28, <1>23, ThenGives
  <1>30. Gives(T, Z, p1 \o p2 \o p3 \o p4 \o p5, T, Y4)
    BY <1>29, <1>24, ThenGives
  <1>31. Gives(T, Z, p1 \o p2 \o p3 \o p4 \o p5 \o p6, T, Y5)
    BY <1>30, <1>25, ThenGives
  <1> QED BY <1>4, <1>17, <1>31

-----------------------------------------------------------------------------
\* What all schemes have in common.
LEMMA CommonGives ==
    ASSUME NEW T, NEW cfg, NEW k, NEW m, NEW r, CoriolisOf(T, cfg, k, m, r),
           NEW Z, Z \subseteq DOMAIN T, CoriolisInputs \cup {"abs_vort", "KEx", "KEy", "CAu", "CAv"} \subseteq Z,
           cfg.given \cap {"rv_x_u", "rv_x_v"} # {} => "q2" \in Z
    PROVE  Gives(T, Z, coradv_common_terms(cfg), T, Z \cup When("gradKEu" \in cfg.given, {"gradKEu"}) \cup When("gradKEv" \in cfg.given, {"gradKEv"})
                                                       \cup When("rv_x_u" \in cfg.given, {"rv_x_u"}) \cup When("rv_x_v" \in cfg.given, {"rv_x_v"}))
  <1> DEFINE energy == cfg.scheme = "SADOURNY75_ENERGY"
             qsU == Here \cup South \cup (IF energy THEN {} ELSE {<<1, 0>>, <<-1, -1>>, <<-1, 0>>, <<1, -1>>})
             qsV == Here \cup West \cup (IF energy THEN {} ELSE {<<0, 1>>, <<-1, -1>>, <<0, -1>>, <<-1, 1>>})
             N1 == {"CAu", "abs_vort", "v"}
             N2 == {"CAu", "KEx"}
             N3 == {"KEx"}
             N4 == {"CAv", "abs_vort", "u"}
             N5 == {"CAv", "KEy"}
             N6 == {"KEy"}
             N7 == {"face_v", "q2", "uh"}
             N8 == {"face_u", "q2", "vh"}
             R1 == At({"CAu"}, Here) \cup At({"abs_vort"}, Here \cup South) \cup At({"v"}, AroundU)
             R2 == At({"CAu", "KEx"}, Here)
             R3 == At({"KEx"}, Here)
             R4 == At({"CAv"}, Here) \cup At({"abs_vort"}, Here \cup West) \cup At({"u"}, AroundV)
             R5 == At({"CAv", "KEy"}, Here)
             R6 == At({"KEy"}, Here)
             R7 == At({"q2"}, qsV) \cup At({"uh"}, AroundV) \cup At({"face_v"}, Here)
             R8 == At({"q2"}, qsU) \cup At({"vh"}, AroundU) \cup At({"face_u"}, Here)
             c1 == cfg.bound
             Y1 == Z \cup When(c1, {"CAu"})
             p1 == Sets(c1, bxU(cfg), "CAu", R1)
             c2 == TRUE
             Y2 == Y1 \cup When(c2, {"CAu"})
             p2 == Sets(c2, bxU(cfg), "CAu", R2)
             c3 == "gradKEu" \in cfg.given
             Y3 == Y2 \cup When(c3, {"gradKEu"})
             p3 == Sets(c3, bxU(cfg), "gradKEu", R3)
             c4 == cfg.bound
             Y4 == Y3 \cup When(c4, {"CAv"})
             p4 == Sets(c4, bxV(cfg), "CAv", R4)
             c5 == TRUE
             Y5 == Y4 \cup When(c5, {"CAv"})
             p5 == Sets(c5, bxV(cfg), "CAv", R5)
             c6 == "gradKEv" \in cfg.given
             Y6 == Y5 \cup When(c6, {"gradKEv"})
             p6 == Sets(c6, bxV(cfg), "gradKEv", R6)
             c7 == "rv_x_u" \in cfg.given
             Y7 == Y6 \cup When(c7, {"rv_x_u"})
             p7 == Sets(c7, bxV(cfg), "rv_x_u", R7)
             c8 == "rv_x_v" \in cfg.given
             Y8 == Y7 \cup When(c8, {"rv_x_v"})
             p8 == Sets(c8, bxU(cfg), "rv_x_v", R8)
  <1>1. /\ k \in Nat /\ k <= 1 /\ m \in Nat /\ r \in Nat /\ 2 <= r /\ k + 1 <= m /\ m <= r /\ Even(T, CoriolisInputs)
        /\ CoriolisClaims(T, k, m, r) /\ VorticityClaims(T, k, m, r) /\ TransportClaims(T, k) /\ EnergyClaims(T, k)
        /\ ArakawaClaims(T, k)
    BY DEF CoriolisOf, CoriolisNumbers
  <1>2. /\ bxU(cfg) = Box(k, 0, 0, 0)
        /\ bxV(cfg) = Box(0, 0, k, 0)
    BY DEF CoriolisOf, CoriolisBoxes
  <1>3. /\ Spans(Here, Box(0, 0, 0, 0))
        /\ Spans(Here \cup South, Box(0, 0, 1, 0))
        /\ Spans(Here \cup West, Box(1, 0, 0, 0))
        /\ Spans(AroundU, Box(0, 1, 1, 0))
        /\ Spans(AroundV, Box(1, 0, 0, 1))
        /\ Spans(qsU, Box(1, 1, 1, 0))
        /\ Spans(qsV, Box(1, 0, 1, 1))
    <2>1. Spans(qsU, Box(1, 1, 1, 0)) /\ Spans(qsV, Box(1, 0, 1, 1))
      BY DEF Spans, Margins, Around, Offsets, Box, Here, South, West
    <2> QED BY <2>1, CoriolisSpans
  <1>4. coradv_common_terms(cfg) = p1 \o p2 \o p3 \o p4 \o p5 \o p6 \o p7 \o p8
    BY Zenon DEF coradv_common_terms, Sets
  <1>5. Bears(T, N1, bxU(cfg), {"CAu"}, R1)
    <2>1. /\ Good(T, N1, bxU(cfg), {"CAu"}, Box(0, 0, 0, 0), Box(r, r, r, r))
          /\ Good(T, N1, bxU(cfg), {"abs_vort"}, Box(0, 0, 1, 0), Box(r, r, r, r))
          /\ Good(T, N1, bxU(cfg), {"v"}, Box(0, 1, 1, 0), Box(r, r, r, r))
      BY <1>1, <1>2 DEF CoriolisClaims, VorticityClaims, Has, Good, Near, Even, Within, Plus, Box, Margins
    <2>2. /\ ReadsFit(T, N1, bxU(cfg), At({"CAu"}, Here), Box(r, r, r, r))
          /\ ReadsFit(T, N1, bxU(cfg), At({"abs_vort"}, Here \cup South), Box(r, r, r, r))
          /\ ReadsFit(T, N1, bxU(cfg), At({"v"}, AroundU), Box(r, r, r, r))
      BY <1>3, <2>1, FitsAt
    <2>3. ReadsFit(T, N1, bxU(cfg), R1, Box(r, r, r, r))
      BY <2>2, FitsBoth
    <2>4. bxU(cfg) \in Margins /\ Into(T, bxU(cfg), {"CAu"}, Box(r, r, r, r))
      BY <1>1, <1>2 DEF CoriolisClaims, Has, Into, Within, Box, Margins
    <2> QED BY <2>3, <2>4 DEF Bears
  <1>6. Bears(T, N2, bxU(cfg), {"CAu"}, R2)
    <2>1. /\ Good(T, N2, bxU(cfg), {"CAu", "KEx"}, Box(0, 0, 0, 0), Box(r, r, r, r))
      BY <1>1, <1>2 DEF CoriolisClaims, EnergyClaims, Has, Good, Near, Even, Within, Plus, Box, Margins
    <2>2. /\ ReadsFit(T, N2, bxU(cfg), At({"CAu", "KEx"}, Here), Box(r, r, r, r))
      BY <1>3, <2>1, FitsAt
    <2>4. bxU(cfg) \in Margins /\ Into(T, bxU(cfg), {"CAu"}, Box(r, r, r, r))
      BY <1>1, <1>2 DEF CoriolisClaims, Has, Into, Within, Box, Margins
    <2> QED BY <2>2, <2>4 DEF Bears
  <1>7. Bears(T, N3, bxU(cfg), {"gradKEu"}, R3)
    <2>1. /\ Good(T, N3, bxU(cfg), {"KEx"}, Box(0, 0, 0, 0), Box(r, r, r, r))
      BY <1>1, <1>2 DEF CoriolisClaims, EnergyClaims, Has, Good, Near, Even, Within, Plus, Box, Margins
    <2>2. /\ ReadsFit(T, N3, bxU(cfg), At({"KEx"}, Here), Box(r, r, r, r))
      BY <1>3, <2>1, FitsAt
    <2>4. bxU(cfg) \in Margins /\ Into(T, bxU(cfg), {"gradKEu"}, Box(r, r, r, r))
      BY <1>1, <1>2 DEF CoriolisClaims, Has, Into, Within, Box, Margins
    <2> QED BY <2>2, <2>4 DEF Bears
  <1>8. Bears(T, N4, bxV(cfg), {"CAv"}, R4)
    <2>1. /\ Good(T, N4, bxV(cfg), {"CAv"}, Box(0, 0, 0, 0), Box(r, r, r, r))
          /\ Good(T, N4, bxV(cfg), {"abs_vort"}, Box(1, 0, 0, 0), Box(r, r, r, r))
          /\ Good(T, N4, bxV(cfg), {"u"}, Box(1, 0, 0, 1), Box(r, r, r, r))
      BY <1>1, <1>2 DEF CoriolisClaims, VorticityClaims, Has, Good, Near, Even, Within, Plus, Box, Margins
    <2>2. /\ ReadsFit(T, N4, bxV(cfg), At({"CAv"}, Here), Box(r, r, r, r))
          /\ ReadsFit(T, N4, bxV(cfg), At({"abs_vort"}, Here \cup West), Box(r, r, r, r))
          /\ ReadsFit(T, N4, bxV(cfg), At({"u"}, AroundV), Box(r, r, r, r))
      BY <1>3, <2>1, FitsAt
    <2>3. ReadsFit(T, N4, bxV(cfg), R4, Box(r, r, r, r))
      BY <2>2, FitsBoth
    <2>4. bxV(cfg) \in Margins /\ Into(T, bxV(cfg), {"CAv"}, Box(r, r, r, r))
      BY <1>1, <1>2 DEF CoriolisClaims, Has, Into, Within, Box, Margins
    <2> QED BY <2>3, <2>4 DEF Bears
  <1>9. Bears(T, N5, bxV(cfg), {"CAv"}, R5)
    <2>1. /\ Good(T, N5, bxV(cfg), {"CAv", "KEy"}, Box(0, 0, 0, 0), Box(r, r, r, r))
      BY <1>1, <1>2 DEF CoriolisClaims, EnergyClaims, Has, Good, Near, Even, Within, Plus, Box, Margins
    <2>2. /\ ReadsFit(T, N5, bxV(cfg), At({"CAv", "KEy"}, Here), Box(r, r, r, r))
      BY <1>3, <2>1, FitsAt
    <2>4. bxV(cfg) \in Margins /\ Into(T, bxV(cfg), {"CAv"}, Box(r, r, r, r))
      BY <1>1, <1>2 DEF CoriolisClaims, Has, Into, Within, Box, Margins
    <2> QED BY <2>2, <2>4 DEF Bears
  <1>10. Bears(T, N6, bxV(cfg), {"gradKEv"}, R6)
    <2>1. /\ Good(T, N6, bxV(cfg), {"KEy"}, Box(0, 0, 0, 0), Box(r, r, r, r))
      BY <1>1, <1>2 DEF CoriolisClaims, EnergyClaims, Has, Good, Near, Even, Within, Plus, Box, Margins
    <2>2. /\ ReadsFit(T, N6, bxV(cfg), At({"KEy"}, Here), Box(r, r, r, r))
      BY <1>3, <2>1, FitsAt
    <2>4. bxV(cfg) \in Margins /\ Into(T, bxV(cfg), {"gradKEv"}, Box(r, r, r, r))
      BY <1>1, <1>2 DEF CoriolisClaims, Has, Into, Within, Box, Margins
    <2> QED BY <2>2, <2>4 DEF Bears
  <1>11. Bears(T, N7, bxV(cfg), {"rv_x_u"}, R7)
    <2>1. /\ Good(T, N7, bxV(cfg), {"q2"}, Box(1, 0, 1, 1), Box(r, r, r, r))
          /\ Good(T, N7, bxV(cfg), {"uh"}, Box(1, 0, 0, 1), Box(r, r, r, r))
          /\ Good(T, N7, bxV(cfg), {"face_v"}, Box(0, 0, 0, 0), Box(r, r, r, r))
      BY <1>1, <1>2 DEF CoriolisClaims, VorticityClaims, Has, Good, Near, Even, Within, Plus, Box, Margins
    <2>2. /\ ReadsFit(T, N7, bxV(cfg), At({"q2"}, qsV), Box(r, r, r, r))
          /\ ReadsFit(T, N7, bxV(cfg), At({"uh"}, AroundV), Box(r, r, r, r))
          /\ ReadsFit(T, N7, bxV(cfg), At({"face_v"}, Here), Box(r, r, r, r))
      BY <1>3, <2>1, FitsAt
    <2>3. ReadsFit(T, N7, bxV(cfg), R7, Box(r, r, r, r))
      BY <2>2, FitsBoth
    <2>4. bxV(cfg) \in Margins /\ Into(T, bxV(cfg), {"rv_x_u"}, Box(r, r, r, r))
      BY <1>1, <1>2 DEF CoriolisClaims, Has, Into, Within, Box, Margins
    <2> QED BY <2>3, <2>4 DEF Bears
  <1>12. Bears(T, N8, bxU(cfg), {"rv_x_v"}, R8)
    <2>1. /\ Good(T, N8, bxU(cfg), {"q2"}, Box(1, 1, 1, 0), Box(r, r, r, r))
          /\ Good(T, N8, bxU(cfg), {"vh"}, Box(0, 1, 1, 0), Box(r, r, r, r))
          /\ Good(T, N8, bxU(cfg), {"face_u"}, Box(0, 0, 0, 0), Box(r, r, r, r))
      BY <1>1, <1>2 DEF CoriolisClaims, VorticityClaims, Has, Good, Near, Even, Within, Plus, Box, Margins
    <2>2. /\ ReadsFit(T, N8, bxU(cfg), At({"q2"}, qsU), Box(r, r, r, r))
          /\ ReadsFit(T, N8, bxU(cfg), At({"vh"}, AroundU), Box(r, r, r, r))
          /\ ReadsFit(T, N8, bxU(cfg), At({"face_u"}, Here), Box(r, r, r, r))
      BY <1>3, <2>1, FitsAt
    <2>3. ReadsFit(T, N8, bxU(cfg), R8, Box(r, r, r, r))
      BY <2>2, FitsBoth
    <2>4. bxU(cfg) \in Margins /\ Into(T, bxU(cfg), {"rv_x_v"}, Box(r, r, r, r))
      BY <1>1, <1>2 DEF CoriolisClaims, Has, Into, Within, Box, Margins
    <2> QED BY <2>3, <2>4 DEF Bears
  <1>13. Y1 \subseteq DOMAIN T /\ Y2 \subseteq DOMAIN T /\ Y3 \subseteq DOMAIN T /\ Y4 \subseteq DOMAIN T /\ Y5 \subseteq DOMAIN T /\ Y6 \subseteq DOMAIN T /\ Y7 \subseteq DOMAIN T /\ Y8 \subseteq DOMAIN T
    BY <1>1 DEF CoriolisClaims, Has, When
  <1>14. (c1 => N1 \subseteq Z) /\ (c2 => N2 \subseteq Y1) /\ (c3 => N3 \subseteq Y2) /\ (c4 => N4 \subseteq Y3) /\ (c5 => N5 \subseteq Y4) /\ (c6 => N6 \subseteq Y5) /\ (c7 => N7 \subseteq Y6) /\ (c8 => N8 \subseteq Y7)
    BY DEF CoriolisInputs, Metrics, When
  <1>15. Y8 = Z \cup When("gradKEu" \in cfg.given, {"gradKEu"}) \cup When("gradKEv" \in cfg.given, {"gradKEv"})
                                                       \cup When("rv_x_u" \in cfg.given, {"rv_x_u"}) \cup When("rv_x_v" \in cfg.given, {"rv_x_v"})
    BY DEF When
  <1>16. c1 \in BOOLEAN /\ c2 \in BOOLEAN /\ c3 \in BOOLEAN /\ c4 \in BOOLEAN /\ c5 \in BOOLEAN /\ c6 \in BOOLEAN /\ c7 \in BOOLEAN /\ c8 \in BOOLEAN
    BY DEF CoriolisOf
  <1> HIDE DEF N1, N2, N3, N4, N5, N6, N7, N8, R1, R2, R3, R4, R5, R6, R7, R8, c1, c2, c3, c4, c5, c6, c7, c8, Y1, Y2, Y3, Y4, Y5, Y6, Y7, Y8, energy, qsU, qsV
  <1>17. Gives(T, Z, p1, T, Y1)
    BY <1>1, <1>13, <1>14, <1>16, <1>5, ConditionGives DEF Y1
  <1>18. Gives(T, Y1, p2, T, Y2)
    BY <1>1, <1>13, <1>14, <1>16, <1>6, ConditionGives DEF Y2
  <1>19. Gives(T, Y2, p3, T, Y3)
    BY <1>1, <1>13, <1>14, <1>16, <1>7, ConditionGives DEF Y3
  <1>20. Gives(T, Y3, p4, T, Y4)
    BY <1>1, <1>13, <1>14, <1>16, <1>8, ConditionGives DEF Y4
  <1>21. Gives(T, Y4, p5, T, Y5)
    BY <1>1, <1>13, <1>14, <1>16, <1>9, ConditionGives DEF Y5
  <1>22. Gives(T, Y5, p6, T, Y6)
    BY <1>1, <1>13, <1>14, <1>16, <1>10, ConditionGives DEF Y6
  <1>23. Gives(T, Y6, p7, T, Y7)
    BY <1>1, <1>13, <1>14, <1>16, <1>11, ConditionGives DEF Y7
  <1>24. Gives(T, Y7, p8, T, Y8)
    BY <1>1, <1>13, <1>14, <1>16, <1>12, ConditionGives DEF Y8
  <1> HIDE DEF p1, p2, p3, p4, p5, p6, p7, p8
  <1>25. Gives(T, Z, p1 \o p2, T, Y2)
    BY <1>17, <1>18, ThenGives
  <1>26. Gives(T, Z, p1 \o p2 \o p3, T, Y3)
    BY <1>25, <1>19, ThenGives
  <1>27. Gives(T, Z, p1 \o p2 \o p3 \o p4, T, Y4)
    BY <1>26, <1>20, ThenGives
  <1>28. Gives(T, Z, p1 \o p2 \o p3 \o p4 \o p5, T, Y5)
    BY <1>27, <1>21, ThenGives
  <1>29. Gives(T, Z, p1 \o p2 \o p3 \o p4 \o p5 \o p6, T, Y6)
    BY <1>28, <1>22, ThenGives
  <1>30. Gives(T, Z, p1 \o p2 \o p3 \o p4 \o p5 \o p6 \o p7, T, Y7)
    BY <1>29, <1>23, ThenGives
  <1>31. Gives(T, Z, p1 \o p2 \o p3 \o p4 \o p5 \o p6 \o p7 \o p8, T, Y8)
    BY <1>30, <1>24, ThenGives
  <1> QED BY <1>4, <1>15, <1>31

-----------------------------------------------------------------------------
\* Everything the kernel may set
CoriolisSets ==
    {"Area_h", "Area_q", "dvdx", "dudy", "hArea_v", "hArea_u", "uh_center", "vh_center", "rel_vort", "abs_vort", "Ih_q", "q",
     "h_q", "RV", "PV", "q2", "KE", "KEx", "KEy"}

\* All of it is claimed.
LEMMA CoriolisDomain ==
    ASSUME NEW T, NEW k, NEW m, NEW r, CoriolisClaims(T, k, m, r), VorticityClaims(T, k, m, r), TransportClaims(T, k),
           EnergyClaims(T, k)
    PROVE  CoriolisInputs \cup CoriolisSets \subseteq DOMAIN T
  <1>1. CoriolisInputs \subseteq DOMAIN T
    BY DEF CoriolisInputs, Metrics, CoriolisClaims, Has
  <1>2. {"Area_h", "Area_q", "dvdx", "dudy", "hArea_v", "hArea_u", "rel_vort", "abs_vort", "Ih_q", "q", "h_q", "RV", "PV", "q2"}
            \subseteq DOMAIN T
    BY DEF VorticityClaims, Has
  <1>3. {"uh_center", "vh_center"} \subseteq DOMAIN T
    BY DEF TransportClaims, Has
  <1>4. {"KE", "KEx", "KEy"} \subseteq DOMAIN T
    BY DEF EnergyClaims, Has
  <1> QED BY <1>1, <1>2, <1>3, <1>4 DEF CoriolisSets

\* The areas around a corner, and the scratch arrays.
LEMMA AreasGive ==
    ASSUME NEW T, NEW cfg, NEW k, NEW m, NEW r, CoriolisOf(T, cfg, k, m, r)
    PROVE  Gives(T, CoriolisInputs,
                 <<Scratch(CornerBox(cfg), {"Area_q"}),
                   Scratch(DataBox(cfg), {"Area_h"}),
                   Loop(GrowHiX(GrowHiY(bxQs(cfg))), {Set({"Area_h"}, At({"cell"}, Here))}),
                   Loop(bxQs(cfg), {Set({"Area_q"}, At({"Area_h"}, {0, 1} \X {0, 1}))}),
                   Scratch(CornerBox(cfg), {"q", "Ih_q", "h_q", "abs_vort", "q2"}),
                   Scratch(UBox(cfg), {"KEx", "uh_center"}),
                   Scratch(VBox(cfg), {"KEy", "vh_center"}),
                   Scratch(DataBox(cfg), {"KE"})>>,
                 T, CoriolisInputs \cup {"Area_h", "Area_q"})
  <1> DEFINE Z == CoriolisInputs
             Y == Z \cup {"Area_h"}
             X == Y \cup {"Area_q"}
             b1 == GrowHiX(GrowHiY(bxQs(cfg)))
             b2 == bxQs(cfg)
             R1 == At({"cell"}, Here)
             R2 == At({"Area_h"}, {0, 1} \X {0, 1})
             x == Scratch(CornerBox(cfg), {"Area_q"})
             y == Scratch(DataBox(cfg), {"Area_h"})
             s == Loop(b1, {Set({"Area_h"}, R1)})
             t == Loop(b2, {Set({"Area_q"}, R2)})
             e == Scratch(CornerBox(cfg), {"q", "Ih_q", "h_q", "abs_vort", "q2"})
             f == Scratch(UBox(cfg), {"KEx", "uh_center"})
             g == Scratch(VBox(cfg), {"KEy", "vh_center"})
             h == Scratch(DataBox(cfg), {"KE"})
  <1>1. /\ k \in {0, 1} /\ m \in Nat /\ r \in {2, 3, 4} /\ k + 1 <= m /\ m <= r /\ Even(T, CoriolisInputs)
        /\ CoriolisClaims(T, k, m, r) /\ VorticityClaims(T, k, m, r) /\ TransportClaims(T, k) /\ EnergyClaims(T, k)
    BY DEF CoriolisOf, CoriolisNumbers
  <1>2. b1 = Box(m, r, m, r) /\ b2 = Box(m, r - 1, m, r - 1)
    BY DEF CoriolisOf, CoriolisBoxes
  <1>3. Spans(Here, Box(0, 0, 0, 0)) /\ Spans({0, 1} \X {0, 1}, Box(0, 1, 0, 1))
    BY CoriolisSpans
  <1>4. CoriolisInputs \cup CoriolisSets \subseteq DOMAIN T
    BY <1>1, CoriolisDomain
  <1>5. Bears(T, {"cell"}, b1, {"Area_h"}, R1)
    <2>1. Good(T, {"cell"}, b1, {"cell"}, Box(0, 0, 0, 0), Box(0, 0, 0, 0))
      BY <1>1, <1>2 DEF CoriolisClaims, Has, Good, Near, Even, Within, Plus, Box, Margins
    <2>2. ReadsFit(T, {"cell"}, b1, R1, Box(0, 0, 0, 0))
      BY <1>3, <2>1, FitsAt
    <2>3. b1 \in Margins /\ Into(T, b1, {"Area_h"}, Box(0, 0, 0, 0))
      BY <1>1, <1>2 DEF VorticityClaims, Has, Into, Within, Box, Margins
    <2> QED BY <2>2, <2>3 DEF Bears
  <1>6. Bears(T, {"Area_h"}, b2, {"Area_q"}, R2)
    <2>1. Good(T, {"Area_h"}, b2, {"Area_h"}, Box(0, 1, 0, 1), Box(0, 1, 0, 1))
      BY <1>1, <1>2 DEF VorticityClaims, Has, Good, Near, Even, Within, Plus, Box, Margins
    <2>2. ReadsFit(T, {"Area_h"}, b2, R2, Box(0, 1, 0, 1))
      BY <1>3, <2>1, FitsAt
    <2>3. b2 \in Margins /\ Into(T, b2, {"Area_q"}, Box(0, 1, 0, 1))
      BY <1>1, <1>2 DEF VorticityClaims, Has, Into, Within, Box, Margins
    <2> QED BY <2>2, <2>3 DEF Bears
  <1>7. Z \subseteq DOMAIN T /\ Y \subseteq DOMAIN T /\ {"cell"} \subseteq Z /\ {"Area_h"} \subseteq Y
    BY <1>4 DEF CoriolisSets, CoriolisInputs, Metrics
  <1>8. \A a \in {"Area_q", "Area_h"} : a \notin Z
    BY DEF CoriolisInputs, Metrics
  <1>9. \A a \in {"q", "Ih_q", "h_q", "abs_vort", "q2", "KEx", "uh_center", "KEy", "vh_center", "KE"} : a \notin X
    BY DEF CoriolisInputs, Metrics
  <1> HIDE DEF Z, X, Y, b1, b2, R1, R2
  <1>10. Gives(T, Z, <<x>>, T, Z) /\ Gives(T, Z, <<y>>, T, Z)
    BY <1>8, ScratchGives
  <1>11. Gives(T, Z, <<s>>, T, Y)
    BY <1>1, <1>5, <1>7, BodyGives DEF Y
  <1>12. Gives(T, Y, <<t>>, T, X)
    BY <1>1, <1>6, <1>7, BodyGives DEF X
  <1>13. Gives(T, X, <<e>>, T, X) /\ Gives(T, X, <<f>>, T, X) /\ Gives(T, X, <<g>>, T, X) /\ Gives(T, X, <<h>>, T, X)
    BY <1>9, ScratchGives
  <1> HIDE DEF x, y, s, t, e, f, g, h
  <1>14. Gives(T, Z, <<x, y, s, t>>, T, X)
    BY <1>10, <1>11, <1>12, FourStepsGive
  <1>15. Gives(T, X, <<e, f, g, h>>, T, X)
    BY <1>13, FourStepsGive
  <1>16. Gives(T, Z, <<x, y, s, t>> \o <<e, f, g, h>>, T, X)
    BY <1>14, <1>15, ThenGives
  <1>17. <<x, y, s, t>> \o <<e, f, g, h>> = <<x, y, s, t, e, f, g, h>>
    BY JoinedFours
  <1>18. X = CoriolisInputs \cup {"Area_h", "Area_q"}
    BY DEF X, Y, Z
  <1>19. Gives(T, Z, <<x, y, s, t, e, f, g, h>>, T, CoriolisInputs \cup {"Area_h", "Area_q"})
    BY <1>16, <1>17, <1>18
  <1> QED BY <1>19 DEF Z, x, y, s, t, e, f, g, h, b1, b2, R1, R2

\* The scheme of a call
CoriolisScheme(cfg) ==
    CASE cfg.scheme \in {"SADOURNY75_ENERGY", "SADOURNY75_ENSTRO"} -> coradv_sadourny(cfg)
      [] cfg.scheme \in {"ARAKAWA_HSU90", "ARAKAWA_LAMB81", "AL_BLEND"} -> coradv_arakawa(cfg)
      [] cfg.scheme = "ROBUST_ENSTRO" -> coradv_robust_enstro(cfg)
      [] cfg.scheme \in WenoSchemes -> coradv_weno(cfg)

\* Every scheme gives the accelerations.
LEMMA SchemeGives ==
    ASSUME NEW T, NEW cfg, NEW k, NEW m, NEW r, CoriolisOf(T, cfg, k, m, r),
           cfg.scheme \in CoriolisSchemes, r = coriolis_scheme_stencil(cfg.scheme), cfg.scheme \in WenoSchemes => m = r,
           NEW Z, Z \subseteq CoriolisInputs \cup CoriolisSets, CoriolisInputs \cup {"q", "Ih_q", "abs_vort"} \subseteq Z,
           cfg.En_Dis => {"uh_center", "vh_center"} \subseteq Z, cfg.scheme \in WenoSchemes => "h_q" \in Z
    PROVE  Gives(T, Z, CoriolisScheme(cfg), T, Z \cup {"CAu", "CAv"})
  <1>1. Z \subseteq DOMAIN T
    <2>1. CoriolisClaims(T, k, m, r) /\ VorticityClaims(T, k, m, r) /\ TransportClaims(T, k) /\ EnergyClaims(T, k)
      BY DEF CoriolisOf
    <2> QED BY <2>1, CoriolisDomain
  <1>2. {"uh_min", "uh_max", "vh_min", "vh_max"} \cap Z = {} /\ {"a", "b", "c", "d", "ep_u", "ep_v"} \cap Z = {}
    BY DEF CoriolisInputs, CoriolisSets, Metrics
  <1>3. \A Y : Z \cup {"CAu", "CAv"} \subseteq Y => Follows(T, Y, T, Z \cup {"CAu", "CAv"})
    BY DEF Follows
  <1>4. CASE cfg.scheme \in {"SADOURNY75_ENERGY", "SADOURNY75_ENSTRO"}
    <2> DEFINE Y == Z \cup {"CAu", "CAv"} \cup When(cfg.En_Dis, {"uh_min", "uh_max", "vh_min", "vh_max"})
    <2>1. Gives(T, Z, coradv_sadourny(cfg), T, Y)
      BY <1>1, <1>2, SadournyGives
    <2>2. Follows(T, Y, T, Z \cup {"CAu", "CAv"})
      BY <1>3
    <2> HIDE DEF Y
    <2>3. Gives(T, Z, coradv_sadourny(cfg), T, Z \cup {"CAu", "CAv"})
      BY <2>1, <2>2, GivesLess
    <2>4. CoriolisScheme(cfg) = coradv_sadourny(cfg)
      BY <1>4 DEF CoriolisScheme, WenoSchemes
    <2> QED BY <2>3, <2>4
  <1>5. CASE cfg.scheme \in {"ARAKAWA_HSU90", "ARAKAWA_LAMB81", "AL_BLEND"}
    <2> DEFINE Y == Z \cup {"CAu", "CAv", "a", "b", "c", "d"}
                    \cup When(cfg.scheme \in {"ARAKAWA_LAMB81", "AL_BLEND"}, {"ep_u", "ep_v"})
    <2>1. Gives(T, Z, coradv_arakawa(cfg), T, Y)
      BY <1>1, <1>2, ArakawaGives
    <2>2. Follows(T, Y, T, Z \cup {"CAu", "CAv"})
      BY <1>3
    <2> HIDE DEF Y
    <2>3. Gives(T, Z, coradv_arakawa(cfg), T, Z \cup {"CAu", "CAv"})
      BY <2>1, <2>2, GivesLess
    <2>4. CoriolisScheme(cfg) = coradv_arakawa(cfg)
      BY <1>5 DEF CoriolisScheme, WenoSchemes
    <2> QED BY <2>3, <2>4
  <1>6. CASE cfg.scheme = "ROBUST_ENSTRO"
    <2>1. CoriolisScheme(cfg) = coradv_robust_enstro(cfg)
      BY <1>6 DEF CoriolisScheme, WenoSchemes
    <2> QED BY <1>1, <2>1, RobustGives
  <1>7. CASE cfg.scheme \in WenoSchemes
    <2>1. CoriolisScheme(cfg) = coradv_weno(cfg)
      BY <1>7 DEF CoriolisScheme, WenoSchemes
    <2>2. Gives(T, Z, coradv_weno(cfg), T, Z \cup {"CAu", "CAv"})
      BY <1>1, <1>7, WenoGives
    <2> QED BY <2>1, <2>2
  <1> QED BY <1>4, <1>5, <1>6, <1>7 DEF CoriolisSchemes

\* The accelerations, and the diagnostics that are wanted.
LEMMA CoriolisGives ==
    ASSUME NEW T, NEW cfg, NEW k, NEW m, NEW r, CoriolisOf(T, cfg, k, m, r), cfg.given \subseteq Diagnostics,
           cfg.scheme \in CoriolisSchemes, r = coriolis_scheme_stencil(cfg.scheme), cfg.scheme \in WenoSchemes => m = r
    PROVE  Gives(T, CoriolisInputs, coradcalc_tr(cfg), T, {"CAu", "CAv"} \cup cfg.given)
  <1> DEFINE head == <<Scratch(CornerBox(cfg), {"Area_q"}),
                       Scratch(DataBox(cfg), {"Area_h"}),
                       Loop(GrowHiX(GrowHiY(bxQs(cfg))), {Set({"Area_h"}, At({"cell"}, Here))}),
                       Loop(bxQs(cfg), {Set({"Area_q"}, At({"Area_h"}, {0, 1} \X {0, 1}))}),
                       Scratch(CornerBox(cfg), {"q", "Ih_q", "h_q", "abs_vort", "q2"}),
                       Scratch(UBox(cfg), {"KEx", "uh_center"}),
                       Scratch(VBox(cfg), {"KEy", "vh_center"}),
                       Scratch(DataBox(cfg), {"KE"})>>
             Z0 == CoriolisInputs
             Z1 == CoriolisInputs \cup {"Area_h", "Area_q"}
             Z2 == Z1 \cup CoriolisSetup(cfg)
             W3 == Z2 \cup {"KE", "KEx", "KEy"}
             W4 == W3 \cup {"CAu", "CAv"}
             W5 == W4 \cup When("gradKEu" \in cfg.given, {"gradKEu"}) \cup When("gradKEv" \in cfg.given, {"gradKEv"})
                      \cup When("rv_x_u" \in cfg.given, {"rv_x_u"}) \cup When("rv_x_v" \in cfg.given, {"rv_x_v"})
             W6 == {"CAu", "CAv"} \cup cfg.given
  <1>1. CoriolisInputs \cup CoriolisSets \cup {"CAu", "CAv"} \subseteq DOMAIN T
    <2>1. CoriolisClaims(T, k, m, r) /\ VorticityClaims(T, k, m, r) /\ TransportClaims(T, k) /\ EnergyClaims(T, k)
      BY DEF CoriolisOf
    <2>2. {"CAu", "CAv"} \subseteq DOMAIN T
      BY <2>1 DEF CoriolisClaims, Has
    <2> QED BY <2>1, <2>2, CoriolisDomain
  <1>2. CoriolisSetup(cfg) \subseteq CoriolisSets
    BY DEF CoriolisSetup, CoriolisSets, When
  <1>3. Z1 \subseteq DOMAIN T /\ Z2 \subseteq DOMAIN T /\ VorticityScratch \cap Z1 = {}
    BY <1>1, <1>2 DEF VorticityScratch, CoriolisSets, CoriolisInputs, Metrics
  <1>4. W3 \subseteq CoriolisInputs \cup CoriolisSets /\ W4 \subseteq DOMAIN T
    BY <1>1, <1>2 DEF CoriolisSets
  <1>5. /\ {"q", "Ih_q", "abs_vort"} \subseteq W3
        /\ cfg.En_Dis => {"uh_center", "vh_center"} \subseteq W3
        /\ cfg.scheme \in WenoSchemes => "h_q" \in W3
        /\ cfg.given \cap {"rv_x_u", "rv_x_v"} # {} => "q2" \in W4
    BY DEF CoriolisSetup, When
  <1>6. Follows(T, W5, T, W6)
    <2>1. "RV" \in cfg.given => "RV" \in W5
      BY DEF CoriolisSetup, When
    <2>2. "PV" \in cfg.given => "PV" \in W5
      BY DEF CoriolisSetup, When
    <2>3. \A a \in {"gradKEu", "gradKEv", "rv_x_u", "rv_x_v"} : a \in cfg.given => a \in W5
      BY DEF When
    <2>4. {"CAu", "CAv"} \subseteq W5
      OBVIOUS
    <2> HIDE DEF W5
    <2>5. W6 \subseteq W5
      BY <2>1, <2>2, <2>3, <2>4 DEF Diagnostics
    <2> QED BY <2>5 DEF Follows
  <1>7. coradcalc_tr(cfg) = head \o coradv_setup(cfg) \o gradke(cfg) \o CoriolisScheme(cfg) \o coradv_common_terms(cfg)
    BY Zenon DEF coradcalc_tr, CoriolisScheme
  <1>8. Gives(T, Z0, head, T, Z1)
    BY AreasGive
  <1>9. CoriolisInputs \subseteq Z2 /\ CoriolisInputs \subseteq W3 /\ CoriolisInputs \subseteq W4
    OBVIOUS
  <1>10. {"abs_vort", "KEx", "KEy", "CAu", "CAv"} \subseteq W4
    BY <1>5
  <1> HIDE DEF head, Z0, W6
  <1>11. Gives(T, Z1, coradv_setup(cfg), T, Z2)
    BY <1>3, SetupGives
  <1> HIDE DEF Z2
  <1>12. Gives(T, Z2, gradke(cfg), T, W3)
    BY <1>3, <1>9, EnergyGives
  <1> HIDE DEF W3
  <1>13. Gives(T, W3, CoriolisScheme(cfg), T, W4)
    BY <1>4, <1>5, <1>9, SchemeGives
  <1> HIDE DEF W4
  <1>14. Gives(T, W4, coradv_common_terms(cfg), T, W5)
    BY <1>4, <1>5, <1>9, <1>10, CommonGives
  <1> HIDE DEF W5, Z1
  <1>15. Gives(T, W4, coradv_common_terms(cfg), T, W6)
    BY <1>6, <1>14, GivesLess
  <1>16. Gives(T, Z0, head \o coradv_setup(cfg) \o gradke(cfg) \o CoriolisScheme(cfg) \o coradv_common_terms(cfg), T, W6)
    BY <1>8, <1>11, <1>12, <1>13, <1>15, ThenGives
  <1> QED BY <1>7, <1>16 DEF Z0, W6

-----------------------------------------------------------------------------
\* Every array is where its name says.
LEMMA CoriolisWhere ==
    /\ {"u", "face_u", "CAu", "gradKEu", "rv_x_v"} \subseteq ZonalFields \ (AtCells \cup AtCorners)
    /\ {"v", "face_v", "CAv", "gradKEv", "rv_x_u"} \subseteq MeridionalFields \ (AtCells \cup AtCorners)
    /\ {"RV", "PV"} \subseteq AtCorners
  BY DEF ZonalFields, MeridionalFields, AtCells, AtCorners, QDiagnostics, LimitsAtQ

\* The accelerations and the diagnostics are promised, under every scheme.
LEMMA CoriolisPromise ==
    ASSUME NEW c, CallOK(c), WideEnough(c), c.kernel = "coradcalc_tr"
    PROVE  Promise(c)
  <1> DEFINE cfg == c.cfg
             H == c.cfg.halo
             r == coriolis_scheme_stencil(cfg.scheme)
             Z == CoriolisInputs
             O == {"CAu", "CAv"} \cup cfg.given
  <1>1. /\ H \in Nat /\ cfg.symmetric \in BOOLEAN /\ cfg.scheme \in CoriolisSchemes /\ cfg.given \subseteq Diagnostics
        /\ \A option \in {"up3", "En_Dis", "bound", "smooth"} : cfg[option] \in BOOLEAN
    <2>1. H \in Nat /\ cfg.symmetric \in BOOLEAN
      BY DEF CallOK
    <2>2. c.cfg.scheme \in CoriolisSchemes
      BY DEF CallOK, ContinuityKernels, SmoothingKernels, FrictionKernels, HorViscKernels
    <2>3. c.cfg.given \subseteq Diagnostics
      BY DEF CallOK, ContinuityKernels, FrictionKernels
    <2>4. \A option \in {"up3", "En_Dis", "bound", "smooth"} : c.cfg[option] \in BOOLEAN
      BY DEF CallOK, ContinuityKernels, FrictionKernels
    <2> QED BY <2>1, <2>2, <2>3, <2>4
  <1>2. Reach(c) = r /\ r <= H
    BY DEF Reach, WideEnough, ContinuityKernels
  <1>3. PICK k, m : /\ CoriolisNumbers(k, m, r) /\ CoriolisBoxes(cfg, k, m, r) /\ bxQ(cfg) = Box(k, 0, k, 0)
                    /\ cfg.scheme \in WenoSchemes => m = r
    BY <1>1, CoriolisBoxesHold
  <1>4. PICK T : /\ Even(T, CoriolisInputs) /\ CoriolisClaims(T, k, m, r) /\ VorticityClaims(T, k, m, r)
                 /\ TransportClaims(T, k) /\ EnergyClaims(T, k) /\ ArakawaClaims(T, k)
    BY <1>3, CoriolisTable
  <1>5. CoriolisOf(T, cfg, k, m, r)
    BY <1>1, <1>3, <1>4 DEF CoriolisOf
  <1> HIDE DEF r
  <1>6. k \in {0, 1} /\ m \in Nat /\ r \in {2, 3, 4} /\ bxU(cfg) = Box(k, 0, 0, 0) /\ bxV(cfg) = Box(0, 0, k, 0)
    BY <1>3 DEF CoriolisNumbers, CoriolisBoxes
  <1>7. Results(c) = O /\ Outputs(c) = O /\ KeptApart(c) = {} /\ CoriolisInputs \subseteq Passed(c)
    <2>1. Results(c) = O
      BY DEF Results
    <2>2. Updated(c) = {}
      BY DEF Updated
    <2>3. KeptApart(c) = {}
      BY DEF KeptApart
    <2>4. Passed(c) = coradcalc_tr_passed(cfg)
      BY DEF Passed
    <2>5. CoriolisInputs \subseteq coradcalc_tr_passed(cfg)
      BY DEF coradcalc_tr_passed, Metrics, CoriolisInputs
    <2> QED BY <2>1, <2>2, <2>3, <2>4, <2>5 DEF Outputs
  <1>8. CoriolisInputs \subseteq DOMAIN T /\ {"CAu", "CAv", "gradKEu", "gradKEv", "rv_x_u", "rv_x_v", "RV", "PV"} \subseteq DOMAIN T
    <2>1. CoriolisInputs \subseteq DOMAIN T
      BY <1>4, CoriolisDomain
    <2>2. {"CAu", "CAv", "gradKEu", "gradKEv", "rv_x_u", "rv_x_v"} \subseteq DOMAIN T
      BY <1>4 DEF CoriolisClaims, Has
    <2>3. {"RV", "PV"} \subseteq DOMAIN T
      BY <1>4 DEF VorticityClaims, Has
    <2> QED BY <2>1, <2>2, <2>3
  <1>9. Begins(c, T, Z)
    <2>1. PICK j \in {0, 1} : /\ bxU(cfg) = Box(j, 0, 0, 0) /\ DataBox(cfg) = Box(H, H, H, H)
                              /\ UBox(cfg) = Box(H + j, H, H, H) /\ VBox(cfg) = Box(H, H, H + j, H)
      BY <1>1, AllocatedBoxes
    <2>2. j = k
      BY <1>6, <2>1 DEF Box
    <2> SUFFICES ASSUME NEW a \in Z
                 PROVE  /\ a \in Passed(c)
                        /\ BoxClaim(T[a]) /\ Within(T[a].box, Allocated(a, c.cfg))
                        /\ Within(Box(0, 0, 0, 0), T[a].from) /\ a \in T[a].of
      BY DEF Begins
    <2>3. a \in Passed(c) /\ BoxClaim(T[a]) /\ a \in T[a].of
      BY <1>4, <1>7, <1>8 DEF Even, Table, BoxClaim
    <2>4. Within(Box(0, 0, 0, 0), Box(0, 0, 0, 0))
      BY DEF Within, Box
    <2>5. CASE a \in {"u", "face_u"}
      <3>1. T[a].box = Box(r + k, r, r, r) /\ T[a].from = Box(0, 0, 0, 0)
        BY <1>4, <2>5 DEF CoriolisClaims, Has
      <3>2. Allocated(a, cfg) = Box(H + k, H, H, H)
        BY <2>1, <2>2, <2>5, AllocatedWhere, CoriolisWhere
      <3>3. Within(Box(r + k, r, r, r), Box(H + k, H, H, H))
        BY <1>1, <1>2, <1>6 DEF Within, Box
      <3> QED BY <2>3, <2>4, <3>1, <3>2, <3>3
    <2>6. CASE a \in {"v", "face_v"}
      <3>1. T[a].box = Box(r, r, r + k, r) /\ T[a].from = Box(0, 0, 0, 0)
        BY <1>4, <2>6 DEF CoriolisClaims, Has
      <3>2. Allocated(a, cfg) = Box(H, H, H + k, H)
        BY <2>1, <2>2, <2>6, AllocatedWhere, CoriolisWhere
      <3>3. Within(Box(r, r, r + k, r), Box(H, H, H + k, H))
        BY <1>1, <1>2, <1>6 DEF Within, Box
      <3> QED BY <2>3, <2>4, <3>1, <3>2, <3>3
    <2>7. CASE a \in {"h", "uh", "vh", "cell", "corner"}
      <3>1. T[a].box = Box(r, r, r, r) /\ T[a].from = Box(0, 0, 0, 0)
        BY <1>4, <2>7 DEF CoriolisClaims, Has
      <3>2. /\ Within(Box(H, H, H, H), Allocated(a, cfg))
            /\ Box(H, H, H, H) \in Margins /\ Allocated(a, cfg) \in Margins
        BY <1>1, <2>1, DataWithin
      <3>3. Within(Box(r, r, r, r), Box(H, H, H, H)) /\ Box(r, r, r, r) \in Margins
        BY <1>1, <1>2, <1>6 DEF Within, Box, Margins
      <3>4. Within(Box(r, r, r, r), Allocated(a, cfg))
        BY <3>2, <3>3, WithinTrans
      <3> QED BY <2>3, <2>4, <3>1, <3>4
    <2> QED BY <2>5, <2>6, <2>7 DEF CoriolisInputs, Metrics
  <1>10. Gives(T, Z, KernelOf(c), T, O)
    <2>1. KernelOf(c) = coradcalc_tr(cfg)
      BY DEF KernelOf
    <2>2. Gives(T, Z, coradcalc_tr(cfg), T, O)
      BY <1>1, <1>3, <1>5, CoriolisGives DEF r
    <2> QED BY <2>1, <2>2
  <1>11. Ends(c, T, O)
    <2> SUFFICES ASSUME NEW a \in O PROVE EndsWell(c, a, T[a])
      BY <1>7 DEF Ends
    <2>1. a \in {"CAu", "CAv", "gradKEu", "gradKEv", "rv_x_u", "rv_x_v", "RV", "PV"} /\ CoriolisInputs \cap O = {}
      BY <1>1 DEF Diagnostics, CoriolisInputs, Metrics
    <2>2. BoxClaim(T[a]) /\ T[a].of = CoriolisInputs
      BY <1>4, <1>8, <2>1 DEF Even, Table, BoxClaim
    <2>3. Required(a, c) = CASE a \in AtCorners -> bxQ(cfg)
                             [] a \in OfU \ AtCorners -> bxU(cfg)
                             [] a \in OfV \ AtCorners -> bxV(cfg)
                             [] OTHER -> bx0
      BY DEF Required, ContinuityKernels
    <2>4. OfU = ZonalFields /\ OfV = MeridionalFields /\ \A z : ~(z \in OfU /\ z \in OfV)
      BY FieldsListed DEF ZonalFields, MeridionalFields
    <2>5. CASE a \in {"CAu", "gradKEu", "rv_x_v"}
      <3>1. T[a].box = Box(k, 0, 0, 0) /\ T[a].from = Box(r, r, r, r)
        BY <1>4, <2>5 DEF CoriolisClaims, Has
      <3>2. a \in OfU \ AtCorners /\ a \notin OfV /\ a \notin AtCorners
        BY <2>4, <2>5, CoriolisWhere
      <3>3. Required(a, c) = Box(k, 0, 0, 0)
        BY <1>6, <2>3, <3>2
      <3>4. Within(Box(k, 0, 0, 0), Box(k, 0, 0, 0)) /\ Within(Box(r, r, r, r), Box(r, r, r, r))
        BY <1>6 DEF Within, Box
      <3> QED BY <1>2, <1>7, <2>1, <2>2, <3>1, <3>3, <3>4 DEF EndsWell
    <2>6. CASE a \in {"CAv", "gradKEv", "rv_x_u"}
      <3>1. T[a].box = Box(0, 0, k, 0) /\ T[a].from = Box(r, r, r, r)
        BY <1>4, <2>6 DEF CoriolisClaims, Has
      <3>2. a \in OfV \ AtCorners /\ a \notin OfU /\ a \notin AtCorners
        BY <2>4, <2>6, CoriolisWhere
      <3>3. Required(a, c) = Box(0, 0, k, 0)
        BY <1>6, <2>3, <3>2
      <3>4. Within(Box(0, 0, k, 0), Box(0, 0, k, 0)) /\ Within(Box(r, r, r, r), Box(r, r, r, r))
        BY <1>6 DEF Within, Box
      <3> QED BY <1>2, <1>7, <2>1, <2>2, <3>1, <3>3, <3>4 DEF EndsWell
    <2>7. CASE a \in {"RV", "PV"}
      <3>1. T[a].box = Box(k + 1, 1, k + 1, 1) /\ T[a].from = Box(0, 1, 0, 1)
        BY <1>4, <2>7 DEF VorticityClaims, Has
      <3>2. a \in AtCorners
        BY <2>7, CoriolisWhere
      <3>3. Required(a, c) = Box(k, 0, k, 0)
        BY <1>3, <2>3, <3>2
      <3>4. Within(Box(k, 0, k, 0), Box(k + 1, 1, k + 1, 1)) /\ Within(Box(0, 1, 0, 1), Box(r, r, r, r))
        BY <1>6 DEF Within, Box
      <3> QED BY <1>2, <1>7, <2>1, <2>2, <3>1, <3>3, <3>4 DEF EndsWell
    <2> QED BY <2>1, <2>5, <2>6, <2>7
  <1> HIDE DEF Z, O
  <1> QED BY <1>9, <1>10, <1>11 DEF Promise

-----------------------------------------------------------------------------
\* A call that is led by its claims

\* Nothing done yet; copied in, with claims that are true and lead through the steps
\* that are left; or copied back, with the claims true of the host's arrays
Led(c, steps, M, back) ==
    \/ steps = Program(c) /\ M = InitialMemory(c)
    \/ /\ Layered(M)
       /\ \E k, T, Z, U, Y :
             /\ steps = k \o <<Copying("copy_back")>>
             /\ Housed(k, DOMAIN M.content)
             /\ AllKnown(T, Z, M) /\ Gives(T, Z, k, U, Y) /\ Ends(c, U, Y)
    \/ /\ steps = <<>>
       /\ \E U, Y : Ends(c, U, Y) /\ \A a \in Y \cap Returned(c) : Known(back[a], U[a])

\* What the call itself has to be for that
Leads(c) == CallOK(c) /\ CouplingGiven(c) /\ Outputs(c) \subseteq Returned(c) /\ Promise(c)

\* The invariant: both sides are led
ValuesInv ==
    /\ DOMAIN call = Sides /\ DOMAIN todo = Sides /\ DOMAIN mem = Sides /\ DOMAIN returned = Sides
    /\ \A s \in Sides :
          /\ Leads(call[s])
          /\ Led(call[s], todo[s], mem[s], returned[s])
          /\ todo[s] = <<>> => DOMAIN returned[s] = Returned(call[s])

\* The first of the steps of a kernel and of the copying back.
LEMMA FirstStep ==
    ASSUME NEW X, NEW k \in Seq(X), NEW out, NEW steps, steps = k \o <<out>>
    PROVE  /\ steps # <<>>
           /\ k = <<>> => Head(steps) = out /\ Tail(steps) = <<>>
           /\ k # <<>> => Head(steps) = Head(k) /\ Tail(steps) = Tail(k) \o <<out>>
                          /\ Head(k) \in X /\ Tail(k) \in Seq(X)
  <1> DEFINE Y == X \cup {out}
  <1>1. out \in Y /\ k \in Seq(Y)
    OBVIOUS
  <1> HIDE DEF Y
  <1>2. <<out>> \in Seq(Y)
    BY <1>1
  <1>3. CASE k = <<>>
    <2>1. steps = <<out>>
      BY <1>1, <1>2, <1>3
    <2> QED BY <2>1, <1>3
  <1>4. CASE k # <<>>
    <2>1. Head(k) \in X /\ Tail(k) \in Seq(X)
      BY <1>4
    <2>2. steps # <<>> /\ Head(steps) = Head(k)
      BY <1>1, <1>2, <1>4
    <2>3. Tail(steps) = Tail(k) \o <<out>>
      BY <1>1, <1>2, <1>4
    <2> QED BY <2>1, <2>2, <2>3, <1>4
  <1> QED BY <1>3, <1>4

\* No steps say nothing new.
LEMMA NoStepsLeft ==
    ASSUME NEW T, NEW Z, NEW U, NEW Y, Gives(T, Z, <<>>, U, Y)
    PROVE  Follows(T, Z, U, Y)
  <1>1. PICK e : /\ e[0] = <<T, Z>>
                 /\ Follows(e[Len(<<>>)][1], e[Len(<<>>)][2], U, Y)
    BY DEF Gives
  <1>2. e[0][1] = T /\ e[0][2] = Z /\ Len(<<>>) = 0
    BY <1>1
  <1> QED BY <1>1, <1>2

\* What a call begins with is true of what is copied in.
LEMMA CopiedKnown ==
    ASSUME NEW c, CallOK(c), NEW T, NEW Z, Begins(c, T, Z), NEW a \in Z
    PROVE  Known(OnHost(a, c), T[a])
  <1>1. c.cfg.halo \in Nat /\ c.cfg.symmetric \in BOOLEAN
    BY DEF CallOK
  <1> DEFINE box == Allocated(a, c.cfg)
             t == T[a]
             layers == OnHost(a, c)
             layer == Layer(box, At({a}, Here))
  <1>2. /\ t.box \in Margins /\ t.from \in Margins /\ Within(t.box, box)
        /\ Within(Box(0, 0, 0, 0), t.from) /\ a \in t.of
    BY DEF Begins, BoxClaim
  <1>3. box \in Margins
    BY <1>1, AllocatedBox
  <1>5. layer.box = box /\ layer.from = {<<a, <<0, 0>>>>}
    BY DEF Layer, At, Here
  <1>6. layers = <<layer>>
    BY DEF OnHost, Initial
  <1>7. Comes(<<a, <<0, 0>>>>, t)
    BY <1>2 DEF Comes, Offsets, Within, Box, Margins
  <1> HIDE DEF layer, layers, t, box
  <1> DEFINE X == {layer}
  <1>8. layers \in Seq(X) /\ Len(layers) = 1 /\ layers[1] = layer
    BY <1>6
  <1>9. \E Y : layers \in Seq(Y)
    BY <1>8
  <1>10. \E k \in 1 .. Len(layers) :
          /\ Within(t.box, layers[k].box)
          /\ \A l \in 1 .. k : layers[l].box \in Margins /\ \A r \in layers[l].from : Comes(r, t)
    BY <1>2, <1>3, <1>5, <1>7, <1>8
  <1> QED BY <1>2, <1>9, <1>10 DEF Known, t, layers

\* The arrays of a call are all there are.
LEMMA KernelHoused ==
    ASSUME NEW c, CallOK(c), CouplingGiven(c)
    PROVE  Housed(KernelOf(c), ArraysOf(c))
  <1> DEFINE k == KernelOf(c)
             steps == Program(c)
  <1>1. AllFit(k, MayWrite(c), ScratchOf(c))
    BY KernelFits DEF MayWrite
  <1>2. PICK X : k \in Seq(X)
    BY <1>1, SomeSeq
  <1> DEFINE in == Copying("copy_in")
             out == Copying("copy_back")
             Y == X \cup {in, out}
             W == {k[i] : i \in 1 .. Len(k)}
  <1>3. k \in Seq(Y) /\ in \in Y /\ out \in Y
    BY <1>2
  <1>4. steps = <<in>> \o k \o <<out>>
    BY DEF Program
  <1> HIDE DEF in, out, k, Y, steps
  <1>5. \A i \in 1 .. Len(k) : i + 1 \in DOMAIN steps /\ steps[i + 1] = k[i]
    BY <1>3, <1>4
  <1>6. \A i \in 1 .. Len(k) : Writes(k[i]) \subseteq ArraysOf(c)
    <2> SUFFICES ASSUME NEW i \in 1 .. Len(k) PROVE Writes(k[i]) \subseteq ArraysOf(c)
      OBVIOUS
    <2>1. k[i] \in ToSet(steps)
      BY <1>5 DEF ToSet
    <2> QED BY <2>1 DEF ArraysOf, steps
  <1>7. k \in Seq(W)
    BY <1>3
  <1> QED BY <1>6, <1>7 DEF Housed, k

\* Copying in.
LEMMA CopyInLeads ==
    ASSUME NEW c, Leads(c), NEW steps, NEW M, NEW back, Led(c, steps, M, back),
           steps # <<>>, Head(steps).op = "copy_in", NEW N,
           N = [M EXCEPT !.content = [a \in DOMAIN @ |-> IF a \in Passed(c) THEN OnHost(a, c) ELSE <<>>]]
    PROVE  Led(c, Tail(steps), N, back) /\ Tail(steps) # <<>>
  <1>1. CallOK(c) /\ CouplingGiven(c) /\ Promise(c)
    BY DEF Leads
  <1>2. \A op : Copying(op).op = op
    BY DEF Copying
  <1>3. steps = Program(c) /\ M = InitialMemory(c)
    <2>1. ASSUME NEW k, NEW T, NEW Z, NEW U, NEW Y, steps = k \o <<Copying("copy_back")>>, Gives(T, Z, k, U, Y)
          PROVE  FALSE
      <3>1. PICK X : k \in Seq(X)
        BY <2>1 DEF Gives
      <3>2. k # <<>> /\ Head(steps) = Head(k)
        BY <1>2, <2>1, <3>1, FirstStep
      <3>3. PICK S, W : StepGives(T, Z, Head(k), S, W)
        BY <2>1, <3>2, FirstGives
      <3> QED BY <3>2, <3>3 DEF StepGives
    <2> QED BY <2>1 DEF Led
  <1>4. Tail(steps) = KernelOf(c) \o <<Copying("copy_back")>>
    BY <1>1, <1>3, ProgramSteps
  <1>5. PICK T, Z, U, Y : Begins(c, T, Z) /\ Gives(T, Z, KernelOf(c), U, Y) /\ Ends(c, U, Y)
    BY <1>1 DEF Promise
  <1>6. "content" \in DOMAIN M /\ DOMAIN M.content = ArraysOf(c) /\ Passed(c) \subseteq DOMAIN M.content
    BY <1>3 DEF InitialMemory, ArraysOf
  <1>7. /\ DOMAIN N = DOMAIN M
        /\ N.content = [a \in DOMAIN M.content |-> IF a \in Passed(c) THEN OnHost(a, c) ELSE <<>>]
    BY <1>6
  <1>8. Layered(N)
    <2>1. "content" \in DOMAIN N /\ DOMAIN N.content = DOMAIN M.content
      BY <1>6, <1>7
    <2>2. ASSUME NEW a \in DOMAIN N.content PROVE \E X : N.content[a] \in Seq(X)
      <3>1. CASE a \in Passed(c)
        <4> DEFINE layer == Layer(Allocated(a, c.cfg), At({a}, Here))
        <4>1. N.content[a] = <<layer>>
          BY <1>7, <2>1, <3>1 DEF OnHost, Initial
        <4> HIDE DEF layer
        <4> DEFINE X == {layer}
        <4>2. layer \in X
          OBVIOUS
        <4> HIDE DEF X
        <4>3. <<layer>> \in Seq(X)
          BY <4>2
        <4> QED BY <4>1, <4>3, Zenon
      <3>2. CASE a \notin Passed(c)
        <4>1. N.content[a] = <<>>
          BY <1>7, <2>1, <3>2
        <4>2. <<>> \in Seq({})
          OBVIOUS
        <4> QED BY <4>1, <4>2
      <3> QED BY <3>1, <3>2
    <2> QED BY <2>1, <2>2 DEF Layered
  <1>9. AllKnown(T, Z, N)
    <2> SUFFICES ASSUME NEW a \in Z PROVE a \in DOMAIN N.content /\ Known(N.content[a], T[a])
      BY DEF AllKnown
    <2>1. a \in Passed(c)
      BY <1>5 DEF Begins
    <2>2. a \in DOMAIN N.content /\ N.content[a] = OnHost(a, c)
      BY <1>6, <1>7, <2>1
    <2> QED BY <1>1, <1>5, <2>2, CopiedKnown
  <1>10. Housed(KernelOf(c), DOMAIN N.content)
    <2>1. DOMAIN N.content = ArraysOf(c)
      BY <1>6, <1>7
    <2> QED BY <1>1, <2>1, KernelHoused
  <1>11. \E X : KernelOf(c) \in Seq(X)
    BY <1>10 DEF Housed
  <1>12. Tail(steps) # <<>>
    BY <1>4, <1>11, FirstStep
  <1> QED BY <1>4, <1>5, <1>8, <1>9, <1>10, <1>12 DEF Led

\* The steps that are left when the next one is the kernel's.
LEMMA MidLeads ==
    ASSUME NEW c, Leads(c), NEW steps, NEW M, NEW back, Led(c, steps, M, back),
           steps # <<>>, Head(steps).op # "copy_in", Head(steps).op # "copy_back"
    PROVE  /\ Layered(M)
           /\ \E rest, T, Z, S, W, U, Y :
                 /\ Tail(steps) = rest \o <<Copying("copy_back")>>
                 /\ Housed(rest, DOMAIN M.content) /\ Writes(Head(steps)) \subseteq DOMAIN M.content
                 /\ AllKnown(T, Z, M) /\ StepGives(T, Z, Head(steps), S, W)
                 /\ Gives(S, W, rest, U, Y) /\ Ends(c, U, Y)
  <1>1. \A op : Copying(op).op = op
    BY DEF Copying
  <1>2. steps # Program(c)
    BY <1>1, ProgramSteps DEF Leads
  <1>3. Layered(M)
    BY <1>2 DEF Led
  <1>4. PICK k, T, Z, U, Y :
             /\ steps = k \o <<Copying("copy_back")>>
             /\ Housed(k, DOMAIN M.content)
             /\ AllKnown(T, Z, M) /\ Gives(T, Z, k, U, Y) /\ Ends(c, U, Y)
    BY <1>2 DEF Led
  <1>5. PICK X : k \in Seq(X) /\ \A x \in X : Writes(x) \subseteq DOMAIN M.content
    BY <1>4 DEF Housed
  <1> DEFINE out == Copying("copy_back")
  <1>9. out.op = "copy_back"
    BY <1>1
  <1> HIDE DEF out
  <1>10. k \in Seq(X) /\ steps = k \o <<out>>
    BY <1>4, <1>5 DEF out
  <1>11. k # <<>>
    <2> SUFFICES ASSUME k = <<>> PROVE FALSE
      OBVIOUS
    <2>1. Head(steps) = out
      BY <1>10, FirstStep
    <2> QED BY <2>1, <1>9
  <1>6. k # <<>> /\ Head(steps) = Head(k) /\ Tail(steps) = Tail(k) \o <<Copying("copy_back")>>
        /\ Head(k) \in X /\ Tail(k) \in Seq(X)
    BY <1>10, <1>11, FirstStep DEF out
  <1>7. PICK S, W : StepGives(T, Z, Head(k), S, W) /\ Gives(S, W, Tail(k), U, Y)
    BY <1>4, <1>6, FirstGives
  <1>8. Housed(Tail(k), DOMAIN M.content) /\ Writes(Head(steps)) \subseteq DOMAIN M.content
    BY <1>5, <1>6 DEF Housed
  <1> QED BY <1>3, <1>4, <1>6, <1>7, <1>8

\* A loop.
LEMMA LoopLeads ==
    ASSUME NEW c, Leads(c), NEW steps, NEW M, NEW back, Led(c, steps, M, back),
           steps # <<>>, Head(steps).op = "loop"
    PROVE  Led(c, Tail(steps), AfterLoop(M, Head(steps)), back) /\ Tail(steps) # <<>>
  <1>1. PICK rest, T, Z, S, W, U, Y :
                 /\ Tail(steps) = rest \o <<Copying("copy_back")>>
                 /\ Housed(rest, DOMAIN M.content) /\ Writes(Head(steps)) \subseteq DOMAIN M.content
                 /\ AllKnown(T, Z, M) /\ StepGives(T, Z, Head(steps), S, W)
                 /\ Gives(S, W, rest, U, Y) /\ Ends(c, U, Y)
    BY MidLeads
  <1>2. Layered(M)
    BY MidLeads
  <1> DEFINE N == AfterLoop(M, Head(steps))
  <1>3. Layered(N) /\ DOMAIN N.content = DOMAIN M.content /\ AllKnown(S, W, N)
    BY <1>1, <1>2, LoopTells
  <1> HIDE DEF N
  <1>4. Led(c, Tail(steps), N, back)
    BY <1>1, <1>3 DEF Led
  <1>5. \E X : rest \in Seq(X)
    BY <1>1 DEF Housed
  <1>6. Tail(steps) # <<>>
    BY <1>1, <1>5, FirstStep
  <1> QED BY <1>4, <1>6 DEF N

\* An allocation.
LEMMA ScratchLeads ==
    ASSUME NEW c, Leads(c), NEW steps, NEW M, NEW back, Led(c, steps, M, back),
           steps # <<>>, Head(steps).op = "scratch"
    PROVE  Led(c, Tail(steps), AfterScratch(M, Head(steps)), back) /\ Tail(steps) # <<>>
  <1>1. PICK rest, T, Z, S, W, U, Y :
                 /\ Tail(steps) = rest \o <<Copying("copy_back")>>
                 /\ Housed(rest, DOMAIN M.content) /\ Writes(Head(steps)) \subseteq DOMAIN M.content
                 /\ AllKnown(T, Z, M) /\ StepGives(T, Z, Head(steps), S, W)
                 /\ Gives(S, W, rest, U, Y) /\ Ends(c, U, Y)
    BY MidLeads
  <1>2. Layered(M)
    BY MidLeads
  <1> DEFINE N == AfterScratch(M, Head(steps))
  <1>3. Layered(N) /\ DOMAIN N.content = DOMAIN M.content /\ AllKnown(S, W, N)
    BY <1>1, <1>2, ScratchTells
  <1> HIDE DEF N
  <1>4. Led(c, Tail(steps), N, back)
    BY <1>1, <1>3 DEF Led
  <1>5. \E X : rest \in Seq(X)
    BY <1>1 DEF Housed
  <1>6. Tail(steps) # <<>>
    BY <1>1, <1>5, FirstStep
  <1> QED BY <1>4, <1>6 DEF N

\* Copying back.
LEMMA CopyBackLeads ==
    ASSUME NEW c, Leads(c), NEW steps, NEW M, NEW back, Led(c, steps, M, back),
           steps # <<>>, Head(steps).op = "copy_back", NEW N, NEW now,
           now = [a \in Returned(c) |-> M.content[a]]
    PROVE  Tail(steps) = <<>> /\ Led(c, Tail(steps), N, now)
  <1>1. \A op : Copying(op).op = op
    BY DEF Copying
  <1>2. steps # Program(c)
    BY <1>1, ProgramSteps DEF Leads
  <1>3. PICK k, T, Z, U, Y :
             /\ steps = k \o <<Copying("copy_back")>>
             /\ Housed(k, DOMAIN M.content)
             /\ AllKnown(T, Z, M) /\ Gives(T, Z, k, U, Y) /\ Ends(c, U, Y)
    BY <1>2 DEF Led
  <1>4. PICK X : k \in Seq(X)
    BY <1>3 DEF Gives
  <1>5. k = <<>>
    <2> SUFFICES ASSUME k # <<>> PROVE FALSE
      OBVIOUS
    <2>1. Head(steps) = Head(k)
      BY <1>3, <1>4, FirstStep
    <2>2. PICK S, W : StepGives(T, Z, Head(k), S, W)
      BY <1>3, FirstGives
    <2> QED BY <2>1, <2>2 DEF StepGives
  <1>6. Tail(steps) = <<>>
    BY <1>3, <1>4, <1>5, FirstStep
  <1>7. Follows(T, Z, U, Y)
    BY <1>3, <1>5, NoStepsLeft
  <1>8. \A a \in Y \cap Returned(c) : Known(now[a], U[a])
    BY <1>3, <1>7 DEF Follows, AllKnown
  <1> QED BY <1>3, <1>6, <1>8 DEF Led

-----------------------------------------------------------------------------
\* The transposed call of a consistent one

\* No array has two partners.
LEMMA PairsApart ==
    \A p, q \in AllPairs : (p[1] = q[1] <=> p[2] = q[2]) /\ p[1] # q[2]
  <1>1. \A p \in AllPairs : p = <<p[1], p[2]>>
    BY PairsArePairs
  <1>2. \A a, b, d : <<a, b>> \in AllPairs /\ <<a, d>> \in AllPairs => b = d
    BY SMTT(60) DEF AllPairs, Pairs, FrictionPairs, OptionPairs
  <1>3. \A a, b, d : <<b, a>> \in AllPairs /\ <<d, a>> \in AllPairs => b = d
    BY SMTT(60) DEF AllPairs, Pairs, FrictionPairs, OptionPairs
  <1>4. \A a, b, d : <<a, b>> \in AllPairs => <<d, a>> \notin AllPairs
    BY SMTT(60) DEF AllPairs, Pairs, FrictionPairs, OptionPairs
  <1> QED BY <1>1, <1>2, <1>3, <1>4

\* The two of a pair are each other's partners.
LEMMA PartnersAre ==
    ASSUME NEW a, NEW b, <<a, b>> \in AllPairs
    PROVE  Partner(a) = b /\ Partner(b) = a
  <1>1. \A d, e : <<d, e>> \in AllPairs => (d = a <=> e = b) /\ d # b /\ e # a
    <2> SUFFICES ASSUME NEW d, NEW e, <<d, e>> \in AllPairs PROVE (d = a <=> e = b) /\ d # b /\ e # a
      OBVIOUS
    <2> DEFINE p == <<a, b>>
               q == <<d, e>>
    <2>1. p \in AllPairs /\ q \in AllPairs /\ p[1] = a /\ p[2] = b /\ q[1] = d /\ q[2] = e
      OBVIOUS
    <2> HIDE DEF p, q
    <2> QED BY <2>1, PairsApart
  <1>2. a \in Paired /\ b \in Paired
    <2> DEFINE p == <<a, b>>
    <2>1. p \in AllPairs /\ p[1] = a /\ p[2] = b
      OBVIOUS
    <2> HIDE DEF p
    <2> QED BY <2>1 DEF Paired
  <1>3. Partner(a) = b
    BY <1>1, <1>2, PartnerOf
  <1>4. Partner(b) = a
    BY <1>1, <1>2, PartnerOf
  <1> QED BY <1>3, <1>4

\* The partner's partner is the array itself.
LEMMA PartnerBack ==
    ASSUME NEW a
    PROVE  Partner(Partner(a)) = a
  <1>1. CASE a \notin Paired /\ Partner(a) = a
    BY <1>1
  <1>2. CASE <<a, Partner(a)>> \in AllPairs
    BY <1>2, PartnersAre
  <1>3. CASE <<Partner(a), a>> \in AllPairs
    BY <1>3, PartnersAre
  <1> QED BY <1>1, <1>2, <1>3, PartnerOf

\* An array is given to the transposed call when its partner is given to the call.
LEMMA MirroredHas ==
    ASSUME NEW A, NEW b
    PROVE  b \in {Partner(a) : a \in A} <=> Partner(b) \in A
  <1> DEFINE B == {Partner(a) : a \in A}
  <1>1. ASSUME b \in B PROVE Partner(b) \in A
    <2>1. PICK a \in A : b = Partner(a)
      BY <1>1
    <2> QED BY <2>1, PartnerBack
  <1>2. ASSUME Partner(b) \in A PROVE b \in B
    <2>1. Partner(Partner(b)) = b
      BY PartnerBack
    <2> QED BY <1>2, <2>1
  <1> QED BY <1>1, <1>2

\* Arrays that go together with others, and their partners
TogetherPairs ==
    {<<"uhbt", "vhbt">>, <<"u_cor", "v_cor">>, <<"FA_u", "FA_v">>, <<"h_u", "h_v">>,
     <<"visc_rem_u", "visc_rem_v">>, <<"u_old", "v_old">>, <<"vel_report_u", "vel_report_v">>,
     <<"dowrite_u", "dowrite_v">>, <<"taux", "tauy">>, <<"KE_u", "KE_v">>,
     <<"du_dt_visc_gl90", "dv_dt_visc_gl90">>, <<"du_dt_visc", "dv_dt_visc">>, <<"a_u_gl90", "a_v_gl90">>,
     <<"taux_shelf", "tauy_shelf">>, <<"a1_shelf_u", "a1_shelf_v">>, <<"Us_x", "Us_y">>,
     <<"Kv_gl90_u", "Kv_gl90_v">>, <<"Kv_bbl_u", "Kv_bbl_v">>, <<"bbl_thick_u", "bbl_thick_v">>,
     <<"nkml_visc_u", "nkml_visc_v">>, <<"frac_shelf_u", "frac_shelf_v">>,
     <<"tbl_thick_shelf_u", "tbl_thick_shelf_v">>, <<"Kv_tbl_shelf_u", "Kv_tbl_shelf_v">>,
     <<"do_report_u", "do_report_v">>, <<"do_du_dt_visc_gl90", "do_dv_dt_visc_gl90">>}

\* Arrays and switches of both directions
OfNeither ==
    {"fpmix", "do_GLwork", "use_GL90_in_SSW", "read_kappa_gl90", "kappa_gl90_2d", "bottomdraglaw", "Ustar_2d",
     "dynamic_viscous_ML", "nkml", "Kvml", "fixed_LOTW_ML", "apply_LOTW_floor"}

\* They are partners of each other, and of nothing else.
LEMMA PartnerNames ==
    /\ \A p \in TogetherPairs : p = <<p[1], p[2]>> /\ Partner(p[1]) = p[2] /\ Partner(p[2]) = p[1]
    /\ \A a \in OfNeither : Partner(a) = a
  <1>1. TogetherPairs \subseteq AllPairs
    BY SMTT(60) DEF TogetherPairs, AllPairs, Pairs, FrictionPairs, OptionPairs
  <1>2. ASSUME NEW p \in TogetherPairs
        PROVE  p = <<p[1], p[2]>> /\ Partner(p[1]) = p[2] /\ Partner(p[2]) = p[1]
    <2>1. p = <<p[1], p[2]>> /\ p \in AllPairs
      BY <1>1, PairsArePairs
    <2>2. <<p[1], p[2]>> \in AllPairs
      BY <2>1, Zenon
    <2> QED BY <2>1, <2>2, PartnersAre
  <1>3. \A a \in OfNeither : \A b : <<a, b>> \notin AllPairs /\ <<b, a>> \notin AllPairs
    BY SMTT(60) DEF OfNeither, AllPairs, Pairs, FrictionPairs, OptionPairs
  <1> QED BY <1>2, <1>3, PartnerOf

\* Nothing of the horizontal viscosity's options has a direction.
LEMMA HorViscPlain ==
    ASSUME NEW a \in HorViscSwitches \cup MixingFields \cup HDiagnostics \cup QDiagnostics
    PROVE  Partner(a) = a
  <1>1. \A b \in HorViscSwitches \cup MixingFields : \A d : <<b, d>> \notin AllPairs /\ <<d, b>> \notin AllPairs
    BY SMTT(60) DEF HorViscSwitches, MixingFields, AllPairs, Pairs, FrictionPairs, OptionPairs
  <1>2. \A b \in HDiagnostics \cup QDiagnostics : \A d : <<b, d>> \notin AllPairs /\ <<d, b>> \notin AllPairs
    BY SMTT(60) DEF HDiagnostics, QDiagnostics, AllPairs, Pairs, FrictionPairs, OptionPairs
  <1> QED BY <1>1, <1>2, PartnerOf

\* What makes a call consistent, kernel by kernel
LEMMA ConsistentWhen ==
    ASSUME NEW c
    PROVE  /\ c.kernel = "continuity_PPM" /\ BothRemnantsOrNeither(c.cfg) /\ OutputsTogether(c.cfg) => Consistent(c)
           /\ c.kernel = "horizontal_viscosity_tr" /\ OptionsGoTogether(c.cfg) => Consistent(c)
           /\ c.kernel = "vertvisc_limit_vel" /\ ReportsTogether(c.cfg) => Consistent(c)
           /\ c.kernel = "vertvisc_coef_tr" /\ CoefTogether(c.cfg) => Consistent(c)
           /\ c.kernel = "vertvisc_tr" /\ FrictionTogether(c.cfg) => Consistent(c)
           /\ c.kernel \notin {"continuity_PPM", "horizontal_viscosity_tr", "vertvisc_limit_vel", "vertvisc_coef_tr",
                               "vertvisc_tr"} => Consistent(c)
  <1>1. c.kernel = "continuity_PPM" /\ BothRemnantsOrNeither(c.cfg) /\ OutputsTogether(c.cfg) => Consistent(c)
    BY Zenon DEF Consistent
  <1>2. c.kernel = "horizontal_viscosity_tr" /\ OptionsGoTogether(c.cfg) => Consistent(c)
    BY Zenon DEF Consistent
  <1>3. c.kernel = "vertvisc_limit_vel" /\ ReportsTogether(c.cfg) => Consistent(c)
    BY Zenon DEF Consistent
  <1>4. c.kernel = "vertvisc_coef_tr" /\ CoefTogether(c.cfg) => Consistent(c)
    BY Zenon DEF Consistent
  <1>5. c.kernel = "vertvisc_tr" /\ FrictionTogether(c.cfg) => Consistent(c)
    BY Zenon DEF Consistent
  <1>6. c.kernel \notin {"continuity_PPM", "horizontal_viscosity_tr", "vertvisc_limit_vel", "vertvisc_coef_tr",
                         "vertvisc_tr"} => Consistent(c)
    BY Zenon DEF Consistent
  <1> QED BY <1>1, <1>2, <1>3, <1>4, <1>5, <1>6

\* The options of the transposed call go together as those of the call do, and its
\* halos are as wide.
LEMMA MirroredConsistent ==
    ASSUME NEW c, CallOK(c), Consistent(c), WideEnough(c)
    PROVE  Consistent(Mirrored(c)) /\ WideEnough(Mirrored(c))
  <1> DEFINE m == Mirrored(c)
  <1>1. /\ DOMAIN m.cfg = DOMAIN c.cfg
        /\ m.kernel = c.kernel
        /\ m.cfg.given = {Partner(a) : a \in c.cfg.given}
        /\ m.cfg.on = {Partner(a) : a \in c.cfg.on}
        /\ m.cfg.halo = c.cfg.halo
        /\ \A k \in DOMAIN c.cfg \ {"given", "on"} : m.cfg[k] = c.cfg[k]
    BY MirroredFields
  <1> HIDE DEF m
  <1>2. \A b : (b \in m.cfg.given <=> Partner(b) \in c.cfg.given) /\ (b \in m.cfg.on <=> Partner(b) \in c.cfg.on)
    <2> SUFFICES ASSUME NEW b
                 PROVE  (b \in m.cfg.given <=> Partner(b) \in c.cfg.given) /\ (b \in m.cfg.on <=> Partner(b) \in c.cfg.on)
      OBVIOUS
    <2>1. b \in m.cfg.given <=> Partner(b) \in c.cfg.given
      BY <1>1, MirroredHas
    <2>2. b \in m.cfg.on <=> Partner(b) \in c.cfg.on
      BY <1>1, MirroredHas
    <2> QED BY <2>1, <2>2
  <1>3. \A p \in TogetherPairs :
           /\ p[1] \in m.cfg.given <=> p[2] \in c.cfg.given
           /\ p[2] \in m.cfg.given <=> p[1] \in c.cfg.given
           /\ p[1] \in m.cfg.on <=> p[2] \in c.cfg.on
           /\ p[2] \in m.cfg.on <=> p[1] \in c.cfg.on
    BY <1>2, PartnerNames
  <1>4. \A a \in OfNeither : (a \in m.cfg.given <=> a \in c.cfg.given) /\ (a \in m.cfg.on <=> a \in c.cfg.on)
    BY <1>2, PartnerNames
  <1> DEFINE Swapped(x, y) == /\ x \in m.cfg.given <=> y \in c.cfg.given
                              /\ y \in m.cfg.given <=> x \in c.cfg.given
                              /\ x \in m.cfg.on <=> y \in c.cfg.on
                              /\ y \in m.cfg.on <=> x \in c.cfg.on
  <1>5. ASSUME NEW x, NEW y, <<x, y>> \in TogetherPairs PROVE Swapped(x, y)
    <2> DEFINE p == <<x, y>>
    <2>1. p \in TogetherPairs /\ p[1] = x /\ p[2] = y
      BY <1>5
    <2> HIDE DEF p
    <2> QED BY <2>1, <1>3
  <1>6. ASSUME c.kernel = "continuity_PPM" PROVE Consistent(m)
    <2>1. Swapped("uhbt", "vhbt") /\ Swapped("u_cor", "v_cor") /\ Swapped("FA_u", "FA_v") /\ Swapped("h_u", "h_v")
          /\ Swapped("visc_rem_u", "visc_rem_v")
      BY <1>5 DEF TogetherPairs
    <2>2. BothRemnantsOrNeither(c.cfg) /\ OutputsTogether(c.cfg)
      BY <1>6 DEF Consistent
    <2>3. BothRemnantsOrNeither(m.cfg) /\ OutputsTogether(m.cfg)
      BY <2>1, <2>2 DEF BothRemnantsOrNeither, OutputsTogether
    <2> QED BY <1>1, <1>6, <2>3, ConsistentWhen
  <1>7. ASSUME c.kernel = "horizontal_viscosity_tr" PROVE Consistent(m)
    <2>1. c.cfg.on \subseteq HorViscSwitches \cup MixingFields /\ c.cfg.given \subseteq HDiagnostics \cup QDiagnostics
      BY <1>7 DEF CallOK, ContinuityKernels, FrictionKernels
    <2>2. m.cfg.on = c.cfg.on /\ m.cfg.given = c.cfg.given
      BY <1>1, <2>1, HorViscPlain
    <2>3. OptionsGoTogether(c.cfg)
      BY <1>7 DEF Consistent
    <2>4. OptionsGoTogether(m.cfg)
      BY <2>2, <2>3 DEF OptionsGoTogether, find_FrictWork, find_FrictWork_bh, AnyBound, On, Wanted
    <2> QED BY <1>1, <1>7, <2>4, ConsistentWhen
  <1>8. Swapped("u_old", "v_old") /\ Swapped("vel_report_u", "vel_report_v") /\ Swapped("dowrite_u", "dowrite_v")
        /\ Swapped("do_report_u", "do_report_v")
    BY <1>5 DEF TogetherPairs
  <1>9. ReportsTogether(c.cfg) => ReportsTogether(m.cfg)
    BY <1>8 DEF ReportsTogether, On
  <1>10. Swapped("Us_x", "Us_y") /\ Swapped("frac_shelf_u", "frac_shelf_v")
    BY <1>5 DEF TogetherPairs
  <1>11. BothDirections(c.cfg) =>
           /\ BothDirections(m.cfg) /\ (Wanted(m.cfg, "Us_x") <=> Wanted(c.cfg, "Us_x"))
           /\ (Wanted(m.cfg, "frac_shelf_u") <=> Wanted(c.cfg, "frac_shelf_u"))
    <2> SUFFICES ASSUME BothDirections(c.cfg)
                 PROVE  /\ BothDirections(m.cfg) /\ (Wanted(m.cfg, "Us_x") <=> Wanted(c.cfg, "Us_x"))
                        /\ (Wanted(m.cfg, "frac_shelf_u") <=> Wanted(c.cfg, "frac_shelf_u"))
      OBVIOUS
    <2>1. /\ ("Us_x" \in c.cfg.given) = ("Us_y" \in c.cfg.given)
          /\ ("frac_shelf_u" \in c.cfg.given) = ("frac_shelf_v" \in c.cfg.given)
      BY DEF BothDirections, Wanted
    <2> QED BY <1>10, <2>1 DEF BothDirections, Wanted
  <1>12. ASSUME c.kernel = "vertvisc_limit_vel" PROVE Consistent(m)
    <2>1. ReportsTogether(c.cfg)
      BY <1>12 DEF Consistent
    <2> QED BY <1>1, <1>9, <1>12, <2>1, ConsistentWhen
  <1>13. ASSUME c.kernel = "vertvisc_tr" PROVE Consistent(m)
    <2>1. FrictionTogether(c.cfg)
      BY <1>13 DEF Consistent
    <2>2. Swapped("taux", "tauy") /\ Swapped("KE_u", "KE_v") /\ Swapped("du_dt_visc_gl90", "dv_dt_visc_gl90")
          /\ Swapped("du_dt_visc", "dv_dt_visc") /\ Swapped("a_u_gl90", "a_v_gl90")
          /\ Swapped("taux_shelf", "tauy_shelf") /\ Swapped("a1_shelf_u", "a1_shelf_v")
          /\ Swapped("do_du_dt_visc_gl90", "do_dv_dt_visc_gl90")
      BY <1>5 DEF TogetherPairs
    <2>3. ("fpmix" \in m.cfg.on <=> "fpmix" \in c.cfg.on) /\ ("do_GLwork" \in m.cfg.on <=> "do_GLwork" \in c.cfg.on)
      BY <1>4 DEF OfNeither
    <2>4. BothDirections(c.cfg) /\ ReportsTogether(c.cfg)
      BY <2>1 DEF FrictionTogether
    <2>5. BothDirections(m.cfg) /\ ReportsTogether(m.cfg) /\ (Wanted(m.cfg, "Us_x") <=> Wanted(c.cfg, "Us_x"))
      BY <2>4, <1>9, <1>11
    <2> HIDE DEF Swapped
    <2>6. {"taux", "tauy"} \subseteq m.cfg.given /\ (On(m.cfg, "fpmix") => Wanted(m.cfg, "Us_x"))
      BY <2>1, <2>2, <2>3, <2>5 DEF FrictionTogether, On, Swapped
    <2>7. On(m.cfg, "do_GLwork") => {"KE_u", "KE_v", "du_dt_visc_gl90", "dv_dt_visc_gl90"} \subseteq m.cfg.given
      BY <2>1, <2>2, <2>3 DEF FrictionTogether, On, Swapped
    <2>8. /\ m.cfg.on \cap {"do_du_dt_visc_gl90", "do_GLwork"} # {} /\ Wanted(m.cfg, "du_dt_visc_gl90") =>
                {"du_dt_visc", "a_u_gl90"} \subseteq m.cfg.given
          /\ m.cfg.on \cap {"do_dv_dt_visc_gl90", "do_GLwork"} # {} /\ Wanted(m.cfg, "dv_dt_visc_gl90") =>
                {"dv_dt_visc", "a_v_gl90"} \subseteq m.cfg.given
      BY <2>1, <2>2, <2>3 DEF FrictionTogether, Wanted, Swapped
    <2>9. /\ Wanted(m.cfg, "taux_shelf") => Wanted(m.cfg, "a1_shelf_u")
          /\ Wanted(m.cfg, "tauy_shelf") => Wanted(m.cfg, "a1_shelf_v")
      BY <2>1, <2>2 DEF FrictionTogether, Wanted, Swapped
    <2>10. FrictionTogether(m.cfg)
      BY <2>5, <2>6, <2>7, <2>8, <2>9 DEF FrictionTogether
    <2> QED BY <1>1, <1>13, <2>10, ConsistentWhen
  <1>14. ASSUME c.kernel = "vertvisc_coef_tr" PROVE Consistent(m)
    <2>1. CoefTogether(c.cfg)
      BY <1>14 DEF Consistent
    <2>2. Swapped("a_u_gl90", "a_v_gl90") /\ Swapped("Kv_gl90_u", "Kv_gl90_v") /\ Swapped("Kv_bbl_u", "Kv_bbl_v")
          /\ Swapped("bbl_thick_u", "bbl_thick_v") /\ Swapped("nkml_visc_u", "nkml_visc_v")
          /\ Swapped("tbl_thick_shelf_u", "tbl_thick_shelf_v") /\ Swapped("Kv_tbl_shelf_u", "Kv_tbl_shelf_v")
          /\ Swapped("a1_shelf_u", "a1_shelf_v")
      BY <1>5 DEF TogetherPairs
    <2>3. \A a \in OfNeither : (a \in m.cfg.given <=> a \in c.cfg.given) /\ (a \in m.cfg.on <=> a \in c.cfg.on)
      BY <1>4
    <2>4. BothDirections(m.cfg) /\ (Wanted(m.cfg, "frac_shelf_u") <=> Wanted(c.cfg, "frac_shelf_u"))
      BY <2>1, <1>11 DEF CoefTogether
    <2> HIDE DEF Swapped
    <2>5. /\ On(m.cfg, "use_GL90_in_SSW") => GL90Coupling \subseteq m.cfg.given
          /\ m.cfg.given \cap (GL90Coupling \cup {"Kv_gl90_u", "Kv_gl90_v"}) # {} => On(m.cfg, "use_GL90_in_SSW")
      BY <2>1, <2>2, <2>3 DEF CoefTogether, On, GL90Coupling, OfNeither, Swapped
    <2>6. /\ On(m.cfg, "read_kappa_gl90") => Wanted(m.cfg, "kappa_gl90_2d")
          /\ SurfaceLayer(m.cfg) => Wanted(m.cfg, "Ustar_2d")
      BY <2>1, <2>3 DEF CoefTogether, On, Wanted, OfNeither, SurfaceLayer
    <2>7. /\ On(m.cfg, "bottomdraglaw") => {"Kv_bbl_u", "Kv_bbl_v", "bbl_thick_u", "bbl_thick_v"} \subseteq m.cfg.given
          /\ On(m.cfg, "dynamic_viscous_ML") => {"nkml_visc_u", "nkml_visc_v"} \subseteq m.cfg.given
      BY <2>1, <2>2, <2>3 DEF CoefTogether, On, OfNeither, Swapped
    <2>8. Wanted(m.cfg, "frac_shelf_u") =>
             {"tbl_thick_shelf_u", "tbl_thick_shelf_v", "Kv_tbl_shelf_u", "Kv_tbl_shelf_v"} \cup ShelfCoupling
               \subseteq m.cfg.given
      BY <2>1, <2>2, <2>4 DEF CoefTogether, ShelfCoupling, Swapped
    <2>9. CoefTogether(m.cfg)
      BY <2>4, <2>5, <2>6, <2>7, <2>8 DEF CoefTogether
    <2> QED BY <1>1, <1>14, <2>9, ConsistentWhen
  <1>15. ASSUME c.kernel \notin {"continuity_PPM", "horizontal_viscosity_tr", "vertvisc_limit_vel", "vertvisc_coef_tr",
                                 "vertvisc_tr"}
         PROVE  Consistent(m)
    BY <1>1, <1>15, ConsistentWhen
  <1>16. Consistent(m)
    BY <1>6, <1>7, <1>12, <1>13, <1>14, <1>15
  <1>17. WideEnough(m)
    <2>1. CASE c.kernel \in ContinuityKernels
      <3>1. {"scheme", "aggress", "stencil"} \subseteq DOMAIN c.cfg
        BY <2>1 DEF CallOK, ContinuityKernels, FrictionKernels
      <3>2. m.cfg.scheme = c.cfg.scheme /\ m.cfg.aggress = c.cfg.aggress /\ m.cfg.stencil = c.cfg.stencil
        BY <1>1, <3>1
      <3>3. Reach(m) = Reach(c)
        BY <1>1, <2>1, <3>2 DEF Reach
      <3> QED BY <1>1, <2>1, <3>2, <3>3 DEF WideEnough
    <2>2. CASE c.kernel = "coradcalc_tr"
      <3>1. "scheme" \in DOMAIN c.cfg
        BY <2>2 DEF CallOK, ContinuityKernels, FrictionKernels
      <3>2. m.cfg.scheme = c.cfg.scheme
        BY <1>1, <3>1
      <3>3. Reach(m) = Reach(c)
        BY <1>1, <2>2, <3>2 DEF Reach, ContinuityKernels
      <3> QED BY <1>1, <2>2, <3>2, <3>3 DEF WideEnough, ContinuityKernels
    <2>3. CASE c.kernel = "horizontal_viscosity_tr"
      <3>1. c.cfg.on \subseteq HorViscSwitches \cup MixingFields
        BY <2>3 DEF CallOK, ContinuityKernels, FrictionKernels
      <3>2. m.cfg.on = c.cfg.on
        BY <1>1, <3>1, HorViscPlain
      <3>3. Reach(m) = Reach(c)
        BY <1>1, <2>3, <3>2 DEF Reach, ContinuityKernels, AnyLeith
      <3> QED BY <1>1, <2>3, <3>3 DEF WideEnough, ContinuityKernels
    <2>4. CASE c.kernel \notin ContinuityKernels \cup {"coradcalc_tr", "horizontal_viscosity_tr"}
      <3>1. Reach(m) = Reach(c)
        BY <1>1, <2>4 DEF Reach
      <3> QED BY <1>1, <2>4, <3>1 DEF WideEnough
    <2> QED BY <2>1, <2>2, <2>3, <2>4
  <1> QED BY <1>16, <1>17 DEF m

-----------------------------------------------------------------------------
\* Every output is copied back

\* A consistent call has its bridge return every result, and all it changes in place.
LEMMA OutputsReturned ==
    ASSUME NEW c, CallOK(c), Consistent(c)
    PROVE  Outputs(c) \subseteq Returned(c)
  <1>1. c.kernel \in Kernels
    BY DEF CallOK
  <1>2. ASSUME c.kernel = "continuity_PPM" PROVE Outputs(c) \subseteq Returned(c)
    <2>1. Outputs(c) = {"h", "uh", "vh"} \cup (c.cfg.given \cap OptionalOutputs)
      BY <1>2 DEF Outputs, Results, Updated
    <2>2. Returned(c) = continuity_ppm_returned(c.cfg)
      BY <1>2 DEF Returned
    <2> QED BY <2>1, <2>2 DEF continuity_ppm_returned, GivenOf
  <1>3. ASSUME c.kernel = "continuity_PPM_2d_fluxes" PROVE Outputs(c) \subseteq Returned(c)
    <2>1. Outputs(c) = {"uhbt", "vhbt"}
      BY <1>3 DEF Outputs, Results, Updated
    <2>2. Returned(c) = continuity_ppm_2d_fluxes_returned
      BY <1>3 DEF Returned
    <2> QED BY <2>1, <2>2 DEF continuity_ppm_2d_fluxes_returned
  <1>4. ASSUME c.kernel = "coradcalc_tr" PROVE Outputs(c) \subseteq Returned(c)
    <2>1. Outputs(c) = {"CAu", "CAv"} \cup c.cfg.given
      BY <1>4 DEF Outputs, Results, Updated
    <2>2. Returned(c) = coradcalc_tr_returned(c.cfg)
      BY <1>4 DEF Returned
    <2> QED BY <2>1, <2>2 DEF coradcalc_tr_returned
  <1>5. ASSUME c.kernel = "horizontal_viscosity_tr" PROVE Outputs(c) \subseteq Returned(c)
    <2>1. /\ Results(c) = {"diffu", "diffv"} \cup c.cfg.given \cup UsedInside(c.cfg)
                          \cup (c.cfg.on \cap {"MEKE_mom_src", "MEKE_mom_src_bh"})
                          \cup When(On(c.cfg, "EY24_EBT_BS"), LimitsAtH \cup LimitsAtQ)
          /\ Updated(c) = When(On(c.cfg, "skeb_use_frict"), {"skeb_diss"})
      BY <1>5 DEF Results, Updated
    <2>2. Returned(c) = horizontal_viscosity_tr_returned(c.cfg)
      BY <1>5 DEF Returned
    <2>3. c.cfg.given \subseteq HDiagnostics \cup QDiagnostics
      BY <1>5 DEF CallOK, ContinuityKernels, FrictionKernels
    <2>4. HorViscDiagnostics \subseteq Returned(c) /\ {"diffu", "diffv"} \subseteq Returned(c)
      BY <2>2 DEF horizontal_viscosity_tr_returned
    <2>5. UsedInside(c.cfg) \subseteq HorViscDiagnostics
      BY DEF UsedInside, When, HorViscDiagnostics, HDiagnostics, QDiagnostics
    <2>6. c.cfg.given \subseteq HorViscDiagnostics
      BY <2>3 DEF HorViscDiagnostics
    <2>7. When(On(c.cfg, "EY24_EBT_BS"), LimitsAtH \cup LimitsAtQ) \subseteq HorViscDiagnostics
      BY DEF When, HorViscDiagnostics
    <2>8. c.cfg.on \cap {"MEKE_mom_src", "MEKE_mom_src_bh"} \subseteq Returned(c)
      BY <2>2 DEF horizontal_viscosity_tr_returned, horizontal_viscosity_tr_optional, MixingFields
    <2>9. Updated(c) \subseteq Returned(c)
      BY <2>1, <2>2 DEF horizontal_viscosity_tr_returned, horizontal_viscosity_tr_optional, When
    <2> QED BY <2>1, <2>4, <2>5, <2>6, <2>7, <2>8, <2>9 DEF Outputs
  <1>6. ASSUME c.kernel = "hor_visc_gme_bt" PROVE Outputs(c) \subseteq Returned(c)
    <2>1. Outputs(c) = {"dudx_bt", "dvdy_bt", "dvdx_bt", "dudy_bt", "sh_xx_bt", "sh_xy_bt", "GME_effic_h", "GME_effic_q"}
      BY <1>6 DEF Outputs, Results, Updated
    <2>2. Returned(c) = hor_visc_gme_bt_returned
      BY <1>6 DEF Returned
    <2> QED BY <2>1, <2>2 DEF hor_visc_gme_bt_returned
  <1>7. ASSUME c.kernel \in SmoothingKernels PROVE Outputs(c) \subseteq Returned(c)
    <2>1. /\ c.kernel = "smooth_x9_h" => Returned(c) = smooth_x9_h_returned
          /\ c.kernel = "smooth_x9_uv" => Returned(c) = smooth_x9_uv_returned
          /\ c.kernel = "smooth_gme_h_pass" => Returned(c) = smooth_gme_h_pass_returned
          /\ c.kernel = "smooth_gme_q_pass" => Returned(c) = smooth_gme_q_pass_returned
      BY DEF Returned
    <2>2. Results(c) = {}
      BY <1>7 DEF Results, SmoothingKernels
    <2>3. /\ c.kernel = "smooth_x9_h" => Updated(c) = {"field_h"}
          /\ c.kernel = "smooth_x9_uv" => Updated(c) = {"field_u", "field_v"}
          /\ c.kernel = "smooth_gme_h_pass" => Updated(c) = {"GME_flux_h"}
          /\ c.kernel = "smooth_gme_q_pass" => Updated(c) = {"GME_flux_q"}
      BY DEF Updated
    <2> QED BY <1>7, <2>1, <2>2, <2>3 DEF SmoothingKernels, smooth_x9_h_returned, smooth_x9_uv_returned,
               smooth_gme_h_pass_returned, smooth_gme_q_pass_returned, Outputs
  <1>8. ASSUME ReportsTogether(c.cfg)
        PROVE  /\ Reports(c) \subseteq c.cfg.given \cap VelocityReports
               /\ When(On(c.cfg, "do_report_u"), {"u_old"}) \subseteq c.cfg.given \cap VelocityReports
               /\ When(On(c.cfg, "do_report_v"), {"v_old"}) \subseteq c.cfg.given \cap VelocityReports
    BY <1>8 DEF ReportsTogether, Reports, When, VelocityReports
  <1>9. ASSUME c.kernel = "vertvisc_limit_vel" PROVE Outputs(c) \subseteq Returned(c)
    <2>1. Results(c) = Reports(c)
      BY <1>9 DEF Results
    <2>2. Updated(c) = {"u", "v"} \cup When(On(c.cfg, "do_report_u"), {"u_old"}) \cup When(On(c.cfg, "do_report_v"), {"v_old"})
      BY <1>9 DEF Updated
    <2>3. Returned(c) = {"u", "v"} \cup c.cfg.given
      BY <1>9 DEF Returned, vertvisc_limit_vel_returned
    <2>4. ReportsTogether(c.cfg)
      BY <1>9 DEF Consistent
    <2> QED BY <1>8, <2>1, <2>2, <2>3, <2>4 DEF Outputs
  <1>10. ASSUME c.kernel = "vertvisc_remnant_tr" PROVE Outputs(c) \subseteq Returned(c)
    <2>1. Outputs(c) = {"visc_rem_u", "visc_rem_v"}
      BY <1>10 DEF Outputs, Results, Updated
    <2>2. Returned(c) = vertvisc_remnant_tr_returned
      BY <1>10 DEF Returned
    <2> QED BY <2>1, <2>2 DEF vertvisc_remnant_tr_returned
  <1>11. ASSUME c.kernel = "vertfpmix_tr" PROVE Outputs(c) \subseteq Returned(c)
    <2>1. Outputs(c) = {"u", "v", "uE_u", "vE_v", "uInc_u", "vInc_v"}
      BY <1>11 DEF Outputs, Results, Updated
    <2>2. Returned(c) = vertfpmix_tr_returned
      BY <1>11 DEF Returned
    <2> QED BY <2>1, <2>2 DEF vertfpmix_tr_returned
  <1>12. ASSUME c.kernel = "vertvisc_coef_tr" PROVE Outputs(c) \subseteq Returned(c)
    <2>1. /\ Results(c) = {"a_u", "h_u", "a_v", "h_v"} \cup GivenOf(c.cfg, GL90Coupling \cup CoefOutputs)
                          \cup When(Wanted(c.cfg, "frac_shelf_u"), ShelfCoupling)
          /\ Updated(c) = {}
      BY <1>12 DEF Results, Updated
    <2>2. Returned(c) = vertvisc_coef_tr_returned(c.cfg)
      BY <1>12 DEF Returned
    <2>3. CoefTogether(c.cfg)
      BY <1>12 DEF Consistent
    <2>4. Wanted(c.cfg, "frac_shelf_u") => ShelfCoupling \subseteq c.cfg.given
      BY <2>3 DEF CoefTogether
    <2> QED BY <2>1, <2>2, <2>4 DEF Outputs, vertvisc_coef_tr_returned, GivenOf, When
  <1>13. ASSUME c.kernel = "vertvisc_tr" PROVE Outputs(c) \subseteq Returned(c)
    <2>1. /\ Results(c) = Reports(c) \cup GivenOf(c.cfg, TendencyOutputs \cup StressOutputs)
                          \cup When(On(c.cfg, "do_GLwork"), WorkOutputs)
          /\ Updated(c) = {"u", "v"} \cup When(On(c.cfg, "do_report_u"), {"u_old"})
                          \cup When(On(c.cfg, "do_report_v"), {"v_old"})
      BY <1>13 DEF Results, Updated
    <2>2. Returned(c) = vertvisc_tr_returned(c.cfg)
      BY <1>13 DEF Returned
    <2>3. FrictionTogether(c.cfg)
      BY <1>13 DEF Consistent
    <2>4. ReportsTogether(c.cfg)
      BY <2>3 DEF FrictionTogether
    <2>5. On(c.cfg, "do_GLwork") => {"KE_u", "KE_v"} \subseteq c.cfg.given
      BY <2>3 DEF FrictionTogether
    <2>6. When(On(c.cfg, "do_GLwork"), WorkOutputs) \subseteq Returned(c)
      BY <2>2, <2>5 DEF vertvisc_tr_returned, GivenOf, When, WorkOutputs
    <2>7. {"u", "v"} \subseteq Returned(c) /\ c.cfg.given \cap VelocityReports \subseteq Returned(c)
      BY <2>2 DEF vertvisc_tr_returned, GivenOf
    <2>8. GivenOf(c.cfg, TendencyOutputs \cup StressOutputs) \subseteq Returned(c)
      BY <2>2 DEF vertvisc_tr_returned, GivenOf
    <2> QED BY <1>8, <2>1, <2>4, <2>6, <2>7, <2>8 DEF Outputs
  <1>14. ASSUME c.kernel = "thickness_to_dz_3d" PROVE Outputs(c) \subseteq Returned(c)
    <2>1. Outputs(c) = {"dz"}
      BY <1>14 DEF Outputs, Results, Updated
    <2>2. Returned(c) = thickness_to_dz_3d_returned
      BY <1>14 DEF Returned
    <2> QED BY <2>1, <2>2 DEF thickness_to_dz_3d_returned
  <1> QED BY <1>1, <1>2, <1>3, <1>4, <1>5, <1>6, <1>7, <1>9, <1>10, <1>11, <1>12, <1>13, <1>14
          DEF Kernels, ContinuityKernels, HorViscKernels, FrictionKernels

-----------------------------------------------------------------------------
\* The four properties of the values

\* What has to be computed is a box.
LEMMA RequiredBox ==
    ASSUME NEW c, CallOK(c), NEW a
    PROVE  Required(a, c) \in Margins
  <1>1. c.cfg.symmetric \in BOOLEAN
    BY DEF CallOK
  <1>2. bx0 \in Margins
    BY DEF bx0, Margins
  <1>3. \A b \in Margins : GrowLoX(b) \in Margins /\ GrowLoY(b) \in Margins
    BY Grown
  <1>4. bxQ(c.cfg) \in Margins /\ bxU(c.cfg) \in Margins /\ bxV(c.cfg) \in Margins
    BY <1>2, <1>3 DEF bxQ, bxU, bxV
  <1>5. bxQshear \in Margins /\ bxHgrad(c.cfg) \in Margins
    <2>1. bxQshear \in Margins
      BY DEF bxQshear, grow_by, bx0, Margins
    <2>2. bxHgrad(c.cfg) \in Margins
      BY <1>4 DEF bxHgrad, grow_by, Margins
    <2> QED BY <2>1, <2>2
  <1> QED BY <1>2, <1>3, <1>4, <1>5 DEF Required

\* The stencil of a kernel is a number of cells.
LEMMA ReachNat ==
    ASSUME NEW c, CallOK(c)
    PROVE  Reach(c) \in Nat
  <1>1. CASE c.kernel \in ContinuityKernels
    BY <1>1 DEF Reach, CallOK, ContinuityKernels, FrictionKernels
  <1>2. CASE c.kernel = "coradcalc_tr"
    <2>1. c.cfg.scheme \in CoriolisSchemes
      BY <1>2 DEF CallOK, ContinuityKernels, FrictionKernels
    <2>2. coriolis_scheme_stencil(c.cfg.scheme) \in Nat
      BY <2>1 DEF CoriolisSchemes, WenoSchemes, coriolis_scheme_stencil
    <2> QED BY <1>2, <2>2 DEF Reach, ContinuityKernels
  <1>3. CASE c.kernel \notin ContinuityKernels \cup {"coradcalc_tr"}
    <2>1. Reach(c) \in {1, 2, 3}
      BY <1>3 DEF Reach
    <2> QED BY <2>1
  <1> QED BY <1>1, <1>2, <1>3

\* No further than the margins on both sides.
LEMMA DistanceWithin ==
    ASSUME NEW x \in Int, NEW lo \in Int, NEW hi \in Int, NEW m \in Int, 0 - lo <= x, x <= hi, lo <= m, hi <= m
    PROVE  Distance(x) <= m
  BY DEF Distance

\* The kernels whose claims are worked out
TracedKernels == Kernels \ {"horizontal_viscosity_tr"}

\* A run of a call of one of them
Traced == \A s \in Sides : call[s].kernel \in TracedKernels

\* The steps of each of them lead to all that is asked of its outputs.
LEMMA KernelsPromise ==
    ASSUME NEW c, CallOK(c), WideEnough(c), Consistent(c), c.kernel \in TracedKernels
    PROVE  Promise(c)
  <1>1. CASE c.kernel = "continuity_PPM"
    <2>1. c.x_first \in BOOLEAN
      BY DEF CallOK
    <2> QED BY <1>1, <2>1, ZonalFirstPromises, MeridionalFirstPromises
  <1>2. CASE c.kernel = "continuity_PPM_2d_fluxes"
    BY <1>2, BTFluxesPromise
  <1>3. CASE c.kernel = "vertvisc_remnant_tr"
    BY <1>3, RemnantPromise
  <1>4. CASE c.kernel = "vertvisc_limit_vel"
    BY <1>4, LimitPromise
  <1>5. CASE c.kernel = "vertfpmix_tr"
    BY <1>5, MixingPromise
  <1>6. CASE c.kernel = "vertvisc_coef_tr"
    BY <1>6, CoefPromise
  <1>7. CASE c.kernel = "thickness_to_dz_3d"
    BY <1>7, DistancePromise
  <1>8. CASE c.kernel = "vertvisc_tr"
    BY <1>8, VertviscPromise
  <1>9. CASE c.kernel \in SmoothingKernels
    BY <1>9, SmoothHPromise, SmoothUVPromise, FluxHPromise, FluxQPromise DEF SmoothingKernels
  <1>10. CASE c.kernel = "hor_visc_gme_bt"
    BY <1>10, StrainPromise
  <1>11. CASE c.kernel = "coradcalc_tr"
    BY <1>11, CoriolisPromise
  <1> QED BY <1>1, <1>2, <1>3, <1>4, <1>5, <1>6, <1>7, <1>8, <1>9, <1>10, <1>11
          DEF TracedKernels, Kernels, ContinuityKernels, FrictionKernels, HorViscKernels

\* So a call that is made is led, and so is its transposed call.
LEMMA CallsLead ==
    ASSUME NEW c \in Calls, Consistent(c), c.kernel \in TracedKernels
    PROVE  Leads(c) /\ Leads(Mirrored(c))
  <1>1. CallOK(c) /\ CouplingGiven(c) /\ WideEnough(c)
    BY CallsAssumption, HalosAssumption, ConsistentReady
  <1> DEFINE m == Mirrored(c)
  <1>2. CallOK(m) /\ CouplingGiven(m) /\ Consistent(m) /\ WideEnough(m)
    BY <1>1, MirroredOK, MirroredConsistent
  <1>3. m.kernel = c.kernel
    BY <1>1, MirroredFields
  <1> HIDE DEF m
  <1>4. Leads(c)
    BY <1>1, OutputsReturned, KernelsPromise DEF Leads
  <1>5. Leads(m)
    BY <1>2, <1>3, OutputsReturned, KernelsPromise DEF Leads
  <1> QED BY <1>4, <1>5 DEF m

\* The invariant: wherever a call has got to, there are claims that are true of the
\* device's arrays and lead through the loops that are left to all that is asked of
\* the outputs.
THEOREM ClaimsLead == Spec => [](Traced => ValuesInv)
  <1>1. Init => (Traced => ValuesInv)
    <2> SUFFICES ASSUME Init, Traced PROVE ValuesInv
      OBVIOUS
    <2>1. PICK c \in Calls : /\ Consistent(c)
                             /\ call = [s \in Sides |-> IF s = "direct" THEN c ELSE Mirrored(c)]
      BY DEF Init
    <2>2. Leads(c) /\ Leads(Mirrored(c))
      <3>1. c.kernel \in TracedKernels
        BY <2>1, SidesAssumption DEF Traced
      <3> QED BY <2>1, <3>1, CallsLead
    <2>3. \A s \in Sides : Leads(call[s])
      BY <2>1, <2>2
    <2>4. /\ todo = [s \in Sides |-> Program(call[s])]
          /\ mem = [s \in Sides |-> InitialMemory(call[s])]
          /\ returned = [s \in Sides |-> << >>]
      BY DEF Init
    <2>5. \A s \in Sides : todo[s] # <<>>
      BY <2>3, <2>4, ProgramSteps DEF Leads
    <2> QED BY <2>1, <2>3, <2>4, <2>5 DEF ValuesInv, Led
  <1>2. (Traced => ValuesInv) /\ [Next]_vars => (Traced => ValuesInv)'
    <2> SUFFICES ASSUME Traced => ValuesInv, [Next]_vars, Traced' PROVE ValuesInv'
      OBVIOUS
    <2>0. ValuesInv
      <3>1. call' = call
        BY DEF Next, vars, CopyIn, RunLoop, AllocateScratch, CopyBack
      <3> QED BY <3>1 DEF Traced
    <2>1. ASSUME NEW s \in Sides,
                 call' = call,
                 DOMAIN todo' = Sides, DOMAIN mem' = Sides, DOMAIN returned' = Sides,
                 \A t \in Sides \ {s} : todo'[t] = todo[t] /\ mem'[t] = mem[t] /\ returned'[t] = returned[t],
                 Led(call[s], todo'[s], mem'[s], returned'[s]),
                 todo'[s] = <<>> => DOMAIN returned'[s] = Returned(call[s])
          PROVE  ValuesInv'
      <3>1. \A t \in Sides : /\ Led(call[t], todo'[t], mem'[t], returned'[t])
                             /\ todo'[t] = <<>> => DOMAIN returned'[t] = Returned(call[t])
        BY <2>0, <2>1 DEF ValuesInv
      <3>2. DOMAIN call' = Sides /\ \A t \in Sides : Leads(call'[t])
        BY <2>0, <2>1 DEF ValuesInv
      <3> QED BY <2>0, <2>1, <3>1, <3>2 DEF ValuesInv
    <2>2. ASSUME NEW s \in Sides, CopyIn(s) PROVE ValuesInv'
      <3> DEFINE c == call[s]
                 M == mem[s]
                 N == [M EXCEPT !.content = [a \in DOMAIN @ |-> IF a \in Passed(c) THEN OnHost(a, c) ELSE <<>>]]
      <3>1. Leads(c) /\ Led(c, todo[s], M, returned[s])
        BY <2>0 DEF ValuesInv
      <3>2. todo[s] # <<>> /\ Head(todo[s]).op = "copy_in"
        BY <2>2 DEF CopyIn
      <3>3. Led(c, Tail(todo[s]), N, returned[s]) /\ Tail(todo[s]) # <<>>
        BY <3>1, <3>2, CopyInLeads
      <3>4. /\ todo' = [todo EXCEPT ![s] = Tail(todo[s])]
            /\ mem' = [mem EXCEPT ![s] = N]
            /\ call' = call /\ returned' = returned
        BY <2>2 DEF CopyIn
      <3> HIDE DEF c, M, N
      <3>5. Led(c, todo'[s], mem'[s], returned'[s]) /\ todo'[s] # <<>>
        BY <2>0, <3>3, <3>4 DEF ValuesInv
      <3> QED BY <2>0, <2>1, <3>4, <3>5 DEF ValuesInv, c
    <2>3. ASSUME NEW s \in Sides, RunLoop(s) PROVE ValuesInv'
      <3>1. Leads(call[s]) /\ Led(call[s], todo[s], mem[s], returned[s])
        BY <2>0 DEF ValuesInv
      <3>2. todo[s] # <<>> /\ Head(todo[s]).op = "loop"
        BY <2>3 DEF RunLoop
      <3>3. Led(call[s], Tail(todo[s]), AfterLoop(mem[s], Head(todo[s])), returned[s]) /\ Tail(todo[s]) # <<>>
        BY <3>1, <3>2, LoopLeads
      <3>4. /\ todo' = [todo EXCEPT ![s] = Tail(todo[s])]
            /\ mem' = [mem EXCEPT ![s] = AfterLoop(mem[s], Head(todo[s]))]
            /\ call' = call /\ returned' = returned
        BY <2>3 DEF RunLoop
      <3>5. Led(call[s], todo'[s], mem'[s], returned'[s]) /\ todo'[s] # <<>>
        BY <2>0, <3>3, <3>4 DEF ValuesInv
      <3> QED BY <2>0, <2>1, <3>4, <3>5 DEF ValuesInv
    <2>4. ASSUME NEW s \in Sides, AllocateScratch(s) PROVE ValuesInv'
      <3>1. Leads(call[s]) /\ Led(call[s], todo[s], mem[s], returned[s])
        BY <2>0 DEF ValuesInv
      <3>2. todo[s] # <<>> /\ Head(todo[s]).op = "scratch"
        BY <2>4 DEF AllocateScratch
      <3>3. Led(call[s], Tail(todo[s]), AfterScratch(mem[s], Head(todo[s])), returned[s]) /\ Tail(todo[s]) # <<>>
        BY <3>1, <3>2, ScratchLeads
      <3>4. /\ todo' = [todo EXCEPT ![s] = Tail(todo[s])]
            /\ mem' = [mem EXCEPT ![s] = AfterScratch(mem[s], Head(todo[s]))]
            /\ call' = call /\ returned' = returned
        BY <2>4 DEF AllocateScratch
      <3>5. Led(call[s], todo'[s], mem'[s], returned'[s]) /\ todo'[s] # <<>>
        BY <2>0, <3>3, <3>4 DEF ValuesInv
      <3> QED BY <2>0, <2>1, <3>4, <3>5 DEF ValuesInv
    <2>5. ASSUME NEW s \in Sides, CopyBack(s) PROVE ValuesInv'
      <3> DEFINE now == [a \in Returned(call[s]) |-> mem[s].content[a]]
                 N == [mem[s] EXCEPT !.content = [a \in DOMAIN @ |-> <<>>]]
      <3>1. Leads(call[s]) /\ Led(call[s], todo[s], mem[s], returned[s])
        BY <2>0 DEF ValuesInv
      <3>2. todo[s] # <<>> /\ Head(todo[s]).op = "copy_back"
        BY <2>5 DEF CopyBack
      <3>3. Led(call[s], Tail(todo[s]), N, now)
        BY <3>1, <3>2, CopyBackLeads
      <3>4. /\ todo' = [todo EXCEPT ![s] = Tail(todo[s])]
            /\ mem' = [mem EXCEPT ![s] = N]
            /\ returned' = [returned EXCEPT ![s] = now]
            /\ call' = call
        BY <2>5 DEF CopyBack
      <3>6. DOMAIN now = Returned(call[s])
        OBVIOUS
      <3> HIDE DEF now, N
      <3>5. Led(call[s], todo'[s], mem'[s], returned'[s]) /\ DOMAIN returned'[s] = Returned(call[s])
        BY <2>0, <3>3, <3>4, <3>6 DEF ValuesInv
      <3> QED BY <2>0, <2>1, <3>4, <3>5 DEF ValuesInv
    <2>6. CASE UNCHANGED vars
      BY <2>0, <2>6 DEF vars, ValuesInv
    <2> QED BY <2>2, <2>3, <2>4, <2>5, <2>6 DEF Next
  <1> QED BY <1>1, <1>2, PTL DEF Spec

\* A loop reads only what the caller or an earlier loop has set.
LEMMA LedReads ==
    ASSUME NEW c, Leads(c), NEW steps, NEW M, NEW back, Led(c, steps, M, back), steps # <<>>
    PROVE  ReadsSet(M, Head(steps))
  <1>1. CASE Head(steps).op \in {"copy_in", "copy_back"}
    <2>1. \A op : Copying(op).sets = {}
      BY DEF Copying
    <2>2. Head(steps) = Copying("copy_in") \/ Head(steps) = Copying("copy_back")
      <3>1. CASE steps = Program(c)
        BY <3>1, ProgramSteps DEF Leads
      <3>2. CASE steps # Program(c)
        <4>1. PICK k, T, Z, U, Y : steps = k \o <<Copying("copy_back")>> /\ Gives(T, Z, k, U, Y)
          BY <3>2 DEF Led
        <4>2. PICK X : k \in Seq(X)
          BY <4>1 DEF Gives
        <4>3. CASE k = <<>>
          BY <4>1, <4>2, <4>3, FirstStep
        <4>4. CASE k # <<>>
          <5>1. Head(steps) = Head(k)
            BY <4>1, <4>2, <4>4, FirstStep
          <5>2. PICK S, W : StepGives(T, Z, Head(k), S, W)
            BY <4>1, <4>4, FirstGives
          <5> QED BY <1>1, <5>1, <5>2 DEF StepGives
        <4> QED BY <4>3, <4>4
      <3> QED BY <3>1, <3>2
    <2> QED BY <2>1, <2>2 DEF ReadsSet, Reads
  <1>2. CASE Head(steps).op \notin {"copy_in", "copy_back"}
    <2>1. PICK T, Z, S, W : /\ AllKnown(T, Z, M) /\ StepGives(T, Z, Head(steps), S, W)
                            /\ Writes(Head(steps)) \subseteq DOMAIN M.content
      BY <1>2, MidLeads
    <2>2. Layered(M)
      BY <1>2, MidLeads
    <2>3. CASE Head(steps).op = "loop"
      BY <2>1, <2>2, <2>3, LoopTells
    <2>4. CASE Head(steps).op # "loop"
      <3>1. Reads(Head(steps)) = {}
        BY <2>1, <2>4 DEF StepGives
      <3> QED BY <3>1 DEF ReadsSet
    <2> QED BY <2>3, <2>4
  <1> QED BY <1>1, <1>2

\* When a call is over its outputs are as they are asked to be.
LEMMA LedEnds ==
    ASSUME ValuesInv, NEW s \in Sides, todo[s] = <<>>, NEW a \in Outputs(call[s])
    PROVE  /\ CallOK(call[s])
           /\ IsSet(Host(s), a, Required(a, call[s]))
           /\ \E t : /\ EndsWell(call[s], a, t)
                     /\ \A r \in Origins(Host(s), a, Required(a, call[s])) : Comes(r, t)
  <1> DEFINE c == call[s]
  <1>1. /\ CallOK(c) /\ CouplingGiven(c) /\ Outputs(c) \subseteq Returned(c)
        /\ Led(c, todo[s], mem[s], returned[s])
        /\ DOMAIN returned[s] = Returned(c)
    BY DEF ValuesInv, Leads
  <1>2. PICK U, Y : Ends(c, U, Y) /\ \A b \in Y \cap Returned(c) : Known(returned[s][b], U[b])
    <2>1. todo[s] # Program(c)
      BY <1>1, ProgramSteps
    <2>2. ASSUME NEW k, todo[s] = k \o <<Copying("copy_back")>>, \E X : k \in Seq(X) PROVE FALSE
      BY <2>2, FirstStep
    <2> QED BY <1>1, <2>1, <2>2 DEF Led, Gives
  <1>3. a \in Y /\ EndsWell(c, a, U[a]) /\ a \in Returned(c)
    BY <1>1, <1>2 DEF Ends
  <1>4. Known(returned[s][a], U[a])
    BY <1>2, <1>3
  <1>5. Host(s).content[a] = returned[s][a]
    BY <1>1, <1>3 DEF Host
  <1>6. Required(a, c) \in Margins /\ Within(Required(a, c), U[a].box)
    BY <1>1, <1>3, RequiredBox DEF EndsWell
  <1> HIDE DEF c
  <1>7. /\ IsSet(Host(s), a, Required(a, c))
        /\ \A r \in Origins(Host(s), a, Required(a, c)) : Comes(r, U[a])
    BY <1>4, <1>5, <1>6, KnownOrigins
  <1> QED BY <1>1, <1>3, <1>7 DEF c

\* No loop of a kernel reads a cell that nobody set: not at the edge of a box, not in
\* memory the kernel allocated, on no grid and with no halo as wide as the stencil.
THEOREM ValuesAreRead == Spec => [](Traced => ReadsHoldValues)
  <1>1. ValuesInv => ReadsHoldValues
    BY LedReads DEF ValuesInv, ReadsHoldValues
  <1>2. Spec => [](Traced => ValuesInv)
    BY ClaimsLead
  <1> QED BY <1>1, <1>2, PTL

\* When a call returns its outputs are set wherever they are required, and come from no
\* result: nothing of an earlier call is left in them.
THEOREM ResultsComeFresh == Spec => [](Traced => ResultsAreFresh)
  <1>1. ValuesInv => ResultsAreFresh
    <2> SUFFICES ASSUME ValuesInv, NEW s \in Sides, todo[s] = <<>>, NEW a \in Outputs(call[s])
                 PROVE  /\ IsSet(Host(s), a, Required(a, call[s]))
                        /\ \A r \in Origins(Host(s), a, Required(a, call[s])) : r[1] \notin Results(call[s])
      BY DEF ResultsAreFresh
    <2> QED BY LedEnds DEF EndsWell, Comes
  <1>2. Spec => [](Traced => ValuesInv)
    BY ClaimsLead
  <1> QED BY <1>1, <1>2, PTL

\* An output comes from cells within the stencil: a caller that fills its halo that
\* wide has filled enough of it.
THEOREM StencilCovers == Spec => [](Traced => DependsWithinStencil)
  <1>1. ValuesInv => DependsWithinStencil
    <2> SUFFICES ASSUME ValuesInv, NEW s \in Sides, todo[s] = <<>>, NEW a \in Outputs(call[s]),
                        NEW r \in Origins(Host(s), a, Required(a, call[s]))
                 PROVE  Distance(r[2][1]) <= Reach(call[s]) /\ Distance(r[2][2]) <= Reach(call[s])
      BY DEF DependsWithinStencil
    <2>1. PICK t : EndsWell(call[s], a, t) /\ Comes(r, t)
      BY LedEnds
    <2> DEFINE m == Reach(call[s])
    <2>2. t.from.w <= m /\ t.from.e <= m /\ t.from.s <= m /\ t.from.n <= m /\ t.from \in Margins
      BY <2>1 DEF EndsWell, BoxClaim, Within, Box
    <2>3. m \in Int
      <3>1. CallOK(call[s])
        BY LedEnds
      <3> QED BY <3>1, ReachNat
    <2>4. r[2][1] \in Int /\ r[2][2] \in Int
      BY <2>1 DEF Comes, Offsets
    <2>5. /\ 0 - t.from.w <= r[2][1] /\ r[2][1] <= t.from.e
          /\ 0 - t.from.s <= r[2][2] /\ r[2][2] <= t.from.n
      BY <2>1 DEF Comes
    <2> HIDE DEF m
    <2>6. Distance(r[2][1]) <= m /\ Distance(r[2][2]) <= m
      <3>1. t.from.w \in Int /\ t.from.e \in Int /\ t.from.s \in Int /\ t.from.n \in Int
        BY <2>2 DEF Margins
      <3> QED BY <2>2, <2>3, <2>4, <2>5, <3>1, DistanceWithin
    <2> QED BY <2>6 DEF m
  <1>2. Spec => [](Traced => ValuesInv)
    BY ClaimsLead
  <1> QED BY <1>1, <1>2, PTL

\* What is found in arrays or after steps that serve another purpose first bears no
\* trace of it.
THEOREM ResultsStayApart == Spec => [](Traced => ResultsKeepApart)
  <1>1. ValuesInv => ResultsKeepApart
    <2> SUFFICES ASSUME ValuesInv, NEW s \in Sides, todo[s] = <<>>, NEW p \in KeptApart(call[s]),
                        p[1] \in Outputs(call[s]), NEW r \in Origins(Host(s), p[1], Required(p[1], call[s]))
                 PROVE  r[1] # p[2]
      BY DEF ResultsKeepApart
    <2>1. PICK t : EndsWell(call[s], p[1], t) /\ Comes(r, t)
      BY LedEnds
    <2> QED BY <2>1 DEF EndsWell, Comes
  <1>2. Spec => [](Traced => ValuesInv)
    BY ClaimsLead
  <1> QED BY <1>1, <1>2, PTL

=============================================================================
