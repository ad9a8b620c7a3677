--------------------------- MODULE MCViscousColumn ---------------------------
(* Three layers, thin and thick, in every order; couplings that are absent or  *)
(* stronger than a layer is thick; velocities in one layer, and in all.        *)
EXTENDS ViscousColumn

MCHmix == Whole(3)
MCCFL_trunc == [num |-> 1, den |-> 2]
MCvel_underflow == [num |-> 1, den |-> 20]

Wholes(f) == [j \in DOMAIN f |-> Whole(f[j])]

Thicknesses == [Layers -> {1, 3}]
Couplings == {f \in [Interfaces -> {0, 1, 4}] : \A j \in Interfaces : f[j] # IF j \in {0, nz} THEN 4 ELSE 1}
GL90Couplings ==
    {[j \in Interfaces |-> IF j \in from .. nz - 1 THEN 2 ELSE 0] : from \in {1, nz - 1}}
Drags == {[j \in Layers |-> 0], [j \in Layers |-> IF j = nz - 1 THEN 2 ELSE 0], [j \in Layers |-> 1]}
Velocities == {[j \in Layers |-> IF j = 0 THEN 2 ELSE 0], [j \in Layers |-> IF j = nz - 1 THEN -3 ELSE 1]}

\* The wind at the surface, or over layers whose first is thinner than Hmix, as
\* thick or thicker: Hmix ends within a layer, at an interface, or below the bottom
Winds ==
    {[direct |-> FALSE, report |-> TRUE, scale |-> One], [direct |-> TRUE, report |-> FALSE, scale |-> One],
     [direct |-> TRUE, report |-> TRUE, scale |-> [num |-> 4, den |-> 3]],
     [direct |-> TRUE, report |-> TRUE, scale |-> [num |-> 1, den |-> 4]]}

MCColumns ==
    {[h |-> Wholes(h), h_avg |-> [j \in Layers |-> Times(Whole(h[j]), wind.scale)],
      a |-> Wholes(a), a_gl90 |-> Wholes(gl90), Ray |-> Wholes(Ray), u |-> Wholes(u),
      stress |-> Whole(1), direct_stress |-> wind.direct, do_report |-> wind.report,
      cfl |-> [west |-> [num |-> 1, den |-> 3], east |-> [num |-> 1, den |-> 2]]] :
        h \in Thicknesses, a \in Couplings, gl90 \in GL90Couplings, Ray \in Drags, u \in Velocities,
        wind \in Winds}
=============================================================================
