----------------------------- MODULE MCFluxAdjust -----------------------------
(* Every nondecreasing transport with three values, within limits that reach   *)
(* six units down and two or none up, and steps of one unit, of two, and longer *)
(* than any bracket.                                                            *)
EXTENDS FluxAdjust

MCTol == <<0, 0, 0, 1>>
MCSteps == {-9, -2, -1, 1, 2}

Transports(du_max) ==
    {F \in [-6 .. du_max -> -1 .. 1] : \A x \in -6 .. du_max - 1 : F[x] <= F[x + 1]}

MCColumns ==
    UNION {[du_min : {-6}, du_max : {du_max}, transport : Transports(du_max), target : -2 .. 1,
            better_iter : BOOLEAN, use_3d : BOOLEAN, do_I_in : BOOLEAN] : du_max \in {0, 2}}
=============================================================================
