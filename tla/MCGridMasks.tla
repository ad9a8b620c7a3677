---------------------------- MODULE MCGridMasks ----------------------------
(***************************************************************************)
(* A small grid for GridMasks: three cells by two in two boxes of          *)
(* different widths, whose corner halos wrap twice where the grid is       *)
(* reentrant in both directions.                                           *)
(***************************************************************************)
EXTENDS GridMasks

TwoAndOne == {<<0, 1>>, <<2, 2>>}
Whole == {<<0, 1>>}

SomeDepths == {1, 6}
SomeMaskDepths == {Unset, 0}
=============================================================================
