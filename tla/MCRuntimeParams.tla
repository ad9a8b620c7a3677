-------------------------- MODULE MCRuntimeParams --------------------------
(* Instance of RuntimeParams for TLC: one value, which callers ask for as two types. *)
EXTENDS RuntimeParams

CONSTANTS KPP, mod1, p1, int1

MCBlocks == {KPP}
MCModules == {mod1}
MCParams == {p1}
MCValues == {int1}
MCTypes == {"int", "string"}
MCTypeOf == [v \in Values |-> "int"]
MCBase == {"base"}
MCPlain == {<<FALSE, FALSE>>}
MCLayouts == {<<FALSE, FALSE>>, <<TRUE, FALSE>>}
MCEnabled == {Files}
MCFragile == {"short"}
MCNever == {FALSE}
=============================================================================
