-------------------------- MODULE MCDocFileWriter --------------------------
(* Instance of DocFileWriter for TLC. *)
EXTENDS DocFileWriter

CONSTANTS KPP, mod1, p1, v1

MCBlocks == {KPP}
MCModules == {mod1}
MCParams == {p1}
MCValues == {v1}
MCBoth == {"", "base"}
MCPlain == {<<FALSE, FALSE>>}
MCFlags == {<<FALSE, FALSE>>, <<TRUE, TRUE>>}
MCEnabled == {Files, {"all", "short"}, {"short", "debugging"}}
MCFragile == {"all"}
MCNever == {FALSE}
=============================================================================
