---------------------------- MODULE MCFileParser ----------------------------
(* Instance of FileParser for TLC: file names, blocks and keys are model   *)
(* values, and the parameter-file table is case sensitive.                 *)
EXTENDS FileParser

CONSTANTS KPP, k1, k2, v1

MCGroups == {NoBlock, KPP}
MCOneKey == {k1}
MCTwoKeys == {k1, k2}
MCValues == {True, False, v1}
MCLower == [n \in Groups \cup Keys |-> n]
=============================================================================
