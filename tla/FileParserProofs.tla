-------------------------- MODULE FileParserProofs --------------------------
(***************************************************************************)
(* What the parameter-file reader guarantees for any set of names and      *)
(* values, any number of files and files of any length.                    *)
(***************************************************************************)
EXTENDS FileParser, TLAPS

(* A file being opened or read is one of those given.                      *)
FileInRange == status = "reading" => file <= NumFiles

IInv ==
    /\ TypeOK
    /\ FileInRange
    /\ TableIsReplay
    /\ ForcedWasGiven

-----------------------------------------------------------------------------
(* A slot resolved from a group and a key is a slot of the table.          *)
LEMMA SlotType ==
    ASSUME NEW g \in Groups, NEW k \in Keys
    PROVE  Slot(g, k) \in Slots
BY LowerAssumption DEF Slot, Slots, Normalize

(* The target of any statement of a block and a key is a slot.             *)
LEMMA TargetType ==
    ASSUME TypeOK, NEW s, s.block \in Groups, s.key \in Keys
    PROVE  Target(s) \in Slots
BY SlotType DEF Target, TypeOK

(* What the reader executes is a statement.                                *)
LEMMA VisibleType ==
    ASSUME NEW l \in Line
    PROVE  Visible(l) \in Statement
BY DEF Visible, Line, Statement

(* Fields of the statements that name a parameter.                         *)
LEMMA StatementFields ==
    ASSUME NEW s \in Statement
    PROVE  /\ s.op \in {"assign", "override", "define", "undef"} =>
                  s.block \in Groups /\ s.key \in Keys
           /\ s.op \in {"assign", "override"} => s.value \in Values
           /\ s.op \in {"open", "close"} => s.block \in Groups \ {NoBlock}
BY DEF Statement, Blocks

(* What reading any line does to the reader's position and comment state.  *)
LEMMA TakeStep ==
    ASSUME TypeOK, FileInRange, NEW l \in Line, Take(l)
    PROVE  /\ inComment' \in BOOLEAN
           /\ lines' \in 0 .. MaxLines
           /\ file' = file
           /\ status = "reading"
           /\ file \in 1 .. NumFiles
<1>1. inComment' \in BOOLEAN
  BY Zenon DEF Take, CommentAfter
<1>2. lines' \in 0 .. MaxLines /\ file' = file /\ status = "reading"
  BY ParserAssumption, SMT DEF Take, TypeOK
<1>3. file \in 1 .. NumFiles
  BY <1>2, ParserAssumption, SMT DEF TypeOK, FileInRange
<1>4. QED
  BY <1>1, <1>2, <1>3

(* assign_param without override preserves the invariant.                  *)
LEMMA AssignStep ==
    ASSUME IInv, NEW l \in Line, Take(l),
           NEW s, s.block \in Groups, s.key \in Keys,
           NEW v \in Values, Assign(s, v)
    PROVE  IInv'
<1> DEFINE t == Target(s)
<1>1. t \in Slots
  BY TargetType DEF IInv
<1>2. Unset \notin Values
  BY UnsetAssumption
<1>3. /\ inComment' \in BOOLEAN /\ lines' \in 0 .. MaxLines
      /\ file' = file /\ status = "reading" /\ file \in 1 .. NumFiles
  BY TakeStep DEF IInv
<1>4. CASE /\ status' = "failed"
           /\ error' \in {"qualified_in_block", "duplicate"}
           /\ refused' \in SUBSET Slots
           /\ UNCHANGED <<table, currBlock, given, forced, boundIn>>
  BY <1>3, <1>4 DEF IInv, TypeOK, FileInRange, TableIsReplay, ForcedWasGiven,
     HasParam
<1>5. CASE /\ table[t] \in {Unset, v}
           /\ table' = [table EXCEPT ![t] = v]
           /\ given' = [given EXCEPT ![t] = @ \cup {v}]
           /\ boundIn' = [boundIn EXCEPT ![t] = IF @ = 0 THEN file ELSE @]
           /\ UNCHANGED <<status, error, currBlock, forced, refused>>
  <2>1. TypeOK'
    <3>1. table' \in [Slots -> Values \cup {Unset}]
      BY <1>5, <1>1 DEF IInv, TypeOK, Tables
    <3>2. given' \in [Slots -> SUBSET Values]
      BY <1>5, <1>1 DEF IInv, TypeOK
    <3>3. boundIn' \in [Slots -> 0 .. NumFiles]
      BY <1>5, <1>1, <1>3, ParserAssumption DEF IInv, TypeOK, FileInRange
    <3>4. QED
      BY <3>1, <3>2, <3>3, <1>3, <1>5 DEF IInv, TypeOK, Tables
  <2>2. TableIsReplay'
    <3> SUFFICES ASSUME NEW x \in Slots
                 PROVE  IF forced'[x] # Unset THEN table'[x] = forced'[x]
                        ELSE given'[x] = IF table'[x] # Unset THEN {table'[x]} ELSE {}
      BY DEF IInv, TableIsReplay, HasParam
    <3>1. CASE x # t
      BY <3>1, <1>5, <1>1 DEF IInv, TableIsReplay, HasParam, TypeOK, Tables
    <3>2. CASE x = t
      BY <3>2, <1>5, <1>1, <1>2 DEF IInv, TableIsReplay, HasParam, TypeOK, Tables
    <3>3. QED
      BY <3>1, <3>2
  <2>3. ForcedWasGiven'
    BY <1>5, <1>1 DEF IInv, ForcedWasGiven, TypeOK
  <2>4. FileInRange'
    BY <1>3, <1>5 DEF IInv, FileInRange
  <2>5. QED
    BY <2>1, <2>2, <2>3, <2>4 DEF IInv
<1>6. QED
  <2>1. CASE ~TargetAllowed(s)
    BY <2>1, <1>4 DEF Assign, Reject, history, IInv, TypeOK
  <2>2. CASE TargetAllowed(s) /\ table[t] \notin {Unset, v}
    BY <2>2, <1>1, <1>4 DEF Assign, Duplicate, InsertAllowed
  <2>3. CASE TargetAllowed(s) /\ table[t] \in {Unset, v}
    BY <2>3, <1>5 DEF Assign, InsertAllowed, Insert, Accept
  <2>4. QED
    BY <2>1, <2>2, <2>3

(* assign_param with override preserves the invariant.                     *)
LEMMA ForceStep ==
    ASSUME IInv, NEW l \in Line, Take(l),
           NEW s, s.block \in Groups, s.key \in Keys,
           NEW v \in Values, Overwrite(s, v)
    PROVE  IInv'
<1> DEFINE t == Target(s)
<1>1. t \in Slots
  BY TargetType DEF IInv
<1>2. Unset \notin Values
  BY UnsetAssumption
<1>3. /\ inComment' \in BOOLEAN /\ lines' \in 0 .. MaxLines
      /\ file' = file /\ status = "reading" /\ file \in 1 .. NumFiles
  BY TakeStep DEF IInv
<1>4. CASE /\ status' = "failed"
           /\ error' \in {"qualified_in_block", "override_of_nothing"}
           /\ UNCHANGED <<table, currBlock, given, forced, boundIn, refused>>
  BY <1>3, <1>4 DEF IInv, TypeOK, FileInRange, TableIsReplay, ForcedWasGiven,
     HasParam
<1>5. CASE /\ table[t] # Unset
           /\ table' = [table EXCEPT ![t] = v]
           /\ forced' = [forced EXCEPT ![t] = v]
           /\ boundIn' = [boundIn EXCEPT ![t] = file]
           /\ UNCHANGED <<status, error, currBlock, given, refused>>
  <2>1. TypeOK'
    <3>1. table' \in [Slots -> Values \cup {Unset}]
      BY <1>5, <1>1 DEF IInv, TypeOK, Tables
    <3>2. forced' \in [Slots -> Values \cup {Unset}]
      BY <1>5, <1>1 DEF IInv, TypeOK
    <3>3. boundIn' \in [Slots -> 0 .. NumFiles]
      BY <1>5, <1>1, <1>3, ParserAssumption DEF IInv, TypeOK, FileInRange
    <3>4. QED
      BY <3>1, <3>2, <3>3, <1>3, <1>5 DEF IInv, TypeOK, Tables
  <2>2. TableIsReplay'
    BY <1>5, <1>1, <1>2 DEF IInv, TableIsReplay, HasParam, TypeOK, Tables
  <2>3. ForcedWasGiven'
    <3>1. given[t] # {}
      BY <1>5, <1>1 DEF IInv, TableIsReplay, ForcedWasGiven, HasParam
    <3>2. QED
      BY <3>1, <1>5, <1>1 DEF IInv, ForcedWasGiven, TypeOK
  <2>4. FileInRange'
    BY <1>3, <1>5 DEF IInv, FileInRange
  <2>5. QED
    BY <2>1, <2>2, <2>3, <2>4 DEF IInv
<1>6. QED
  BY <1>1, <1>4, <1>5 DEF Overwrite, Reject, InsertAllowed, Insert, HasParam, Accept, history

-----------------------------------------------------------------------------
LEMMA InitInv == Init => IInv
<1> SUFFICES ASSUME Init
             PROVE  IInv
  OBVIOUS
<1>1. /\ status = "between" /\ file \in 1 .. NumFiles + 1 /\ lines \in 0 .. MaxLines
      /\ 0 \in 0 .. NumFiles
  BY ParserAssumption DEF Init, Start
<1>2. table \in Tables /\ forced \in [Slots -> Values \cup {Unset}]
  BY DEF Init, Start, EmptyTable, Tables
<1>3. given \in [Slots -> SUBSET Values] /\ boundIn \in [Slots -> 0 .. NumFiles]
  BY <1>1 DEF Init, Start
<1>4. TypeOK
  BY <1>1, <1>2, <1>3, ParserAssumption DEF Init, Start, TypeOK
<1>5. TableIsReplay /\ ForcedWasGiven
  BY DEF Init, Start, EmptyTable, TableIsReplay, ForcedWasGiven, HasParam
<1>6. QED
  BY <1>4, <1>5 DEF Init, Start, IInv, FileInRange

(* Every line read preserves the invariant.                                *)
LEMMA LineStep ==
    ASSUME IInv, NEW l \in Line, ReadLine(l)
    PROVE  IInv'
<1> DEFINE s == Visible(l)
<1>1. s \in Statement
  BY VisibleType
<1>2. s.op \in {"assign", "override", "define", "undef"} => s.block \in Groups /\ s.key \in Keys
  BY <1>1, StatementFields
<1>3. s.op \in {"assign", "override"} => s.value \in Values
  BY <1>1, StatementFields
<1>4. s.op \in {"open", "close"} => s.block \in Groups
  BY <1>1, StatementFields
<1>5. True \in Values /\ False \in Values
  BY ParserAssumption
<1>6. ASSUME Take(l)
      PROVE  /\ inComment' \in BOOLEAN /\ lines' \in 0 .. MaxLines
             /\ file' = file /\ status = "reading" /\ file \in 1 .. NumFiles
  BY <1>6, TakeStep DEF IInv
<1>7. ASSUME Take(l), UNCHANGED <<table, given, forced, boundIn, refused>>,
             currBlock' \in Groups, status' \in {"reading", "failed"},
             error' \in {error, "syntax", "nested_block", "block_mismatch",
                         "qualified_in_block", "undef_of_a_value"}
      PROVE  IInv'
  BY <1>6, <1>7 DEF IInv, TypeOK, FileInRange, TableIsReplay, ForcedWasGiven,
     HasParam
<1>8. currBlock \in Groups /\ NoBlock \in Groups
  BY ParserAssumption DEF IInv, TypeOK
<1>9. CASE ReadBlank(l)
  BY <1>6, <1>7, <1>8, <1>9 DEF ReadBlank, Accept, history
<1>10. CASE ReadMalformed(l)
  BY <1>6, <1>7, <1>8, <1>10 DEF ReadMalformed, Reject, history
<1>11. CASE ReadOpenBlock(l)
  BY <1>4, <1>6, <1>7, <1>8, <1>11 DEF ReadOpenBlock, Accept, Reject, history
<1>12. CASE ReadCloseBlock(l)
  BY <1>4, <1>6, <1>7, <1>8, <1>12 DEF ReadCloseBlock, Accept, Reject, history
<1>13. CASE ReadAssign(l)
  BY <1>2, <1>3, <1>13, AssignStep DEF ReadAssign
<1>14. CASE ReadDefine(l)
  BY <1>2, <1>5, <1>14, AssignStep DEF ReadDefine
<1>15. CASE ReadOverride(l)
  BY <1>2, <1>3, <1>15, ForceStep DEF ReadOverride
<1>16. CASE ReadUndef(l)
  <2>1. CASE Assign(s, False)
    BY <1>2, <1>5, <1>16, <2>1, AssignStep DEF ReadUndef
  <2>2. CASE Overwrite(s, False)
    BY <1>2, <1>5, <1>16, <2>2, ForceStep DEF ReadUndef
  <2>3. CASE Reject("qualified_in_block") \/ Reject("undef_of_a_value")
    BY <1>6, <1>7, <1>8, <1>16, <2>3 DEF ReadUndef, Reject, history
  <2>4. QED
    BY <1>16, <2>1, <2>2, <2>3 DEF ReadUndef
<1>17. QED
  BY <1>9, <1>10, <1>11, <1>12, <1>13, <1>14, <1>15, <1>16 DEF ReadLine

LEMMA NextInv == IInv /\ [Next]_vars => IInv'
<1> SUFFICES ASSUME IInv, [Next]_vars
             PROVE  IInv'
  OBVIOUS
<1>1. CASE OpenFile
  <2>1. /\ status' = "reading" /\ lines' = 0 /\ currBlock' = NoBlock
        /\ inComment' = FALSE /\ file <= NumFiles
        /\ UNCHANGED <<table, file, error, given, forced, boundIn, refused>>
    BY <1>1 DEF OpenFile, history
  <2>2. 0 \in 0 .. MaxLines /\ NoBlock \in Groups
    BY ParserAssumption
  <2>3. TypeOK'
    BY <2>1, <2>2 DEF IInv, TypeOK, Tables
  <2>4. TableIsReplay' /\ ForcedWasGiven'
    BY <2>1 DEF IInv, TableIsReplay, ForcedWasGiven, HasParam
  <2>5. FileInRange'
    BY <2>1 DEF FileInRange
  <2>6. QED
    BY <2>3, <2>4, <2>5 DEF IInv
<1>2. CASE FileUnreadable
  BY <1>2 DEF FileUnreadable, IInv, TypeOK, FileInRange, TableIsReplay,
     ForcedWasGiven, HasParam, history
<1>3. CASE \E l \in Line : ReadLine(l)
  BY <1>3, LineStep
<1>4. CASE EndOfFile
  <2>1. /\ status' \in {"between", "loaded", "failed"}
        /\ file' \in 1 .. NumFiles + 1
        /\ error' \in {error, "unterminated"}
        /\ UNCHANGED <<table, lines, currBlock, inComment, given, forced, boundIn, refused>>
    BY <1>4, ParserAssumption DEF EndOfFile, Finish, Reject, IInv, TypeOK, FileInRange, history
  <2>2. status' # "failed" => currBlock = NoBlock /\ ~inComment
    BY <1>4 DEF EndOfFile, Finish, Reject, IInv, TypeOK
  <2>3. QED
    BY <2>1, <2>2 DEF IInv, TypeOK, FileInRange, TableIsReplay,
       ForcedWasGiven, HasParam
<1>5. CASE UNCHANGED vars
  BY <1>5 DEF vars, history, IInv, TypeOK, FileInRange, TableIsReplay,
     ForcedWasGiven, HasParam
<1>6. QED
  BY <1>1, <1>2, <1>3, <1>4, <1>5 DEF Next

(* The invariant the other theorems come from.                             *)
THEOREM Invariance == Spec => []IInv
<1>1. Init => IInv
  BY InitInv
<1>2. IInv /\ [Next]_vars => IInv'
  BY NextInv
<1>3. QED
  BY <1>1, <1>2, PTL DEF Spec

(* Every variable of the reader keeps its type (add_data_from_file).       *)
THEOREM TypeCorrect == Spec => []TypeOK
<1>1. IInv => TypeOK
  BY DEF IInv
<1>2. QED
  BY <1>1, Invariance, PTL

(* The table is always the replay of the accepted text: however the lines  *)
(* are spread over files and in whatever order, a slot no directive forced *)
(* has the one value all its assignments agree on (ParamTable::insert and  *)
(* the directives of add_data_from_file).                                  *)
THEOREM ReplayCorrect == Spec => []TableIsReplay
<1>1. IInv => TableIsReplay
  BY DEF IInv
<1>2. QED
  BY <1>1, Invariance, PTL

(* No parameter comes to exist by a directive alone: what #override or     *)
(* #undef forced, an earlier line had assigned (the override branch of     *)
(* insert).                                                                *)
THEOREM ForcedWasAlwaysGiven == Spec => []ForcedWasGiven
<1>1. IInv => ForcedWasGiven
  BY DEF IInv
<1>2. QED
  BY <1>1, Invariance, PTL

(* What each kind of assignment does to the value of any slot.             *)
LEMMA AssignKeepsBound ==
    ASSUME TypeOK, NEW p, p.block \in Groups, p.key \in Keys, NEW v, Assign(p, v),
           NEW x \in Slots, table[x] # Unset
    PROVE  table'[x] = table[x]
<1> DEFINE t == Target(p)
<1>1. t \in Slots /\ table \in Tables
  BY TargetType DEF TypeOK
<1>2. CASE TargetAllowed(p) /\ InsertAllowed(table, t, v, FALSE)
  <2>1. table[t] \in {Unset, v} /\ table' = [table EXCEPT ![t] = v]
    BY <1>2 DEF Assign, InsertAllowed, Insert
  <2>2. QED
    BY <1>1, <2>1 DEF Tables
<1>3. CASE ~(TargetAllowed(p) /\ InsertAllowed(table, t, v, FALSE))
  BY <1>3 DEF Assign, Reject, Duplicate
<1>4. QED
  BY <1>2, <1>3

LEMMA OverwriteForces ==
    ASSUME TypeOK, NEW p, p.block \in Groups, p.key \in Keys, NEW v \in Values, Overwrite(p, v),
           NEW x \in Slots, table'[x] # table[x]
    PROVE  table'[x] # Unset /\ forced'[x] = table'[x]
<1> DEFINE t == Target(p)
<1>1. t \in Slots /\ table \in Tables /\ forced \in [Slots -> Values \cup {Unset}] /\ v # Unset
  BY TargetType, UnsetAssumption DEF TypeOK
<1>2. CASE TargetAllowed(p) /\ InsertAllowed(table, t, v, TRUE)
  <2>1. table' = [table EXCEPT ![t] = v] /\ forced' = [forced EXCEPT ![t] = v]
    BY <1>2 DEF Overwrite, Insert
  <2>2. QED
    BY <1>1, <2>1 DEF Tables
<1>3. CASE ~(TargetAllowed(p) /\ InsertAllowed(table, t, v, TRUE))
  BY <1>3 DEF Overwrite, Reject
<1>4. QED
  BY <1>2, <1>3

(* No line takes a value away, and only #override and #undef change one    *)
(* (assign_param, and ParamTable::insert under it).                        *)
THEOREM OnlyDirectivesEverRebind == Spec => OnlyDirectivesRebind
<1>1. ASSUME IInv, [Next]_vars, vars' # vars, NEW x \in Slots, table[x] # Unset, table'[x] # table[x]
      PROVE  table'[x] # Unset /\ forced'[x] = table'[x]
  <2>1. TypeOK
    BY <1>1 DEF IInv
  <2>2. PICK l \in Line : ReadLine(l)
    BY <1>1 DEF Next, vars, OpenFile, FileUnreadable, EndOfFile, Finish, Reject
  <2> DEFINE p == Visible(l)
  <2>3. /\ p.op \in {"assign", "override", "define", "undef"} => p.block \in Groups /\ p.key \in Keys
        /\ p.op \in {"assign", "override"} => p.value \in Values
    BY VisibleType, StatementFields
  <2>4. True \in Values /\ False \in Values
    BY ParserAssumption
  <2> HIDE DEF p
  <2>5. CASE ReadBlank(l) \/ ReadMalformed(l) \/ ReadOpenBlock(l) \/ ReadCloseBlock(l)
    BY <1>1, <2>5 DEF ReadBlank, ReadMalformed, ReadOpenBlock, ReadCloseBlock, Reject
  <2>6. CASE ReadAssign(l) \/ ReadDefine(l)
    <3>1. p.block \in Groups /\ p.key \in Keys /\ (Assign(p, p.value) \/ Assign(p, True))
      BY <2>3, <2>6 DEF ReadAssign, ReadDefine, p
    <3>2. QED
      BY <1>1, <2>1, <3>1, AssignKeepsBound
  <2>7. CASE ReadOverride(l)
    <3>1. p.block \in Groups /\ p.key \in Keys /\ p.value \in Values /\ Overwrite(p, p.value)
      BY <2>3, <2>7 DEF ReadOverride, p
    <3>2. QED
      BY <1>1, <2>1, <3>1, OverwriteForces
  <2>8. CASE ReadUndef(l)
    <3>1. /\ p.block \in Groups /\ p.key \in Keys
          /\ \/ Assign(p, False) \/ Overwrite(p, False)
             \/ Reject("qualified_in_block") \/ Reject("undef_of_a_value")
      BY <2>3, <2>8 DEF ReadUndef, p
    <3>2. CASE Assign(p, False)
      BY <1>1, <2>1, <3>1, <3>2, AssignKeepsBound
    <3>3. CASE Overwrite(p, False)
      BY <1>1, <2>1, <2>4, <3>1, <3>3, OverwriteForces
    <3>4. CASE Reject("qualified_in_block") \/ Reject("undef_of_a_value")
      BY <1>1, <3>4 DEF Reject
    <3>5. QED
      BY <3>1, <3>2, <3>3, <3>4
  <2>9. QED
    BY <2>2, <2>5, <2>6, <2>7, <2>8 DEF ReadLine
<1>2. IInv /\ [Next]_vars =>
        [OnlyForcedRebound]_vars
  BY <1>1 DEF OnlyForcedRebound
<1>3. QED
  BY <1>2, Invariance, PTL DEF Spec, OnlyDirectivesRebind
=============================================================================
