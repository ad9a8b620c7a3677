----------------------------- MODULE FileParser -----------------------------
(***************************************************************************)
(* RuntimeParams' constructor: the parameter files are read in order, line *)
(* by line, into one ParamTable (framework/MOM_file_parser.cpp).  A line   *)
(* is a statement with the comment delimiters around it; a statement has   *)
(* the parts the parser branches on and none of their spelling.  The files *)
(* are not fixed in advance: each line is any line, and a file may end     *)
(* anywhere, so a behaviour is one list of files being read.               *)
(* The first error ends the construction: there is then no object.         *)
(***************************************************************************)
EXTENDS ParamTable, Naturals

CONSTANTS
    NoBlock,        \* the empty block name
    True, False,    \* the two Boolean values
    NumFiles,       \* how many parameter files are given
    MaxLines        \* bound: lines in one file

ASSUME ParserAssumption ==
    /\ NoBlock \in Groups
    /\ {True, False} \subseteq Values
    /\ True # False
    /\ NumFiles \in Nat
    /\ NumFiles > 0
    /\ MaxLines \in Nat

\* RuntimeParams::table_ is built case sensitive.
ASSUME CaseAssumption == CaseInsensitive = FALSE

VARIABLES
    table,       \* RuntimeParams::table_
    status,      \* where the constructor is
    file,        \* the file being read, or the next to open
    lines,       \* lines of it read so far
    currBlock,   \* add_data_from_file: curr_block
    inComment,   \* add_data_from_file: in_block_comment
    error,       \* the exception that ended the construction
    given,       \* history: values plainly assigned to a slot and accepted
    forced,      \* history: the last value an override or undef forced
    boundIn,     \* history: the file that gave a slot its value (0: none)
    refused      \* history: the slot of a refused duplicate assignment

history == <<given, forced, boundIn, refused>>
vars == <<table, status, file, lines, currBlock, inComment, error, history>>

Blocks == Groups \ {NoBlock}

NoError == "none"

(***************************************************************************)
(* A statement is what is left of a line when the comments are gone.  A    *)
(* target is a key with an optional block qualifier (block%key).           *)
(***************************************************************************)
Statement ==
         [op : {"blank", "malformed"}]
    \cup [op : {"open", "close"}, block : Blocks]
    \cup [op : {"assign", "override"}, block : Groups, key : Keys, value : Values]
    \cup [op : {"define", "undef"}, block : Groups, key : Keys]

\* A line as strip_block_comments sees it: it may close a comment before its
\* statement and open one after it.
Line == [closes : BOOLEAN, stmt : Statement, opens : BOOLEAN]

\* The statement strip_block_comments leaves of a line.  A "*/" outside a
\* comment is ordinary text, and no statement starts with it.
Visible(l) ==
    IF inComment /\ ~l.closes THEN [op |-> "blank"]
    ELSE IF ~inComment /\ l.closes THEN [op |-> "malformed"]
    ELSE l.stmt

\* in_block_comment after the line.
CommentAfter(l) == (inComment /\ ~l.closes) \/ l.opens

\* parse_target: block%key is refused inside a block, a bare key belongs to
\* the open block.
TargetAllowed(s) == s.block = NoBlock \/ currBlock = NoBlock
Target(s) == Slot(IF s.block = NoBlock THEN currBlock ELSE s.block, s.key)

Start(firstFile) ==
    /\ table = EmptyTable
    /\ status = "between"
    /\ file = firstFile
    /\ lines = 0
    /\ currBlock = NoBlock
    /\ inComment = FALSE
    /\ error = NoError
    /\ given = [s \in Slots |-> {}]
    /\ forced = EmptyTable
    /\ boundIn = [s \in Slots |-> 0]
    /\ refused = {}

Init == Start(1)

(***************************************************************************)
(* Opening a file: the checks at the head of add_data_from_file.           *)
(***************************************************************************)
OpenFile ==
    /\ status = "between"
    /\ file <= NumFiles
    /\ status' = "reading"
    /\ lines' = 0
    /\ currBlock' = NoBlock
    /\ inComment' = FALSE
    /\ UNCHANGED <<table, file, error, history>>

\* The path is missing, is not a regular file or cannot be opened.
FileUnreadable ==
    /\ status = "between"
    /\ file <= NumFiles
    /\ status' = "failed"
    /\ error' = "unreadable"
    /\ UNCHANGED <<table, file, lines, currBlock, inComment, history>>

(***************************************************************************)
(* One line.  Every action below is one branch of the loop body.           *)
(***************************************************************************)
Take(l) ==
    /\ status = "reading"
    /\ lines < MaxLines
    /\ lines' = lines + 1
    /\ inComment' = CommentAfter(l)
    /\ file' = file

Accept == status' = status /\ error' = error

Reject(why) ==
    /\ status' = "failed"
    /\ error' = why
    /\ UNCHANGED <<table, currBlock, history>>

Duplicate(slot) ==
    /\ status' = "failed"
    /\ error' = "duplicate"
    /\ refused' = {slot}
    /\ UNCHANGED <<table, currBlock, given, forced, boundIn>>

ReadBlank(l) ==
    /\ Visible(l).op = "blank"
    /\ Take(l)
    /\ Accept
    /\ UNCHANGED <<table, currBlock, history>>

\* Bad identifier, bad list, unknown directive, missing '=' and the like.
ReadMalformed(l) ==
    /\ Visible(l).op = "malformed"
    /\ Take(l)
    /\ Reject("syntax")

ReadOpenBlock(l) ==
    LET s == Visible(l) IN
    /\ s.op = "open"
    /\ Take(l)
    /\ \/ /\ currBlock = NoBlock
          /\ currBlock' = s.block
          /\ Accept
          /\ UNCHANGED <<table, history>>
       \/ currBlock # NoBlock /\ Reject("nested_block")

ReadCloseBlock(l) ==
    LET s == Visible(l) IN
    /\ s.op = "close"
    /\ Take(l)
    /\ \/ /\ currBlock = s.block
          /\ currBlock' = NoBlock
          /\ Accept
          /\ UNCHANGED <<table, history>>
       \/ currBlock # s.block /\ Reject("block_mismatch")

\* assign_param without override: key = value, #define key value, and
\* #define key, which assigns True.
Assign(s, v) ==
    IF ~TargetAllowed(s) THEN Reject("qualified_in_block")
    ELSE IF ~InsertAllowed(table, Target(s), v, FALSE) THEN Duplicate(Target(s))
    ELSE /\ table' = Insert(table, Target(s), v)
         /\ given' = [given EXCEPT ![Target(s)] = @ \cup {v}]
         /\ boundIn' = [boundIn EXCEPT ![Target(s)] = IF @ = 0 THEN file ELSE @]
         /\ Accept
         /\ UNCHANGED <<currBlock, forced, refused>>

\* assign_param with override.
Overwrite(s, v) ==
    IF ~TargetAllowed(s) THEN Reject("qualified_in_block")
    ELSE IF ~InsertAllowed(table, Target(s), v, TRUE) THEN Reject("override_of_nothing")
    ELSE /\ table' = Insert(table, Target(s), v)
         /\ forced' = [forced EXCEPT ![Target(s)] = v]
         /\ boundIn' = [boundIn EXCEPT ![Target(s)] = file]
         /\ Accept
         /\ UNCHANGED <<currBlock, given, refused>>

ReadAssign(l) == Visible(l).op = "assign" /\ Take(l) /\ Assign(Visible(l), Visible(l).value)

ReadDefine(l) == Visible(l).op = "define" /\ Take(l) /\ Assign(Visible(l), True)

ReadOverride(l) == Visible(l).op = "override" /\ Take(l) /\ Overwrite(Visible(l), Visible(l).value)

\* Mutant of ReadUndef: #undef of a True key erases it.
ReadUndefErases(l) ==
    LET s == Visible(l) IN
    /\ s.op = "undef"
    /\ Take(l)
    /\ IF ~TargetAllowed(s) THEN Reject("qualified_in_block")
       ELSE IF ~HasParam(table, Target(s)) THEN Assign(s, False)
       ELSE IF table[Target(s)] # True THEN Reject("undef_of_a_value")
       ELSE Overwrite(s, Unset)

\* #undef sets False: by override when the key is bound, which it may be to
\* True only, by plain assignment when it is free.
ReadUndef(l) ==
    LET s == Visible(l) IN
    /\ s.op = "undef"
    /\ Take(l)
    /\ IF ~TargetAllowed(s) THEN Reject("qualified_in_block")
       ELSE IF ~HasParam(table, Target(s)) THEN Assign(s, False)
       ELSE IF table[Target(s)] # True THEN Reject("undef_of_a_value")
       ELSE Overwrite(s, False)

(***************************************************************************)
(* End of a file, and of the constructor after the last one.               *)
(***************************************************************************)
Finish(unterminated) ==
    /\ status = "reading"
    /\ IF unterminated
       THEN Reject("unterminated") /\ file' = file
       ELSE /\ status' = IF file = NumFiles THEN "loaded" ELSE "between"
            /\ file' = file + 1
            /\ UNCHANGED <<table, currBlock, error, history>>
    /\ UNCHANGED <<lines, inComment>>

EndOfFile == Finish(inComment \/ currBlock # NoBlock)

ReadLine(l) ==
    \/ ReadBlank(l)
    \/ ReadMalformed(l)
    \/ ReadOpenBlock(l)
    \/ ReadCloseBlock(l)
    \/ ReadAssign(l)
    \/ ReadDefine(l)
    \/ ReadOverride(l)
    \/ ReadUndef(l)

Next ==
    \/ OpenFile
    \/ FileUnreadable
    \/ \E l \in Line : ReadLine(l)
    \/ EndOfFile

Spec == Init /\ [][Next]_vars

-----------------------------------------------------------------------------
(* The type of every variable of the parser and of its history.            *)
TypeOK ==
    /\ table \in Tables
    /\ status \in {"between", "reading", "loaded", "failed"}
    /\ file \in 1 .. NumFiles + 1
    /\ lines \in 0 .. MaxLines
    /\ currBlock \in Groups
    /\ inComment \in BOOLEAN
    /\ error \in {NoError, "unreadable", "syntax", "nested_block", "block_mismatch",
                 "qualified_in_block", "duplicate", "override_of_nothing",
                 "undef_of_a_value", "unterminated"}
    /\ given \in [Slots -> SUBSET Values]
    /\ forced \in [Slots -> Values \cup {Unset}]
    /\ boundIn \in [Slots -> 0 .. NumFiles]
    /\ refused \in SUBSET Slots

(* The table is what the accepted text says, slot by slot: the last forced *)
(* value if an #override or an #undef forced one, and otherwise the one    *)
(* value on which all plain assignments, in every file and in any order,   *)
(* agree.  So text without directives means the same in any order.         *)
TableIsReplay ==
    \A s \in Slots :
        IF forced[s] # Unset THEN table[s] = forced[s]
        ELSE given[s] = IF HasParam(table, s) THEN {table[s]} ELSE {}

(* A forced value always replaced something an earlier line assigned: no   *)
(* parameter comes to exist through #override alone (insert's override     *)
(* branch, and the #undef branch that overrides).                          *)
ForcedWasGiven == \A s \in Slots : forced[s] # Unset => given[s] # {}

(* A step that takes no value away and changes none but to a forced one.   *)
OnlyForcedRebound ==
    \A s \in Slots :
        table[s] # Unset /\ table'[s] # table[s] => table'[s] # Unset /\ forced'[s] = table'[s]

(* No line ever takes a value away, and only an overriding directive       *)
(* changes the value a parameter already has.                              *)
OnlyDirectivesRebind == [][OnlyForcedRebound]_vars

(* The constructor's comment says that later files override earlier ones:  *)
(* then no plain assignment is refused because an EARLIER file gave the    *)
(* parameter another value.                                                *)
LaterFilesOverride == \A s \in refused : boundIn[s] = file
=============================================================================
